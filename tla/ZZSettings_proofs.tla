-------------------------- MODULE ZZSettings_proofs --------------------------
(***************************************************************************)
(* The settings, for any parameters, firmware versions, requests and first *)
(* files: save() tells the truth about the flash, which behaves as the     *)
(* atomic SettingsStore; what is in memory is well-formed, valid and       *)
(* defined by the firmware; updates are guarded; a load keeps what is      *)
(* stored and settles.                                                     *)
(***************************************************************************)
EXTENDS ZZSettings, FiniteSetTheorems, SequenceTheorems, WellFoundedInduction, TLAPS

(* What the steps of a save keep: the settings file is the one the save    *)
(* found, and a temporary file about to be renamed is complete.            *)
SaveInv ==
    /\ fw \in Firmware
    /\ Saving => before = file
    /\ pc = "rename" /\ bOk => tmp = Whole(mem)

(* Initially no save is running. *)
LEMMA SaveInvInit == Init => SaveInv
BY DEF Init, SaveInv, Saving

(* Every step, a reset at any moment included, preserves SaveInv. *)
LEMMA SaveInvStep == SaveInv /\ [Next]_vars => SaveInv'
<1> SUFFICES ASSUME SaveInv, [Next]_vars PROVE SaveInv'
  OBVIOUS
<1> USE DEF SaveInv, Saving
<1>1. ASSUME NEW n \in Names, NEW v \in Values, SetParam(n, v) PROVE SaveInv'
  BY <1>1 DEF SetParam
<1>2. ASSUME NEW us \in Requests, SetParams(us) \/ SetData(us) PROVE SaveInv'
  BY <1>2 DEF SetParams, SetData
<1>3. ASSUME NEW p \in AppParams, AppAppend(p) PROVE SaveInv'
  BY <1>3 DEF AppAppend
<1>4. CASE AppSave BY <1>4 DEF AppSave, StartSave
<1>5. CASE OpenFails BY <1>5 DEF OpenFails, Return
<1>6. CASE Open BY <1>6 DEF Open
<1>7. CASE WritePayload BY <1>7 DEF WritePayload
<1>8. CASE WriteTrailer BY <1>8 DEF WriteTrailer
<1>9. CASE Rename BY <1>9 DEF Rename, Return
<1>10. CASE RenameSkipped BY <1>10 DEF RenameSkipped
<1>11. CASE RemoveTmp BY <1>11 DEF RemoveTmp, Return
<1>12. CASE PowerLoss BY <1>12 DEF PowerLoss
<1>13. CASE Boot BY <1>13 DEF Boot
<1>14. CASE LoadFactory BY <1>14 DEF LoadFactory, StartSave
<1>15. CASE LoadStored BY <1>15 DEF LoadStored, StartSave
<1>16. CASE UNCHANGED vars BY <1>16 DEF vars
<1> QED
  BY <1>1, <1>2, <1>3, <1>4, <1>5, <1>6, <1>7, <1>8, <1>9, <1>10, <1>11,
     <1>12, <1>13, <1>14, <1>15, <1>16 DEF Next

(* SaveInv holds always. *)
THEOREM SaveInvariant == Spec => []SaveInv
BY SaveInvInit, SaveInvStep, PTL DEF Spec

-----------------------------------------------------------------------------

(* A step that returns from save() does what the value it returns says.    *)
LEMMA ReturnStep ==
    ASSUME SaveInv, [Next]_vars, Saving, pc' = "ready"
    PROVE  file' = IF result' THEN Whole(mem) ELSE before
<1> USE DEF SaveInv, Saving
<1>1. OpenFails \/ RemoveTmp \/ Rename
  BY DEF Next, vars, SetParam, SetParams, SetData, AppAppend, AppSave, StartSave,
         Open, WritePayload, WriteTrailer, RenameSkipped, PowerLoss, Boot,
         LoadFactory, LoadStored
<1>2. CASE OpenFails \/ RemoveTmp
  BY <1>2 DEF OpenFails, RemoveTmp, Return
<1>3. CASE Rename
  BY <1>3 DEF Rename, Return
<1> QED BY <1>1, <1>2, <1>3

(* save() returns true only when the settings file holds what is in        *)
(* memory, and false only when it is the file the save found.              *)
THEOREM SaveTellsTruthAlways == Spec => SaveTellsTruth
<1>1. SaveInv /\ [Next]_vars
        => [Saving /\ pc' = "ready" => file' = IF result' THEN Whole(mem) ELSE before]_vars
  BY ReturnStep
<1> QED BY <1>1, SaveInvariant, PTL DEF Spec, SaveTellsTruth

-----------------------------------------------------------------------------

(* Initially the flash holds some first file and nothing is in memory. *)
LEMMA StoreInit == Init => Store!Init
BY DEF Init, Store!Init, Loaded, Saving

(* Every step is a step of the atomic store or leaves it alone: only the   *)
(* rename touches the file, and what it puts there is the whole memory.    *)
LEMMA StoreStep ==
    SaveInv /\ [Next]_vars => [Store!Next]_<<mem, file, Loaded>>
<1> SUFFICES ASSUME SaveInv, [Next]_vars
             PROVE  Store!Next \/ UNCHANGED <<mem, file, Loaded>>
  OBVIOUS
<1> USE DEF SaveInv, Loaded, Saving, Store!Next, Store!Edit
<1>1. ASSUME NEW n \in Names, NEW v \in Values, SetParam(n, v) PROVE Store!Next
  BY <1>1 DEF SetParam
<1>2. ASSUME NEW us \in Requests, SetParams(us) \/ SetData(us) PROVE Store!Next
  BY <1>2 DEF SetParams, SetData
<1>3. ASSUME NEW p \in AppParams, AppAppend(p) PROVE Store!Next
  BY <1>3 DEF AppAppend
<1>4. CASE AppSave BY <1>4 DEF AppSave, StartSave
<1>5. CASE OpenFails BY <1>5 DEF OpenFails, Return
<1>6. CASE Open BY <1>6 DEF Open
<1>7. CASE WritePayload BY <1>7 DEF WritePayload
<1>8. CASE WriteTrailer BY <1>8 DEF WriteTrailer
<1>9. CASE Rename BY <1>9 DEF Rename, Return, Store!Save
<1>10. CASE RenameSkipped BY <1>10 DEF RenameSkipped
<1>11. CASE RemoveTmp BY <1>11 DEF RemoveTmp, Return
<1>12. CASE PowerLoss BY <1>12 DEF PowerLoss, Store!PowerLoss
<1>13. CASE Boot BY <1>13 DEF Boot
<1>14. CASE LoadFactory BY <1>14 DEF LoadFactory, StartSave, Store!Load
<1>15. CASE LoadStored BY <1>15 DEF LoadStored, StartSave, Store!Load
<1>16. CASE UNCHANGED vars BY <1>16 DEF vars
<1> QED
  BY <1>1, <1>2, <1>3, <1>4, <1>5, <1>6, <1>7, <1>8, <1>9, <1>10, <1>11,
     <1>12, <1>13, <1>14, <1>15, <1>16 DEF Next

(* Whatever fails, and whenever the power does, the flash behaves as the   *)
(* atomic SettingsStore.                                                   *)
THEOREM Refinement == Spec => ImplementsStore
<1> USE DEF ImplementsStore, Store!Spec
<1> QED BY StoreInit, StoreStep, SaveInvariant, PTL DEF Spec

-----------------------------------------------------------------------------
(* Induction with a set in the place of a predicate. *)

(* A set of natural numbers that is not empty has a least one.             *)
LEMMA Least ==
    ASSUME NEW T \in SUBSET Nat, T # {}
    PROVE  \E k \in T : \A j \in T : k <= j
<1> DEFINE R == {ss \in Nat \X Nat : ss[1] < ss[2]}
<1>1. IsWellFoundedOn(R, Nat)
  BY NatLessThanWellFounded DEF OpToRel
<1>2. PICK k \in T : \A j \in T : <<j, k>> \notin R
  <2> HIDE DEF R
  <2> QED
    BY <1>1, WFMin
<1>3. \A i, j \in Nat : i < j => <<i, j>> \in R
  OBVIOUS
<1> HIDE DEF R
<1>4. \A j \in T : ~(j < k)
  BY <1>2, <1>3
<1>5. k \in T /\ T \subseteq Nat
  BY <1>2
<1> QED
  BY <1>4, <1>5

(* A set that holds 0 and with every number the next holds all of them.    *)
LEMMA Induction ==
    ASSUME NEW n \in Nat, NEW T, 0 \in T, \A i \in 1..n : i - 1 \in T => i \in T
    PROVE  0..n \subseteq T
<1> DEFINE Bad == (0..n) \ T
<1> SUFFICES ASSUME Bad # {} PROVE FALSE
  OBVIOUS
<1>1. Bad \in SUBSET Nat
  OBVIOUS
<1>2. PICK k \in Bad : \A j \in Bad : k <= j
  <2> HIDE DEF Bad
  <2> QED
    BY <1>1, Least
<1>3. k # 0 /\ k \in 1..n /\ k \notin T
  BY <1>2
<1>4. k - 1 \in 0..n /\ k - 1 \notin Bad
  BY <1>2, <1>3
<1> QED
  BY <1>3, <1>4

(* g begins with base and goes on with step, up to n, and stays in S.      *)
Runs(g, n, S, base, step) ==
    /\ g \in [0..n -> S]
    /\ g[0] = base
    /\ \A i \in 1..n : g[i] = step[g[i - 1]][i]

(* What a recursive definition over 0..n defines exists. *)
LEMMA Recursion ==
    ASSUME NEW n \in Nat, NEW S, NEW base \in S, NEW step \in [S -> [1..n -> S]]
    PROVE  \E g : Runs(g, n, S, base, step)
<1> DEFINE T == {k \in 0..n : \E g : Runs(g, k, S, base, step)}
<1>1. 0 \in T
  <2>1. Runs([i \in 0..0 |-> base], 0, S, base, step)
    BY DEF Runs
  <2> QED
    BY <2>1
<1>2. ASSUME NEW k \in 1..n, k - 1 \in T PROVE k \in T
  <2>1. PICK g : Runs(g, k - 1, S, base, step)
    BY <1>2
  <2>2. k \in Nat /\ k # 0 /\ k - 1 \in 0..(k - 1) /\ 0 \in 0..(k - 1)
    BY <1>2
  <2>3. g \in [0..(k - 1) -> S] /\ g[k - 1] \in S
    BY <2>1, <2>2 DEF Runs
  <2>4. PICK v \in S : v = step[g[k - 1]][k]
    BY <1>2, <2>3
  <2> DEFINE h == [i \in 0..k |-> IF i = k THEN v ELSE g[i]]
  <2>5. h \in [0..k -> S] /\ h[k] = v /\ \A i \in 0..(k - 1) : h[i] = g[i]
    BY <2>2, <2>3
  <2> HIDE DEF h
  <2>6. h[0] = base
    BY <2>1, <2>2, <2>5 DEF Runs
  <2>7. ASSUME NEW i \in 1..k PROVE h[i] = step[h[i - 1]][i]
    <3>1. CASE i = k
      BY <2>2, <2>4, <2>5, <3>1
    <3>2. CASE i # k
      <4>1. i \in 1..(k - 1) /\ i \in 0..(k - 1) /\ i - 1 \in 0..(k - 1)
        BY <2>2, <3>2
      <4> QED
        BY <2>1, <2>5, <4>1 DEF Runs
    <3> QED
      BY <3>1, <3>2
  <2>8. Runs(h, k, S, base, step)
    BY <2>5, <2>6, <2>7 DEF Runs
  <2> QED
    BY <1>2, <2>8
<1>3. n \in T
  <2> HIDE DEF T
  <2>1. 0..n \subseteq T
    BY <1>1, <1>2, Induction
  <2> QED
    BY <2>1
<1> QED
  BY <1>3

-----------------------------------------------------------------------------
(* Parameters and what the folds of them keep. *)

(* q has the attributes of p. *)
Alike(p, q) == p.name = q.name /\ p.range = q.range /\ p.readonly = q.readonly

ValuesOK(m) == \A i \in DOMAIN m : IsValid(m[i], m[i].value)

(* m is sound for firmware f: well-formed and valid, and it begins with    *)
(* the parameters of f.                                                    *)
Sound(f) ==
    {m \in Seq(Param) :
       /\ ValuesOK(m)
       /\ Len(Factory[f]) <= Len(m)
       /\ \A i \in 1..Len(Factory[f]) : Alike(m[i], Factory[f][i])}

(* The factory values of a firmware are sound for it.                      *)
LEMMA FactorySound ==
    ASSUME NEW f \in Firmware
    PROVE  Factory[f] \in Seq(Param) /\ Factory[f] \in Sound(f)
<1>1. Factory[f] \in Seq(Param) /\ Len(Factory[f]) \in Nat /\ DOMAIN Factory[f] = 1..Len(Factory[f])
  BY SettingsAssumption, LenProperties
<1>2. \A i \in 1..Len(Factory[f]) : Alike(Factory[f][i], Factory[f][i])
  BY DEF Alike
<1>3. ValuesOK(Factory[f])
  BY <1>1, FirmwareAssumption DEF ValuesOK
<1> QED
  BY <1>1, <1>2, <1>3 DEF Sound

(* findParam returns a parameter of the name, the first one.               *)
LEMMA FirstFound ==
    ASSUME NEW m \in Seq(Param), NEW n, Known(m, n)
    PROVE  /\ First(Found(m, n)) \in 1..Len(m)
           /\ m[First(Found(m, n))].name = n
           /\ \A j \in 1..Len(m) : m[j].name = n => First(Found(m, n)) <= j
<1> DEFINE S == Found(m, n)
<1>1. DOMAIN m = 1..Len(m) /\ Len(m) \in Nat
  BY LenProperties
<1>2. S \in SUBSET Nat /\ S # {} /\ \A j \in S : j \in 1..Len(m) /\ m[j].name = n
  BY <1>1 DEF Found, Known
<1>3. \A j \in 1..Len(m) : m[j].name = n => j \in S
  BY <1>1 DEF Found
<1> HIDE DEF S
<1>4. \E k \in S : \A j \in S : k <= j
  BY <1>2, Least
<1>5. First(S) \in S /\ \A j \in S : First(S) <= j
  BY <1>4 DEF First
<1> QED
  BY <1>2, <1>3, <1>5 DEF S

(* A valid value keeps the parameters sound and changes no attribute.      *)
LEMMA SetSound ==
    ASSUME NEW f \in Firmware, NEW m \in Sound(f), NEW n, NEW v \in Values,
           Known(m, n), IsValid(Find(m, n), v)
    PROVE  /\ SetValue(m, n, v) \in Sound(f)
           /\ Len(SetValue(m, n, v)) = Len(m)
           /\ \A i \in 1..Len(m) : Alike(SetValue(m, n, v)[i], m[i])
<1>0. PICK k : k = First(Found(m, n))
  OBVIOUS
<1>1. /\ m \in Seq(Param) /\ DOMAIN m = 1..Len(m) /\ Len(m) \in Nat
      /\ \A i \in 1..Len(m) : m[i] \in Param
  BY LenProperties, ElementOfSeq DEF Sound
<1>2. k \in 1..Len(m) /\ IsValid(m[k], v)
  BY <1>0, <1>1, FirstFound DEF Find
<1> DEFINE p == [m[k] EXCEPT !.value = v]
           m2 == SetValue(m, n, v)
<1>3. /\ p \in Param /\ p.range = m[k].range /\ p.value = v
      /\ Alike(p, m[k])
      /\ \A q : Alike(m[k], q) => Alike(p, q)
  BY <1>1, <1>2 DEF Param, Alike
<1>4. m2 = [m EXCEPT ![k] = p]
  BY <1>0 DEF SetValue
<1> HIDE DEF p
<1>5. /\ m2 \in Seq(Param) /\ Len(m2) = Len(m) /\ DOMAIN m2 = DOMAIN m
      /\ m2[k] = p /\ \A i \in 1..Len(m) : i # k => m2[i] = m[i]
  BY <1>1, <1>2, <1>3, <1>4, ExceptSeq
<1> HIDE DEF m2
<1>6. \A i \in 1..Len(m) : Alike(m2[i], m[i])
  BY <1>3, <1>5 DEF Alike
<1>7. ValuesOK(m2)
  BY <1>1, <1>2, <1>3, <1>5 DEF Sound, ValuesOK, IsValid
<1>8. Len(Factory[f]) \in Nat
  BY FactorySound, LenProperties
<1>9. \A i \in 1..Len(Factory[f]) : Alike(m2[i], Factory[f][i])
  BY <1>1, <1>3, <1>5, <1>8 DEF Sound
<1>10. m2 \in Sound(f)
  BY <1>5, <1>7, <1>9 DEF Sound
<1> QED
  BY <1>5, <1>6, <1>10 DEF m2

(* A parameter of the firmware is found where the firmware has it.         *)
LEMMA FactoryFound ==
    ASSUME NEW f \in Firmware, NEW m \in Sound(f), NEW i \in 1..Len(Factory[f])
    PROVE  /\ i \in 1..Len(m)
           /\ Known(m, Factory[f][i].name)
           /\ First(Found(m, Factory[f][i].name)) = i
           /\ Find(m, Factory[f][i].name) = m[i]
<1> DEFINE n == Factory[f][i].name
           k == First(Found(m, n))
<1>1. m \in Seq(Param) /\ DOMAIN m = 1..Len(m) /\ Len(m) \in Nat
  BY LenProperties DEF Sound
<1>2. /\ Factory[f] \in Seq(Param) /\ Len(Factory[f]) \in Nat
      /\ DOMAIN Factory[f] = 1..Len(Factory[f])
  BY FactorySound, LenProperties
<1>3. /\ Len(Factory[f]) <= Len(m)
      /\ \A j \in 1..Len(Factory[f]) : m[j].name = Factory[f][j].name
  BY DEF Sound, Alike
<1>4. i \in 1..Len(m) /\ Known(m, n)
  BY <1>1, <1>2, <1>3 DEF Known, Found
<1>5. k \in 1..Len(m) /\ m[k].name = n /\ k <= i
  BY <1>1, <1>3, <1>4, FirstFound
<1> HIDE DEF k
<1>6. k \in 1..Len(Factory[f]) /\ Factory[f][k].name = n
  BY <1>1, <1>2, <1>3, <1>5
<1>7. k = i
  BY <1>2, <1>6, FirmwareAssumption
<1> QED
  BY <1>4, <1>7 DEF Find, k

(* Parameters that differ in values only have the same names and ranges.   *)
LEMMA AlikeFound ==
    ASSUME NEW m \in Seq(Param), NEW m2 \in Seq(Param), Len(m2) = Len(m),
           \A i \in 1..Len(m) : Alike(m2[i], m[i]), NEW n, Known(m, n)
    PROVE  Known(m2, n) /\ Find(m2, n).range = Find(m, n).range /\ Found(m2, n) = Found(m, n)
<1>1. /\ DOMAIN m = 1..Len(m) /\ DOMAIN m2 = 1..Len(m)
      /\ \A i \in 1..Len(m) : m[i] \in Param /\ m2[i] \in Param
  BY LenProperties, ElementOfSeq
<1>2. \A i \in 1..Len(m) : m2[i].name = m[i].name /\ m2[i].range = m[i].range
  BY DEF Alike
<1>3. Found(m2, n) = Found(m, n)
  BY <1>1, <1>2 DEF Found
<1> QED
  BY <1>2, <1>3, FirstFound DEF Known, Find

(* What an update keeps while its entries are set one after the other.     *)
Updated(f, m) ==
    {x \in Sound(f) :
       /\ Len(x) = Len(m)
       /\ \A i \in 1..Len(m) : Alike(x[i], m[i])}

(* One more entry of an update keeps what an update keeps.                 *)
LEMMA UpdatedStep ==
    ASSUME NEW f \in Firmware, NEW m \in Sound(f), NEW x \in Updated(f, m),
           NEW n, NEW v \in Values, Known(m, n), IsValid(Find(m, n), v)
    PROVE  SetValue(x, n, v) \in Updated(f, m)
<1> DEFINE y == SetValue(x, n, v)
<1>1. /\ x \in Sound(f) /\ x \in Seq(Param) /\ m \in Seq(Param) /\ Len(x) = Len(m)
      /\ \A j \in 1..Len(m) : Alike(x[j], m[j])
  BY DEF Updated, Sound
<1>2. Known(x, n) /\ IsValid(Find(x, n), v)
  BY <1>1, AlikeFound DEF IsValid
<1>3. y \in Sound(f) /\ Len(y) = Len(x) /\ \A j \in 1..Len(x) : Alike(y[j], x[j])
  BY <1>1, <1>2, SetSound
<1> HIDE DEF y
<1>4. \A j \in 1..Len(m) : Alike(y[j], m[j])
  BY <1>1, <1>3 DEF Alike
<1>5. y \in Updated(f, m)
  BY <1>1, <1>3, <1>4 DEF Updated
<1> QED
  BY <1>5 DEF y

(* The states an update of which every entry was accepted goes through.    *)
LEMMA ApplyFold ==
    ASSUME NEW f \in Firmware, NEW m \in Sound(f),
           NEW us \in Seq([name : Names, value : Values]), Acceptable(m, us)
    PROVE  \E g : /\ g[0] = m /\ Apply(m, us) = g[Len(us)]
                  /\ \A i \in 0..Len(us) : g[i] \in Updated(f, m)
                  /\ \A i \in 1..Len(us) : g[i] = SetValue(g[i - 1], us[i].name, us[i].value)
<1> DEFINE IsAfter(g) ==
             g = [i \in 0..Len(us) |->
                    IF i = 0 THEN m ELSE SetValue(g[i - 1], us[i].name, us[i].value)]
           step == [x \in Updated(f, m) |->
                      [i \in 1..Len(us) |-> SetValue(x, us[i].name, us[i].value)]]
<1>1. Len(us) \in Nat /\ DOMAIN us = 1..Len(us) /\ \A i \in 1..Len(us) : us[i].value \in Values
  <2>1. \A i \in 1..Len(us) : us[i] \in [name : Names, value : Values]
    BY ElementOfSeq
  <2> QED
    BY <2>1, LenProperties
<1>2. m \in Updated(f, m)
  BY DEF Updated, Alike
<1>3. ASSUME NEW x \in Updated(f, m), NEW i \in 1..Len(us)
      PROVE  SetValue(x, us[i].name, us[i].value) \in Updated(f, m)
  <2>1. Known(m, us[i].name) /\ IsValid(Find(m, us[i].name), us[i].value)
    BY <1>1 DEF Acceptable
  <2> QED
    BY <1>1, <2>1, UpdatedStep
<1>4. \E g : IsAfter(g)
  <2>1. step \in [Updated(f, m) -> [1..Len(us) -> Updated(f, m)]]
    BY <1>3
  <2>2. \A x \in Updated(f, m), i \in 1..Len(us) :
          step[x][i] = SetValue(x, us[i].name, us[i].value)
    OBVIOUS
  <2> HIDE DEF step
  <2>3. PICK g : Runs(g, Len(us), Updated(f, m), m, step)
    BY <1>1, <1>2, <2>1, Recursion
  <2>4. \A i \in 1..Len(us) : g[i] = SetValue(g[i - 1], us[i].name, us[i].value)
    BY <1>1, <2>2, <2>3 DEF Runs
  <2>5. IsAfter(g)
    BY <1>1, <2>3, <2>4 DEF Runs
  <2> QED
    BY <2>5
<1>5. PICK g : IsAfter(g) /\ Apply(m, us) = g[Len(us)]
  BY <1>4 DEF Apply
<1>6. g[0] = m /\ \A i \in 1..Len(us) : g[i] = SetValue(g[i - 1], us[i].name, us[i].value)
  BY <1>1, <1>5
<1> HIDE DEF IsAfter
<1>7. \A i \in 0..Len(us) : g[i] \in Updated(f, m)
  <2> DEFINE T == {i \in 0..Len(us) : g[i] \in Updated(f, m)}
  <2>1. 0 \in T
    BY <1>1, <1>2, <1>6
  <2>2. ASSUME NEW i \in 1..Len(us), i - 1 \in T PROVE i \in T
    <3>1. g[i] = SetValue(g[i - 1], us[i].name, us[i].value) /\ g[i - 1] \in Updated(f, m)
      BY <1>6, <2>2
    <3> QED
      BY <1>1, <1>3, <2>2, <3>1
  <2> HIDE DEF T
  <2>3. 0..Len(us) \subseteq T
    BY <1>1, <2>1, <2>2, Induction
  <2> QED
    BY <2>3 DEF T
<1> QED
  BY <1>5, <1>6, <1>7

(* An update every entry of which was accepted keeps the memory sound.     *)
LEMMA ApplySound ==
    ASSUME NEW f \in Firmware, NEW m \in Sound(f),
           NEW us \in Seq([name : Names, value : Values]), Acceptable(m, us)
    PROVE  Apply(m, us) \in Updated(f, m) /\ Apply(m, us) \in Sound(f)
<1>1. Len(us) \in Nat
  BY LenProperties
<1>2. Apply(m, us) \in Updated(f, m)
  <2>1. PICK g : /\ Apply(m, us) = g[Len(us)]
                 /\ \A i \in 0..Len(us) : g[i] \in Updated(f, m)
    BY ApplyFold
  <2> QED
    BY <1>1, <2>1
<1> QED
  BY <1>2 DEF Updated

(* One more parameter at the end. *)
LEMMA AppendSound ==
    ASSUME NEW f \in Firmware, NEW m \in Sound(f), NEW p \in Param, IsValid(p, p.value)
    PROVE  Append(m, p) \in Sound(f)
<1>1. /\ m \in Seq(Param) /\ Len(m) \in Nat /\ DOMAIN m = 1..Len(m)
      /\ Len(Factory[f]) \in Nat /\ Len(Factory[f]) <= Len(m)
  BY FactorySound, LenProperties DEF Sound
<1> DEFINE m2 == Append(m, p)
<1>2. /\ m2 \in Seq(Param) /\ Len(m2) = Len(m) + 1 /\ DOMAIN m2 = 1..(Len(m) + 1)
      /\ m2[Len(m) + 1] = p /\ \A i \in 1..Len(m) : m2[i] = m[i]
  BY <1>1, AppendProperties, LenProperties
<1> HIDE DEF m2
<1>3. ValuesOK(m2)
  BY <1>1, <1>2 DEF Sound, ValuesOK
<1>4. \A i \in 1..Len(Factory[f]) : Alike(m2[i], Factory[f][i])
  BY <1>1, <1>2 DEF Sound
<1>5. m2 \in Sound(f)
  BY <1>1, <1>2, <1>3, <1>4 DEF Sound
<1> QED
  BY <1>5 DEF m2

(* What load() has made of some stored parameters. *)
Merged(f) == [mem : Sound(f), matched : SUBSET Names, dropped : BOOLEAN]

(* Merging one stored parameter keeps what was merged sound.               *)
LEMMA OverlayOneSound ==
    ASSUME NEW f \in Firmware, NEW acc \in Merged(f), NEW p \in Param
    PROVE  OverlayOne(acc, p) \in Merged(f)
<1>1. acc.mem \in Sound(f) /\ p.name \in Names /\ p.value \in Values
  BY DEF Merged, Param
<1>2. CASE Known(acc.mem, p.name) /\ IsValid(Find(acc.mem, p.name), p.value)
  <2>1. SetValue(acc.mem, p.name, p.value) \in Sound(f)
    BY <1>1, <1>2, SetSound
  <2> QED
    BY <1>1, <1>2, <2>1 DEF OverlayOne, Merged
<1>3. CASE ~Known(acc.mem, p.name) /\ IsValid(p, p.value)
  <2>1. Append(acc.mem, p) \in Sound(f)
    BY <1>1, <1>3, AppendSound
  <2> QED
    BY <1>1, <1>3, <2>1 DEF OverlayOne, Merged
<1>4. CASE Known(acc.mem, p.name) /\ ~IsValid(Find(acc.mem, p.name), p.value)
  BY <1>4 DEF OverlayOne
<1>5. CASE ~Known(acc.mem, p.name) /\ ~IsValid(p, p.value)
  BY <1>5 DEF OverlayOne, Merged
<1> QED
  BY <1>2, <1>3, <1>4, <1>5

(* What load() begins with. *)
Unmerged(f) == [mem |-> Factory[f], matched |-> {}, dropped |-> FALSE]

(* The states the merge of stored parameters goes through.                 *)
LEMMA OverlayFold ==
    ASSUME NEW f \in Firmware, NEW stored \in Seq(Param)
    PROVE  \E g : /\ g[0] = Unmerged(f) /\ Overlay(f, stored) = g[Len(stored)]
                  /\ \A i \in 0..Len(stored) : g[i] \in Merged(f)
                  /\ \A i \in 1..Len(stored) : g[i] = OverlayOne(g[i - 1], stored[i])
<1> DEFINE IsAfter(g) == g = [i \in 0..Len(stored) |->
                                IF i = 0 THEN Unmerged(f) ELSE OverlayOne(g[i - 1], stored[i])]
           step == [x \in Merged(f) |-> [i \in 1..Len(stored) |-> OverlayOne(x, stored[i])]]
<1>1. Len(stored) \in Nat /\ \A i \in 1..Len(stored) : stored[i] \in Param
  BY LenProperties, ElementOfSeq
<1>2. Unmerged(f) \in Merged(f)
  BY FactorySound DEF Merged, Unmerged
<1>3. \A x \in Merged(f), i \in 1..Len(stored) : OverlayOne(x, stored[i]) \in Merged(f)
  BY <1>1, OverlayOneSound
<1>4. \E g : IsAfter(g)
  <2>1. step \in [Merged(f) -> [1..Len(stored) -> Merged(f)]]
    BY <1>3
  <2>2. \A x \in Merged(f), i \in 1..Len(stored) : step[x][i] = OverlayOne(x, stored[i])
    OBVIOUS
  <2> HIDE DEF step
  <2>3. PICK g : Runs(g, Len(stored), Merged(f), Unmerged(f), step)
    BY <1>1, <1>2, <2>1, Recursion
  <2>4. \A i \in 1..Len(stored) : g[i] = OverlayOne(g[i - 1], stored[i])
    BY <1>1, <2>2, <2>3 DEF Runs
  <2>5. IsAfter(g)
    BY <1>1, <2>3, <2>4 DEF Runs
  <2> QED
    BY <2>5
<1>5. PICK g : IsAfter(g) /\ Overlay(f, stored) = g[Len(stored)]
  BY <1>4 DEF Overlay, Unmerged
<1>6. g[0] = Unmerged(f) /\ \A i \in 1..Len(stored) : g[i] = OverlayOne(g[i - 1], stored[i])
  BY <1>1, <1>5
<1> HIDE DEF IsAfter
<1>7. \A i \in 0..Len(stored) : g[i] \in Merged(f)
  <2> DEFINE T == {i \in 0..Len(stored) : g[i] \in Merged(f)}
  <2>1. 0 \in T
    BY <1>1, <1>2, <1>6
  <2>2. ASSUME NEW i \in 1..Len(stored), i - 1 \in T PROVE i \in T
    <3>1. g[i] = OverlayOne(g[i - 1], stored[i]) /\ g[i - 1] \in Merged(f)
      BY <1>6, <2>2
    <3>2. g[i] \in Merged(f)
      BY <1>3, <2>2, <3>1
    <3> QED
      BY <1>1, <2>2, <3>2
  <2> HIDE DEF T
  <2>3. 0..Len(stored) \subseteq T
    BY <1>1, <2>1, <2>2, Induction
  <2> QED
    BY <2>3 DEF T
<1> QED
  BY <1>5, <1>6, <1>7

(* Whatever is stored, load() makes sound parameters of it. *)
LEMMA OverlaySound ==
    ASSUME NEW f \in Firmware, NEW stored \in Seq(Param)
    PROVE  Overlay(f, stored) \in Merged(f)
<1>1. Len(stored) \in Nat
  BY LenProperties
<1> QED
  BY <1>1, OverlayFold

-----------------------------------------------------------------------------
(* The memory *)

(* The typed state, and a memory that is sound for the running firmware    *)
(* from load() to the reset and empty in between.                          *)
MemInv ==
    /\ TypeOK
    /\ Loaded => mem \in Sound(fw)
    /\ ~Loaded => mem = <<>>

(* Sound parameters are parameters.                                        *)
LEMMA SoundTyped == ASSUME NEW f, NEW m \in Sound(f) PROVE m \in Seq(Param)
  BY DEF Sound

(* A file is a file of parameters. *)
LEMMA FileParams ==
    ASSUME NEW m \in Seq(Param)
    PROVE  Legacy(m) \in File /\ Whole(m) \in File
  BY DEF Legacy, Whole, File

(* Initially nothing is in memory.                                         *)
LEMMA MemInvInit == Init => MemInv
<1> SUFFICES ASSUME Init PROVE MemInv
  OBVIOUS
<1>1. file \in File /\ NoFile \in File
  BY SettingsAssumption, EmptySeq DEF Init, NoFile, File
<1>2. TypeOK
  BY <1>1, EmptySeq DEF Init, TypeOK
<1> QED
  BY <1>2 DEF Init, MemInv, Loaded, Saving

(* A call between two saves or loads that leaves the memory sound.         *)
LEMMA EditStep ==
    ASSUME MemInv, pc = "ready",
           mem' \in Sound(fw), result' \in BOOLEAN, appended' \subseteq AppParams,
           UNCHANGED <<file, tmp, pc, bOk, fw, before, savedBy>>
    PROVE  MemInv'
<1>1. mem' \in Seq(Param)
  BY SoundTyped
<1>2. TypeOK'
  BY <1>1 DEF MemInv, TypeOK
<1> QED
  BY <1>2 DEF MemInv, Loaded, Saving

(* A step of a save leaves the memory alone. *)
LEMMA SaveStep ==
    ASSUME MemInv, Loaded, Loaded', TypeOK', UNCHANGED <<mem, fw>>
    PROVE  MemInv'
  BY DEF MemInv

(* Every step preserves MemInv.                                            *)
LEMMA MemInvStep == MemInv /\ [Next]_vars => MemInv'
<1> SUFFICES ASSUME MemInv, [Next]_vars PROVE MemInv'
  OBVIOUS
<1>0. TypeOK /\ mem \in Seq(Param) /\ fw \in Firmware /\ (pc = "ready" => mem \in Sound(fw))
  BY DEF MemInv, TypeOK, Loaded
<1>1. ASSUME NEW n \in Names, NEW v \in Values, SetParam(n, v) PROVE MemInv'
  <2>1. result' \in BOOLEAN
    BY <1>1, Zenon DEF SetParam, IsValid, Known
  <2>2. mem' \in Sound(fw)
    BY <1>0, <1>1, SetSound DEF SetParam
  <2> QED
    BY <1>0, <1>1, <2>1, <2>2, EditStep DEF SetParam, TypeOK
<1>2. ASSUME NEW us \in Requests, SetParams(us) PROVE MemInv'
  <2>1. result' \in BOOLEAN
    BY <1>2, Zenon DEF SetParams, Acceptable
  <2>2. mem' \in Sound(fw)
    BY <1>0, <1>2, ApplySound, SettingsAssumption DEF SetParams
  <2> QED
    BY <1>0, <1>2, <2>1, <2>2, EditStep DEF SetParams, TypeOK
<1>3. ASSUME NEW us \in Requests, SetData(us) PROVE MemInv'
  <2>1. result' \in BOOLEAN
    BY <1>3, Zenon DEF SetData, Acceptable
  <2>2. mem' \in Sound(fw)
    BY <1>0, <1>3, ApplySound, SettingsAssumption DEF SetData
  <2> QED
    BY <1>0, <1>3, <2>1, <2>2, EditStep DEF SetData, TypeOK
<1>4. ASSUME NEW p \in AppParams, AppAppend(p) PROVE MemInv'
  <2>1. mem' \in Sound(fw)
    BY <1>0, <1>4, AppendSound, SettingsAssumption, FirmwareAssumption DEF AppAppend
  <2> QED
    BY <1>0, <1>4, <2>1, EditStep DEF AppAppend, TypeOK
<1>5. CASE AppSave
  BY <1>0, <1>5, SaveStep DEF AppSave, StartSave, Loaded, Saving, TypeOK
<1>6. CASE OpenFails \/ RenameSkipped
  <2>1. NoFile \in File
    BY EmptySeq DEF NoFile, File
  <2> QED
    BY <1>0, <1>6, <2>1, SaveStep DEF OpenFails, RenameSkipped, Return, Loaded, Saving, TypeOK
<1>7. CASE Open
  <2>1. Damaged \in File
    BY EmptySeq DEF Damaged, File
  <2> QED
    BY <1>0, <1>7, <2>1, SaveStep DEF Open, Loaded, Saving, TypeOK
<1>8. CASE WritePayload \/ WriteTrailer
  BY <1>0, <1>8, FileParams, SaveStep DEF WritePayload, WriteTrailer, Loaded, Saving, TypeOK
<1>9. CASE Rename \/ RemoveTmp
  <2>1. NoFile \in File
    BY EmptySeq DEF NoFile, File
  <2> QED
    BY <1>0, <1>9, <2>1, SaveStep DEF Rename, RemoveTmp, Return, Loaded, Saving, TypeOK
<1>10. CASE PowerLoss
  <2>1. NoFile \in File
    BY EmptySeq DEF NoFile, File
  <2> QED
    BY <1>0, <1>10, <2>1, EmptySeq DEF PowerLoss, MemInv, Loaded, Saving, TypeOK
<1>11. CASE Boot
  BY <1>0, <1>11 DEF Boot, MemInv, Loaded, Saving, TypeOK
<1>12. CASE LoadFactory
  BY <1>0, <1>12, FactorySound DEF LoadFactory, StartSave, MemInv, Loaded, Saving, TypeOK
<1>13. CASE LoadStored
  <2>1. file.params \in Seq(Param)
    BY <1>0 DEF TypeOK, File
  <2>2. Overlay(fw, file.params).mem \in Sound(fw)
    BY <1>0, <2>1, OverlaySound DEF Merged
  <2>3. mem' = Overlay(fw, file.params).mem
    BY <1>13 DEF LoadStored
  <2>4. /\ \/ pc' = "open" /\ before' = file
           \/ pc' = "ready" /\ before' = before
        /\ UNCHANGED <<file, tmp, bOk, result, fw, appended, savedBy>>
    BY <1>13 DEF LoadStored, StartSave
  <2>5. mem' \in Sound(fw) /\ mem' \in Seq(Param)
    BY <2>2, <2>3, SoundTyped
  <2> QED
    BY <1>0, <2>4, <2>5 DEF MemInv, Loaded, Saving, TypeOK
<1>14. CASE UNCHANGED vars
  BY <1>14 DEF vars, MemInv, Loaded, Saving, TypeOK
<1> QED
  BY <1>1, <1>2, <1>3, <1>4, <1>5, <1>6, <1>7, <1>8, <1>9, <1>10, <1>11, <1>12, <1>13, <1>14
  DEF Next

(* What MemInv says is what the memory promises.                           *)
LEMMA MemInvSound == MemInv => MemorySound
<1> SUFFICES ASSUME MemInv PROVE MemorySound
  OBVIOUS
<1>1. MemValid
  <2>1. CASE Loaded
    BY <2>1 DEF MemInv, Sound, ValuesOK, MemValid
  <2>2. CASE ~Loaded
    BY <2>2, EmptySeq DEF MemInv, MemValid
  <2> QED
    BY <2>1, <2>2
<1>2. FactoryDefines
  <2> SUFFICES ASSUME Loaded, NEW i \in DOMAIN Factory[fw]
               PROVE  /\ Known(mem, Factory[fw][i].name)
                      /\ [Find(mem, Factory[fw][i].name) EXCEPT !.value = Factory[fw][i].value]
                           = Factory[fw][i]
    BY DEF FactoryDefines
  <2>1. fw \in Firmware /\ mem \in Sound(fw)
    BY DEF MemInv, TypeOK
  <2>2. /\ DOMAIN Factory[fw] = 1..Len(Factory[fw]) /\ i \in 1..Len(Factory[fw])
        /\ Factory[fw][i] \in Param
    BY <2>1, FactorySound, LenProperties, ElementOfSeq
  <2>3. i \in 1..Len(mem) /\ mem[i] \in Param /\ Alike(mem[i], Factory[fw][i])
    BY <2>1, <2>2, FactoryFound, ElementOfSeq DEF Sound
  <2>4. [mem[i] EXCEPT !.value = Factory[fw][i].value] = Factory[fw][i]
    BY <2>2, <2>3 DEF Alike, Param
  <2> QED
    BY <2>1, <2>2, <2>4, FactoryFound
<1> QED
  BY <1>1, <1>2 DEF MemInv, MemorySound

(* Whatever was stored, updated, appended and loaded, across resets and    *)
(* changes of firmware, what is in memory is well-formed, valid and        *)
(* defined by the running firmware.                                        *)
THEOREM MemoryAlwaysSound == Spec => []MemorySound
<1>1. Init => MemInv
  BY MemInvInit
<1>2. MemInv /\ [Next]_vars => MemInv'
  BY MemInvStep
<1>3. MemInv => MemorySound
  BY MemInvSound
<1> QED
  BY <1>1, <1>2, <1>3, PTL DEF Spec

-----------------------------------------------------------------------------
(* Updates *)

(* An update with no read-only parameter in it leaves those alone.         *)
LEMMA ApplyReadOnly ==
    ASSUME NEW f \in Firmware, NEW m \in Sound(f),
           NEW us \in Seq([name : Names, value : Values]), Acceptable(m, us),
           \A i \in DOMAIN us : ~Find(m, us[i].name).readonly
    PROVE  \A j \in 1..Len(m) : m[j].readonly => Apply(m, us)[j] = m[j]
<1>1. m \in Seq(Param) /\ Len(us) \in Nat /\ DOMAIN us = 1..Len(us)
  BY LenProperties DEF Sound
<1>2. PICK g : /\ g[0] = m /\ Apply(m, us) = g[Len(us)]
               /\ \A i \in 0..Len(us) : g[i] \in Updated(f, m)
               /\ \A i \in 1..Len(us) : g[i] = SetValue(g[i - 1], us[i].name, us[i].value)
  BY ApplyFold
<1> DEFINE T == {i \in 0..Len(us) : \A j \in 1..Len(m) : m[j].readonly => g[i][j] = m[j]}
<1>3. 0 \in T
  BY <1>1, <1>2
<1>4. ASSUME NEW i \in 1..Len(us), i - 1 \in T PROVE i \in T
  <2> DEFINE n == us[i].name
             k == First(Found(m, n))
  <2>1. PICK x : x = g[i - 1] /\ x \in Updated(f, m)
    BY <1>1, <1>2, <1>4
  <2>2. x \in Seq(Param) /\ Len(x) = Len(m) /\ \A j \in 1..Len(m) : Alike(x[j], m[j])
    BY <2>1 DEF Updated, Sound
  <2>3. Known(m, n) /\ ~m[k].readonly
    BY <1>1 DEF Acceptable, Find
  <2>4. Found(x, n) = Found(m, n)
    BY <1>1, <2>2, <2>3, AlikeFound, SMTT(60)
  <2>5. DOMAIN x = 1..Len(m) /\ Len(m) \in Nat
    BY <2>2, LenProperties
  <2>6. g[i] = [x EXCEPT ![k].value = us[i].value]
    BY <1>2, <2>1, <2>4 DEF SetValue
  <2> HIDE DEF k
  <2>7. \A j \in 1..Len(m) : j # k => g[i][j] = x[j]
    BY <2>5, <2>6
  <2>8. \A j \in 1..Len(m) : m[j].readonly => x[j] = m[j]
    BY <1>4, <2>1
  <2> QED
    BY <1>1, <2>3, <2>7, <2>8
<1>5. Len(us) \in T
  <2> HIDE DEF T
  <2>1. 0..Len(us) \subseteq T
    BY <1>1, <1>3, <1>4, Induction
  <2> QED
    BY <1>1, <2>1
<1> QED
  BY <1>2, <1>5

(* A call that returns false changes nothing; a step that appends a        *)
(* parameter makes more of them.                                           *)
LEMMA FalseStep ==
    ASSUME MemInv, [Next]_vars, pc = "ready", pc' = "ready", ~result', DOMAIN mem' = DOMAIN mem
    PROVE  mem' = mem
<1>1. ASSUME NEW p \in AppParams, AppAppend(p) PROVE FALSE
  <2>1. mem \in Seq(Param) /\ p \in Param
    BY SettingsAssumption DEF MemInv, TypeOK
  <2>2. /\ DOMAIN mem = 1..Len(mem) /\ Len(mem) \in Nat
        /\ DOMAIN mem' = 1..(Len(mem) + 1)
    BY <1>1, <2>1, AppendProperties, LenProperties DEF AppAppend
  <2>3. Len(mem) + 1 \in DOMAIN mem' /\ Len(mem) + 1 \notin DOMAIN mem
    BY <2>2
  <2> QED
    BY <2>3
<1> QED
  BY <1>1 DEF Next, vars, SetParam, SetParams, SetData, AppSave, StartSave, OpenFails, Open,
         WritePayload, WriteTrailer, Rename, RenameSkipped, RemoveTmp, PowerLoss, Boot,
         LoadFactory, LoadStored

(* A request from outside leaves read-only parameters alone.               *)
LEMMA DataStep ==
    ASSUME MemInv, NEW us \in Requests, SetData(us), NEW i \in DOMAIN mem \cap DOMAIN mem',
           mem[i].readonly
    PROVE  mem'[i] = mem[i]
<1>1. /\ mem \in Sound(fw) /\ fw \in Firmware /\ DOMAIN mem = 1..Len(mem)
      /\ us \in Seq([name : Names, value : Values])
  BY SettingsAssumption, LenProperties DEF MemInv, TypeOK, SetData, Loaded
<1>2. CASE result'
  BY <1>1, <1>2, ApplyReadOnly DEF SetData
<1>3. CASE ~result'
  BY <1>3 DEF SetData
<1> QED
  BY <1>2, <1>3

(* An update that is refused has changed nothing, and one from outside     *)
(* changes nothing that is read-only, whatever it is combined with.        *)
THEOREM UpdatesAlwaysGuarded == Spec => UpdatesGuarded
<1> DEFINE A == pc = "ready" /\ pc' = "ready" /\ ~result' /\ DOMAIN mem' = DOMAIN mem
                  => mem' = mem
           B == \A i \in DOMAIN mem \cap DOMAIN mem' :
                  mem[i].readonly /\ mem'[i] # mem[i] => \A us \in Requests : ~SetData(us)
<1>1. MemInv /\ [Next]_vars => [A]_vars
  BY FalseStep
<1>2. MemInv /\ [Next]_vars => [B]_vars
  BY DataStep
<1> QED
  BY <1>1, <1>2, MemInvInit, MemInvStep, PTL
  DEF Spec, UpdatesGuarded, FalseChangesNothing, DataLeavesReadOnly

-----------------------------------------------------------------------------
(* What a load keeps of the file *)

(* Overlaying a parameter of another name leaves those of name n alone.    *)
LEMMA OverlayOther ==
    ASSUME NEW f \in Firmware, NEW acc \in Merged(f), NEW p \in Param,
           NEW n, p.name # n, Known(acc.mem, n)
    PROVE  /\ Known(OverlayOne(acc, p).mem, n)
           /\ Find(OverlayOne(acc, p).mem, n) = Find(acc.mem, n)
<1> DEFINE r == OverlayOne(acc, p).mem
<1>1. PICK m : m = acc.mem
  OBVIOUS
<1>2. /\ m \in Sound(f) /\ m \in Seq(Param) /\ Len(m) \in Nat /\ DOMAIN m = 1..Len(m)
      /\ p.name \in Names /\ p.value \in Values
  BY <1>1, LenProperties DEF Merged, Sound, Param
<1>3. PICK k : k = First(Found(m, n))
  OBVIOUS
<1>4. /\ k \in 1..Len(m) /\ m[k].name = n
      /\ \A j \in 1..Len(m) : m[j].name = n => k <= j
  BY <1>1, <1>2, <1>3, FirstFound
<1>5. CASE Known(m, p.name) /\ IsValid(Find(m, p.name), p.value)
  <2>1. r = SetValue(m, p.name, p.value)
    BY <1>1, <1>5 DEF OverlayOne, Merged
  <2>2. /\ r \in Seq(Param) /\ Len(r) = Len(m)
        /\ \A i \in 1..Len(m) : Alike(r[i], m[i])
    BY <1>2, <1>5, <2>1, SetSound DEF Sound
  <2>3. Known(r, n) /\ Found(r, n) = Found(m, n)
    BY <1>1, <1>2, <2>2, AlikeFound
  <2>4. First(Found(m, p.name)) # k
    BY <1>2, <1>4, <1>5, FirstFound
  <2>5. r[k] = m[k]
    BY <1>2, <1>4, <2>1, <2>4 DEF SetValue
  <2> QED
    BY <1>1, <1>3, <2>3, <2>5 DEF Find
<1>6. CASE ~Known(m, p.name) /\ IsValid(p, p.value)
  <2>1. r = Append(m, p)
    BY <1>1, <1>6 DEF OverlayOne, Merged
  <2>2. /\ DOMAIN r = 1..(Len(m) + 1) /\ r[Len(m) + 1] = p
        /\ \A i \in 1..Len(m) : r[i] = m[i]
    BY <1>2, <2>1, AppendProperties, LenProperties
  <2> HIDE DEF r
  <2>3. Found(r, n) = Found(m, n)
    BY <1>2, <2>2 DEF Found
  <2> QED
    BY <1>1, <1>3, <1>4, <2>2, <2>3 DEF Find, Known, r
<1>7. CASE /\ Known(m, p.name) \/ ~IsValid(p, p.value)
           /\ ~Known(m, p.name) \/ ~IsValid(Find(m, p.name), p.value)
  <2>1. r = m
    BY <1>1, <1>7 DEF OverlayOne, Merged
  <2> QED
    BY <1>1, <2>1
<1> QED
  BY <1>5, <1>6, <1>7

(* Nor does it bring one of name n where there was none. *)
LEMMA OverlayNone ==
    ASSUME NEW f \in Firmware, NEW acc \in Merged(f), NEW p \in Param,
           NEW n, p.name # n, ~Known(acc.mem, n)
    PROVE  ~Known(OverlayOne(acc, p).mem, n)
<1> DEFINE r == OverlayOne(acc, p).mem
<1>1. PICK m : m = acc.mem
  OBVIOUS
<1>2. /\ m \in Sound(f) /\ m \in Seq(Param) /\ Len(m) \in Nat /\ DOMAIN m = 1..Len(m)
      /\ p.name \in Names /\ p.value \in Values
  BY <1>1, LenProperties DEF Merged, Sound, Param
<1>3. \A i \in 1..Len(m) : m[i].name # n
  BY <1>1, <1>2 DEF Known, Found
<1>4. CASE Known(m, p.name) /\ IsValid(Find(m, p.name), p.value)
  <2>1. r = SetValue(m, p.name, p.value)
    BY <1>1, <1>4 DEF OverlayOne, Merged
  <2>2. /\ r \in Seq(Param) /\ Len(r) = Len(m)
        /\ \A i \in 1..Len(m) : Alike(r[i], m[i])
    BY <1>2, <1>4, <2>1, SetSound DEF Sound
  <2> HIDE DEF r
  <2>3. DOMAIN r = 1..Len(m)
    BY <2>2, LenProperties
  <2> QED
    BY <1>3, <2>2, <2>3 DEF Known, Found, Alike, r
<1>5. CASE ~Known(m, p.name) /\ IsValid(p, p.value)
  <2>1. r = Append(m, p)
    BY <1>1, <1>5 DEF OverlayOne, Merged
  <2>2. /\ DOMAIN r = 1..(Len(m) + 1) /\ r[Len(m) + 1] = p
        /\ \A i \in 1..Len(m) : r[i] = m[i]
    BY <1>2, <2>1, AppendProperties, LenProperties
  <2> HIDE DEF r
  <2> QED
    BY <1>2, <1>3, <2>2 DEF Found, Known, r
<1>6. CASE /\ Known(m, p.name) \/ ~IsValid(p, p.value)
           /\ ~Known(m, p.name) \/ ~IsValid(Find(m, p.name), p.value)
  <2>1. r = m
    BY <1>1, <1>6 DEF OverlayOne, Merged
  <2> QED
    BY <1>1, <2>1
<1> QED
  BY <1>4, <1>5, <1>6

(* Overlaying a parameter itself gives a known one its value, where the    *)
(* firmware accepts it, and appends an unknown one as it is.               *)
LEMMA OverlayOwn ==
    ASSUME NEW f \in Firmware, NEW acc \in Merged(f), NEW p \in Param
    PROVE  /\ Known(acc.mem, p.name) /\ IsValid(Find(acc.mem, p.name), p.value)
                => /\ Known(OverlayOne(acc, p).mem, p.name)
                   /\ Find(OverlayOne(acc, p).mem, p.name).value = p.value
           /\ ~Known(acc.mem, p.name) /\ IsValid(p, p.value)
                => /\ Known(OverlayOne(acc, p).mem, p.name)
                   /\ Find(OverlayOne(acc, p).mem, p.name) = p
<1> DEFINE r == OverlayOne(acc, p).mem
<1>1. PICK m, n : m = acc.mem /\ n = p.name
  OBVIOUS
<1>2. /\ m \in Sound(f) /\ m \in Seq(Param) /\ Len(m) \in Nat /\ DOMAIN m = 1..Len(m)
      /\ n \in Names /\ p.value \in Values
  BY <1>1, LenProperties DEF Merged, Sound, Param
<1>3. ASSUME Known(m, n), IsValid(Find(m, n), p.value)
      PROVE  Known(r, n) /\ Find(r, n).value = p.value
  <2>1. r = SetValue(m, n, p.value)
    BY <1>1, <1>3 DEF OverlayOne, Merged
  <2>2. /\ r \in Seq(Param) /\ Len(r) = Len(m)
        /\ \A i \in 1..Len(m) : Alike(r[i], m[i])
    BY <1>2, <1>3, <2>1, SetSound DEF Sound
  <2>3. Known(r, n) /\ Found(r, n) = Found(m, n)
    BY <1>2, <1>3, <2>2, AlikeFound
  <2>4. PICK k : k = First(Found(m, n))
    OBVIOUS
  <2>5. k \in 1..Len(m) /\ m[k] \in Param
    BY <1>2, <1>3, <2>4, FirstFound, ElementOfSeq
  <2>6. r[k].value = p.value
    BY <1>2, <2>1, <2>4, <2>5 DEF SetValue, Param
  <2> QED
    BY <2>3, <2>4, <2>6 DEF Find
<1>4. ASSUME ~Known(m, n), IsValid(p, p.value)
      PROVE  Known(r, n) /\ Find(r, n) = p
  <2>1. r = Append(m, p)
    BY <1>1, <1>4 DEF OverlayOne, Merged
  <2>2. /\ DOMAIN r = 1..(Len(m) + 1) /\ r[Len(m) + 1] = p
        /\ \A i \in 1..Len(m) : r[i] = m[i]
    BY <1>2, <2>1, AppendProperties, LenProperties
  <2>3. r \in Seq(Param) /\ Len(r) = Len(m) + 1
    BY <1>2, <2>1, AppendProperties
  <2> HIDE DEF r
  <2>4. Known(r, n)
    BY <1>1, <1>2, <2>2 DEF Known, Found
  <2>5. \A i \in 1..Len(m) : m[i].name # n
    BY <1>2, <1>4 DEF Known, Found
  <2>6. PICK k : k = First(Found(r, n))
    OBVIOUS
  <2>7. k \in 1..(Len(m) + 1) /\ r[k].name = n
    BY <2>3, <2>4, <2>6, FirstFound
  <2>8. k = Len(m) + 1
    BY <1>2, <2>2, <2>5, <2>7
  <2> QED
    BY <2>2, <2>4, <2>6, <2>8 DEF Find, r
<1> QED
  BY <1>1, <1>3, <1>4

(* In x the parameter n holds what was stored as p, where it is accepted.  *)
Kept(f, x, n, p) ==
    IF Known(Factory[f], n)
      THEN Known(x, n) /\ (IsValid(Find(Factory[f], n), p.value) => Find(x, n).value = p.value)
      ELSE IsValid(p, p.value) => Known(x, n) /\ Find(x, n) = p

(* In x the parameter n is still what the firmware made it. *)
Fresh(f, x, n) ==
    /\ Known(x, n) <=> Known(Factory[f], n)
    /\ Known(x, n) => Find(x, n) = Find(Factory[f], n)

(* A merge keeps what is stored under a name that is stored once.          *)
LEMMA OverlayKeeps ==
    ASSUME NEW f \in Firmware, NEW stored \in Seq(Param), NEW n \in Names,
           NEW k \in 1..Len(stored), stored[k].name = n,
           \A j \in 1..Len(stored) : j # k => stored[j].name # n
    PROVE  Kept(f, Overlay(f, stored).mem, n, stored[k])
<1>1. /\ Len(stored) \in Nat /\ \A i \in 1..Len(stored) : stored[i] \in Param
  BY LenProperties, ElementOfSeq
<1>2. PICK g : /\ g[0] = Unmerged(f) /\ Overlay(f, stored) = g[Len(stored)]
               /\ \A i \in 0..Len(stored) : g[i] \in Merged(f)
               /\ \A i \in 1..Len(stored) : g[i] = OverlayOne(g[i - 1], stored[i])
  BY OverlayFold
<1> DEFINE T == {i \in 0..Len(stored) :
                   IF i < k THEN Fresh(f, g[i].mem, n) ELSE Kept(f, g[i].mem, n, stored[k])}
<1>3. 0 \in T
  <2>1. g[0].mem = Factory[f]
    BY <1>2 DEF Unmerged
  <2>2. Fresh(f, g[0].mem, n)
    BY <2>1 DEF Fresh
  <2> QED
    BY <1>1, <2>2
<1>4. ASSUME NEW i \in 1..Len(stored), i - 1 \in T PROVE i \in T
  <2>1. PICK acc, p : acc = g[i - 1] /\ p = stored[i]
    OBVIOUS
  <2>2. /\ acc \in Merged(f) /\ p \in Param /\ g[i] = OverlayOne(acc, p)
        /\ i \in 0..Len(stored) /\ k \in Nat /\ i \in Nat
    BY <1>1, <1>2, <1>4, <2>1
  <2>3. CASE i < k
    <3>1. i # k /\ i - 1 < k
      BY <2>2, <2>3
    <3>2. p.name # n /\ Fresh(f, acc.mem, n)
      BY <1>4, <2>1, <3>1
    <3>3. CASE Known(acc.mem, n)
      BY <2>2, <2>3, <3>2, <3>3, OverlayOther DEF Fresh
    <3>4. CASE ~Known(acc.mem, n)
      BY <2>2, <2>3, <3>2, <3>4, OverlayNone DEF Fresh
    <3> QED
      BY <3>3, <3>4
  <2>4. CASE i = k
    <3>1. p.name = n /\ p = stored[k] /\ i - 1 < k /\ ~(i < k)
      BY <2>1, <2>2, <2>4
    <3>2. Fresh(f, acc.mem, n)
      BY <1>4, <2>1, <3>1
    <3>3. Kept(f, g[i].mem, n, p)
      <4>1. CASE Known(Factory[f], n)
        <5>1. Known(acc.mem, n) /\ Find(acc.mem, n) = Find(Factory[f], n)
          BY <3>2, <4>1 DEF Fresh
        <5>2. CASE IsValid(Find(Factory[f], n), p.value)
          BY <2>2, <3>1, <4>1, <5>1, <5>2, OverlayOwn DEF Kept
        <5>3. CASE ~IsValid(Find(Factory[f], n), p.value)
          <6>1. g[i] = acc
            BY <2>2, <3>1, <5>1, <5>3 DEF OverlayOne
          <6> QED
            BY <4>1, <5>1, <5>3, <6>1 DEF Kept
        <5> QED
          BY <5>2, <5>3
      <4>2. CASE ~Known(Factory[f], n)
        BY <2>2, <3>1, <3>2, <4>2, OverlayOwn DEF Kept, Fresh
      <4> QED
        BY <4>1, <4>2
    <3> QED
      BY <2>2, <3>1, <3>3
  <2>5. CASE i > k
    <3>1. i # k /\ ~(i - 1 < k) /\ ~(i < k)
      BY <2>2, <2>5
    <3>2. p.name # n /\ Kept(f, acc.mem, n, stored[k])
      BY <1>4, <2>1, <3>1
    <3>3. Kept(f, g[i].mem, n, stored[k])
      BY <2>2, <3>2, OverlayOther DEF Kept
    <3> QED
      BY <2>2, <3>1, <3>3
  <2> QED
    BY <2>2, <2>3, <2>4, <2>5
<1>5. Len(stored) \in T
  <2> HIDE DEF T
  <2>1. 0..Len(stored) \subseteq T
    BY <1>1, <1>3, <1>4, Induction
  <2> QED
    BY <1>1, <2>1
<1>6. ~(Len(stored) < k)
  BY <1>1
<1> QED
  BY <1>2, <1>5, <1>6

(* A name that one parameter has. *)
LEMMA FoundOnce ==
    ASSUME NEW m \in Seq(Param), NEW n, Cardinality(Found(m, n)) = 1
    PROVE  \E k \in 1..Len(m) : /\ Find(m, n) = m[k] /\ m[k].name = n
                                /\ \A j \in 1..Len(m) : j # k => m[j].name # n
<1> DEFINE S == Found(m, n)
<1>1. DOMAIN m = 1..Len(m) /\ Len(m) \in Nat
  BY LenProperties
<1>2. S \in SUBSET (1..Len(m)) /\ \A j \in 1..Len(m) : j \in S <=> m[j].name = n
  BY <1>1 DEF Found
<1> HIDE DEF S
<1>3. IsFiniteSet(S)
  <2>1. IsFiniteSet(1..Len(m))
    BY <1>1, FS_Interval
  <2> QED
    BY <1>2, <2>1, FS_Subset
<1>4. PICK k : S = {k}
  BY <1>3, FS_Singleton DEF S
<1>5. Known(m, n)
  BY <1>4 DEF Known, S
<1>6. First(S) = k
  BY <1>2, <1>4, <1>5, FirstFound DEF S
<1> QED
  BY <1>2, <1>4, <1>6 DEF Find, S

(* A load that merges, upgrade or downgrade, keeps what the file holds of  *)
(* every name it holds once.                                               *)
LEMMA LoadKeeps ==
    ASSUME MemInv, LoadStored, NEW n \in Names, Cardinality(Found(file.params, n)) = 1
    PROVE  Survives(n)
<1>1. PICK m, f : m = file.params /\ f = fw
  OBVIOUS
<1>2. m \in Seq(Param) /\ f \in Firmware /\ mem' = Overlay(f, m).mem
  BY <1>1 DEF MemInv, TypeOK, File, LoadStored
<1>3. PICK k \in 1..Len(m) : /\ Find(m, n) = m[k] /\ m[k].name = n
                             /\ \A j \in 1..Len(m) : j # k => m[j].name # n
  BY <1>1, <1>2, FoundOnce
<1>4. Kept(f, mem', n, m[k])
  BY <1>2, <1>3, OverlayKeeps
<1> QED
  BY <1>1, <1>3, <1>4 DEF Kept, Survives

(* Every load that merges keeps the stored values that are accepted.       *)
THEOREM StoredOnceAlwaysSurvives == Spec => StoredOnceSurvives
<1> DEFINE A == LoadStored =>
                  \A n \in Names : Cardinality(Found(file.params, n)) = 1 => Survives(n)
<1>1. MemInv /\ [Next]_vars => [A]_vars
  BY LoadKeeps
<1> QED
  BY <1>1, MemInvInit, MemInvStep, PTL DEF Spec, StoredOnceSurvives

-----------------------------------------------------------------------------
(* What a load writes back *)

(* Overlaying what firmware f saved drops nothing and meets every          *)
(* parameter of f.                                                         *)
LEMMA OverlaySettles ==
    ASSUME NEW f \in Firmware, NEW stored \in Sound(f)
    PROVE  /\ ~Overlay(f, stored).dropped
           /\ Cardinality(Overlay(f, stored).matched) \in Nat
           /\ Cardinality(Overlay(f, stored).matched) >= Len(Factory[f])
<1> DEFINE N == Len(Factory[f])
           name == [j \in 1..N |-> Factory[f][j].name]
<1>1. /\ stored \in Seq(Param) /\ Len(stored) \in Nat /\ DOMAIN stored = 1..Len(stored)
      /\ \A i \in 1..Len(stored) : stored[i] \in Param /\ IsValid(stored[i], stored[i].value)
      /\ N \in Nat /\ N <= Len(stored)
      /\ DOMAIN Factory[f] = 1..N
      /\ \A j \in 1..N : Alike(stored[j], Factory[f][j])
  BY FactorySound, LenProperties, ElementOfSeq DEF Sound, ValuesOK
<1>2. PICK g : /\ g[0] = Unmerged(f) /\ Overlay(f, stored) = g[Len(stored)]
               /\ \A i \in 0..Len(stored) : g[i] \in Merged(f)
               /\ \A i \in 1..Len(stored) : g[i] = OverlayOne(g[i - 1], stored[i])
  BY <1>1, OverlayFold
<1> DEFINE T == {i \in 0..Len(stored) :
                   /\ ~g[i].dropped /\ IsFiniteSet(g[i].matched)
                   /\ \A j \in 1..N : j <= i => name[j] \in g[i].matched}
<1>3. 0 \in T
  <2>1. ~g[0].dropped /\ g[0].matched = {} /\ 0 \in 0..Len(stored)
    BY <1>1, <1>2 DEF Unmerged
  <2>2. \A j \in 1..N : ~(j <= 0)
    BY <1>1
  <2> QED
    BY <2>1, <2>2, FS_EmptySet
<1>4. ASSUME NEW i \in 1..Len(stored), i - 1 \in T PROVE i \in T
  <2>1. PICK acc, p : acc = g[i - 1] /\ p = stored[i]
    OBVIOUS
  <2>2. /\ acc \in Merged(f) /\ p \in Param /\ g[i] = OverlayOne(acc, p)
        /\ i \in 0..Len(stored) /\ i \in Nat
    BY <1>1, <1>2, <1>4, <2>1
  <2>8. IsValid(p, p.value)
    BY <1>1, <2>1
  <2>9. ~acc.dropped /\ IsFiniteSet(acc.matched)
    BY <1>4, <2>1
  <2>10. \A j \in 1..N : j <= i - 1 => name[j] \in acc.matched
    BY <1>4, <2>1
  <2>3. /\ g[i].dropped = acc.dropped
        /\ g[i].matched \in {acc.matched, acc.matched \cup {p.name}}
    BY <2>2, <2>8 DEF OverlayOne, Merged
  <2>4. IsFiniteSet(g[i].matched)
    BY <2>9, <2>3, FS_AddElement
  <2>5. ASSUME i \in 1..N PROVE name[i] \in g[i].matched
    <3>1. p.name = name[i] /\ p.range = Factory[f][i].range
      BY <1>1, <2>1, <2>5 DEF Alike
    <3>2. PICK m : m = acc.mem
      OBVIOUS
    <3>3. m \in Sound(f) /\ m \in Seq(Param)
      BY <2>2, <3>2 DEF Merged, Sound
    <3>4. Known(m, p.name) /\ Find(m, p.name) = m[i] /\ Alike(m[i], Factory[f][i])
      <4>1. p.name = Factory[f][i].name
        BY <2>5, <3>1
      <4>2. Known(m, p.name) /\ Find(m, p.name) = m[i]
        BY <2>5, <3>3, <4>1, FactoryFound
      <4>3. Alike(m[i], Factory[f][i])
        BY <2>5, <3>3 DEF Sound
      <4> QED
        BY <4>2, <4>3
    <3>5. IsValid(Find(m, p.name), p.value)
      BY <2>8, <3>1, <3>4 DEF Alike, IsValid
    <3>6. g[i].matched = acc.matched \cup {p.name}
      BY <2>2, <3>2, <3>4, <3>5 DEF OverlayOne, Merged
    <3> QED
      BY <3>1, <3>6
  <2>6. \A j \in 1..N : j <= i => j = i \/ j <= i - 1
    BY <1>1, <2>2
  <2>7. \A j \in 1..N : j <= i => name[j] \in g[i].matched
    BY <2>2, <2>10, <2>3, <2>5, <2>6
  <2> QED
    BY <2>2, <2>9, <2>3, <2>4, <2>7
<1>5. Len(stored) \in T
  <2> HIDE DEF T
  <2>1. 0..Len(stored) \subseteq T
    BY <1>1, <1>3, <1>4, Induction
  <2> QED
    BY <1>1, <2>1
<1>6. PICK M : M = Overlay(f, stored).matched
  OBVIOUS
<1>7. IsFiniteSet(M) /\ \A j \in 1..N : name[j] \in M
  <2>1. \A j \in 1..N : j <= Len(stored)
    BY <1>1
  <2> QED
    BY <1>2, <1>5, <1>6, <2>1
<1>8. name \in Injection(1..N, M)
  <2>1. name \in [1..N -> M]
    BY <1>7
  <2>2. \A i, j \in 1..N : name[i] = name[j] => i = j
    BY <1>1, FirmwareAssumption
  <2> QED
    BY <2>1, <2>2 DEF Injection, IsInjective
<1>9. N <= Cardinality(M)
  <2> HIDE DEF name
  <2>1. N \in Nat
    BY <1>1
  <2>2. Cardinality(1..N) = N
    <3> HIDE DEF N
    <3>1. 1 \in Int /\ N \in Int
      BY <2>1
    <3>2. Cardinality(1..N) = IF 1 > N THEN 0 ELSE N - 1 + 1
      BY <3>1, FS_Interval
    <3> QED
      BY <2>1, <3>2
  <2>3. Cardinality(1..N) <= Cardinality(M)
    BY <1>7, <1>8, FS_Injection
  <2> QED
    BY <2>2, <2>3
<1>10. Cardinality(M) \in Nat
  BY <1>7, FS_CardinalityType
<1> QED
  BY <1>1, <1>2, <1>5, <1>6, <1>9, <1>10

(* The file a firmware saved is whole and sound for that firmware.         *)
FileInv == savedBy # "nobody" => file.kind = "whole" /\ file.params \in Sound(savedBy)

(* Initially no firmware has written the file.                             *)
LEMMA FileInvInit == Init => FileInv
  BY DEF Init, FileInv

(* Only a rename writes the file, and what it writes is sound.             *)
LEMMA FileInvStep == MemInv /\ SaveInv /\ FileInv /\ [Next]_vars => FileInv'
<1> SUFFICES ASSUME MemInv, SaveInv, FileInv, [Next]_vars PROVE FileInv'
  OBVIOUS
<1>1. CASE Rename
  <2>1. mem \in Sound(fw) /\ file' = Whole(mem) /\ savedBy' = fw
    BY <1>1 DEF MemInv, SaveInv, Loaded, Saving, Rename
  <2> QED
    BY <2>1 DEF FileInv, Whole
<1>2. CASE UNCHANGED <<file, savedBy>>
  BY <1>2 DEF FileInv
<1>3. Rename \/ UNCHANGED <<file, savedBy>>
  BY DEF Next, vars, SetParam, SetParams, SetData, AppAppend, AppSave, StartSave, OpenFails, Open,
         WritePayload, WriteTrailer, RenameSkipped, RemoveTmp, Return, PowerLoss, Boot,
         LoadFactory, LoadStored
<1> QED
  BY <1>1, <1>2, <1>3

(* A load that merges a file of its own firmware does not save.            *)
LEMMA SettleStep ==
    ASSUME MemInv, FileInv, LoadStored, pc' = "open"
    PROVE  savedBy # fw
<1> SUFFICES ASSUME savedBy = fw PROVE FALSE
  OBVIOUS
<1>1. fw \in Firmware /\ savedBy # "nobody"
  BY SettingsAssumption DEF MemInv, TypeOK
<1>2. file.kind = "whole" /\ file.params \in Sound(fw)
  BY <1>1 DEF FileInv
<1>3. PICK o : o = Overlay(fw, file.params)
  OBVIOUS
<1>4. /\ ~o.dropped /\ Cardinality(o.matched) \in Nat /\ Len(Factory[fw]) \in Nat
      /\ Cardinality(o.matched) >= Len(Factory[fw])
  BY <1>1, <1>2, <1>3, OverlaySettles, FactorySound, LenProperties
<1>5. file.kind = "legacy" \/ o.dropped \/ Cardinality(o.matched) < Len(Factory[fw])
  BY <1>3 DEF LoadStored, StartSave
<1> QED
  BY <1>2, <1>4, <1>5

(* A load that writes the flash again has not met a file of its own        *)
(* firmware.                                                               *)
THEOREM LoadAlwaysSettles == Spec => SettlesAfterSave
<1> DEFINE A == LoadStored /\ pc' = "open" => savedBy # fw
<1>1. MemInv /\ FileInv /\ [Next]_vars => [A]_vars
  BY SettleStep
<1> QED
  BY <1>1, MemInvInit, MemInvStep, SaveInvInit, SaveInvStep, FileInvInit, FileInvStep, PTL
  DEF Spec, SettlesAfterSave
=============================================================================
