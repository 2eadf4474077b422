------------------------ MODULE WebSocketsFrame_proofs ------------------------
(***************************************************************************)
(* Proofs about the frames of a connection, for any frames, lengths, keys, *)
(* base of the digits and bounds.                                          *)
(*                                                                         *)
(* The argument is about streams: bytes that are frames, one after the     *)
(* other, with the messages they carry.  Streams(F) is the least set that  *)
(* has the empty stream and grows by the frames of F.  What the RFC reads  *)
(* of a stream are its messages (StreamDecodes), and the bytes that the    *)
(* client has read of a header, with those that follow, are a stream that  *)
(* carries what it has not delivered (InOrder): when it has as many bytes  *)
(* as it asks for, they are the header the server sent (HeaderComplete).   *)
(* What it has written is a stream that carries what it said (Answers).    *)
(*                                                                         *)
(* Shifted, Number, Written, Of and RfcDecode are recursive functions;     *)
(* what they compute is proved by induction over the naturals with a set   *)
(* in the place of a predicate (Least, Induction, Recursion).              *)
(***************************************************************************)
EXTENDS WebSocketsFrame, SequenceTheorems, WellFoundedInduction, TLAPS

-----------------------------------------------------------------------------
(* Induction with a set in the place of a predicate. *)

(* A set of natural numbers that is not empty has a least one.             *)
LEMMA Least ==
    ASSUME NEW T \in SUBSET Nat, T # {}
    PROVE  \E k \in T : \A j \in T : k <= j
<1> DEFINE R == {ss \in Nat \X Nat : ss[1] < ss[2]}
<1>1. IsWellFoundedOn(R, Nat)
  BY NatLessThanWellFounded DEF OpToRel
<1>2. PICK k \in T : \A j \in T : <<j, k>> \notin R
  <2> HIDE DEF R
  <2> QED
    BY <1>1, WFMin
<1>3. \A i, j \in Nat : i < j => <<i, j>> \in R
  OBVIOUS
<1> HIDE DEF R
<1>4. \A j \in T : ~(j < k)
  BY <1>2, <1>3
<1>5. k \in T /\ T \subseteq Nat
  BY <1>2
<1> QED
  BY <1>4, <1>5

(* A set that holds 0 and with every number the next holds all of them.    *)
LEMMA Induction ==
    ASSUME NEW n \in Nat, NEW T, 0 \in T, \A i \in 1..n : i - 1 \in T => i \in T
    PROVE  0..n \subseteq T
<1> DEFINE Bad == (0..n) \ T
<1> SUFFICES ASSUME Bad # {} PROVE FALSE
  OBVIOUS
<1>1. Bad \in SUBSET Nat
  OBVIOUS
<1>2. PICK k \in Bad : \A j \in Bad : k <= j
  <2> HIDE DEF Bad
  <2> QED
    BY <1>1, Least
<1>3. k # 0 /\ k \in 1..n /\ k \notin T
  BY <1>2
<1>4. k - 1 \in 0..n /\ k - 1 \notin Bad
  BY <1>2, <1>3
<1> QED
  BY <1>3, <1>4

(* g begins with base and goes on with step, up to n, and stays in S.      *)
Runs(g, n, S, base, step) ==
    /\ g \in [0..n -> S]
    /\ g[0] = base
    /\ \A i \in 1..n : g[i] = step[g[i - 1]][i]

(* What a recursive definition over 0..n defines exists. *)
LEMMA Recursion ==
    ASSUME NEW n \in Nat, NEW S, NEW base \in S, NEW step \in [S -> [1..n -> S]]
    PROVE  \E g : Runs(g, n, S, base, step)
<1> DEFINE T == {k \in 0..n : \E g : Runs(g, k, S, base, step)}
<1>1. 0 \in T
  <2>1. Runs([i \in 0..0 |-> base], 0, S, base, step)
    BY DEF Runs
  <2> QED
    BY <2>1
<1>2. ASSUME NEW k \in 1..n, k - 1 \in T PROVE k \in T
  <2>1. PICK g : Runs(g, k - 1, S, base, step)
    BY <1>2
  <2>2. k \in Nat /\ k # 0 /\ k - 1 \in 0..(k - 1) /\ 0 \in 0..(k - 1)
    BY <1>2
  <2>3. g \in [0..(k - 1) -> S] /\ g[k - 1] \in S
    BY <2>1, <2>2 DEF Runs
  <2>4. PICK v \in S : v = step[g[k - 1]][k]
    BY <1>2, <2>3
  <2> DEFINE h == [i \in 0..k |-> IF i = k THEN v ELSE g[i]]
  <2>5. h \in [0..k -> S] /\ h[k] = v /\ \A i \in 0..(k - 1) : h[i] = g[i]
    BY <2>2, <2>3
  <2> HIDE DEF h
  <2>6. h[0] = base
    BY <2>1, <2>2, <2>5 DEF Runs
  <2>7. ASSUME NEW i \in 1..k PROVE h[i] = step[h[i - 1]][i]
    <3>1. CASE i = k
      BY <2>2, <2>4, <2>5, <3>1
    <3>2. CASE i # k
      <4>1. i \in 1..(k - 1) /\ i \in 0..(k - 1) /\ i - 1 \in 0..(k - 1)
        BY <2>2, <3>2
      <4> QED
        BY <2>1, <2>5, <4>1 DEF Runs
    <3> QED
      BY <3>1, <3>2
  <2>8. Runs(h, k, S, base, step)
    BY <2>5, <2>6, <2>7 DEF Runs
  <2> QED
    BY <1>2, <2>8
<1>3. n \in T
  <2> HIDE DEF T
  <2>1. 0..n \subseteq T
    BY <1>1, <1>2, Induction
  <2> QED
    BY <2>1
<1> QED
  BY <1>3

(* Two runs with the same steps agree where both are. *)
LEMMA RunsAgree ==
    ASSUME NEW S, NEW base, NEW n \in Nat, NEW m \in Nat, n <= m, NEW s1, NEW s2, NEW g, NEW h,
           Runs(g, n, S, base, s1), Runs(h, m, S, base, s2),
           \A x \in S, i \in 1..n : s1[x][i] = s2[x][i]
    PROVE  \A i \in 0..n : g[i] = h[i]
<1> DEFINE T == {i \in 0..n : g[i] = h[i]}
<1>1. 0 \in T
  BY DEF Runs
<1>2. ASSUME NEW i \in 1..n, i - 1 \in T PROVE i \in T
  <2>1. i \in 1..m /\ i \in 0..n /\ i - 1 \in 0..n
    BY <1>2
  <2>2. g[i] = s1[g[i - 1]][i] /\ h[i] = s2[h[i - 1]][i] /\ g[i - 1] \in S
    BY <1>2, <2>1 DEF Runs
  <2>3. g[i - 1] = h[i - 1]
    BY <1>2
  <2> QED
    BY <1>2, <2>1, <2>2, <2>3
<1> HIDE DEF T
<1>3. 0..n \subseteq T
  BY <1>1, <1>2, Induction
<1> QED
  BY <1>3 DEF T

-----------------------------------------------------------------------------
(* Numbers and their digits. *)

(* Division by the base, as a quotient and a remainder.                    *)
LEMMA Divide ==
    ASSUME NEW n \in Nat
    PROVE  /\ n \div Base \in Nat /\ n % Base \in 0..(Base - 1)
           /\ n = (n \div Base) * Base + (n % Base)
<1>1. Base \in Nat /\ Base > 1
  BY FrameAssumption
<1>2. PICK q \in Nat, r \in Nat : q = n \div Base /\ r = n % Base
  BY <1>1
<1>3. n = q * Base + r
  BY <1>1, <1>2
<1> QED
  BY <1>1, <1>2, <1>3

(* The recursive function of Shifted is a run.                             *)
LEMMA ShiftedRuns ==
    ASSUME NEW n \in Nat, NEW i \in Nat
    PROVE  \E g : /\ Runs(g, i, Nat, n, [x \in Nat |-> [j \in 1..i |-> x \div Base]])
                  /\ Shifted(n, i) = g[i]
<1> DEFINE step == [x \in Nat |-> [j \in 1..i |-> x \div Base]]
           IsAfter(g) == g = [j \in 0..i |-> IF j = 0 THEN n ELSE g[j - 1] \div Base]
<1>1. step \in [Nat -> [1..i -> Nat]] /\ \A x \in Nat, j \in 1..i : step[x][j] = x \div Base
  BY Divide
<1>2. \E g : IsAfter(g)
  <2> HIDE DEF step
  <2>1. PICK g : Runs(g, i, Nat, n, step)
    BY <1>1, Recursion
  <2>2. ASSUME NEW j \in 1..i PROVE g[j] = g[j - 1] \div Base
    <3>1. j - 1 \in 0..i
      OBVIOUS
    <3>2. g[j] = step[g[j - 1]][j] /\ g[j - 1] \in Nat
      BY <2>1, <3>1 DEF Runs
    <3> QED
      BY <1>1, <3>2
  <2>3. IsAfter(g)
    BY <2>1, <2>2 DEF Runs
  <2> QED
    BY <2>3
<1>3. PICK g : IsAfter(g) /\ Shifted(n, i) = g[i]
  BY <1>2 DEF Shifted
<1>4. g[0] = n /\ \A j \in 1..i : g[j] = g[j - 1] \div Base
  BY <1>3
<1>5. DOMAIN g = 0..i
  BY <1>3
<1>6. \A j \in 0..i : g[j] \in Nat
  <2> HIDE DEF IsAfter
  <2> DEFINE T == {j \in 0..i : g[j] \in Nat}
  <2>1. 0 \in T
    BY <1>4
  <2>2. ASSUME NEW j \in 1..i, j - 1 \in T PROVE j \in T
    BY <1>4, <2>2, Divide
  <2> HIDE DEF T
  <2>3. 0..i \subseteq T
    BY <2>1, <2>2, Induction
  <2> QED
    BY <2>3 DEF T
<1>7. g \in [0..i -> Nat]
  BY <1>3, <1>6
<1>8. Runs(g, i, Nat, n, step)
  <2>1. ASSUME NEW j \in 1..i PROVE g[j] = step[g[j - 1]][j]
    BY <1>4, <1>6
  <2> HIDE DEF step
  <2> QED
    BY <1>4, <1>7, <2>1 DEF Runs
<1> QED
  BY <1>3, <1>8

(* Shifting by one digit more divides once more. *)
LEMMA ShiftedStep ==
    ASSUME NEW n \in Nat
    PROVE  /\ Shifted(n, 0) = n
           /\ \A i \in Nat : /\ Shifted(n, i) \in Nat
                             /\ Shifted(n, i + 1) = Shifted(n, i) \div Base
<1>1. Shifted(n, 0) = n
  <2>1. PICK g : /\ Runs(g, 0, Nat, n, [x \in Nat |-> [j \in 1..0 |-> x \div Base]])
                 /\ Shifted(n, 0) = g[0]
    BY ShiftedRuns
  <2> QED
    BY <2>1 DEF Runs
<1>2. ASSUME NEW i \in Nat
      PROVE  Shifted(n, i) \in Nat /\ Shifted(n, i + 1) = Shifted(n, i) \div Base
  <2> DEFINE s1 == [x \in Nat |-> [j \in 1..i |-> x \div Base]]
             s2 == [x \in Nat |-> [j \in 1..(i + 1) |-> x \div Base]]
  <2>1. PICK g : Runs(g, i, Nat, n, s1) /\ Shifted(n, i) = g[i]
    BY ShiftedRuns
  <2>2. i + 1 \in Nat /\ i <= i + 1 /\ i + 1 \in 1..(i + 1) /\ i \in 0..i /\ (i + 1) - 1 = i
    OBVIOUS
  <2>3. PICK h : Runs(h, i + 1, Nat, n, s2) /\ Shifted(n, i + 1) = h[i + 1]
    BY <2>2, ShiftedRuns
  <2>4. \A x \in Nat, j \in 1..i : s1[x][j] = s2[x][j]
    OBVIOUS
  <2>5. \A x \in Nat : s2[x][i + 1] = x \div Base
    BY <2>2
  <2> HIDE DEF s1, s2
  <2>6. g[i] = h[i]
    BY <2>1, <2>2, <2>3, <2>4, RunsAgree
  <2>7. h[i + 1] = s2[h[i]][i + 1] /\ g[i] \in Nat
    BY <2>1, <2>2, <2>3 DEF Runs
  <2> QED
    BY <2>1, <2>3, <2>5, <2>6, <2>7
<1> QED
  BY <1>1, <1>2

(* What Number adds up, byte by byte. *)
LEMMA NumberRuns ==
    ASSUME NEW bytes \in Seq(Nat)
    PROVE  \E g : /\ g[0] = 0 /\ Number(bytes) = g[Len(bytes)]
                  /\ \A i \in 0..Len(bytes) : g[i] \in Nat
                  /\ \A i \in 1..Len(bytes) : g[i] = g[i - 1] * Base + bytes[i]
<1> DEFINE n == Len(bytes)
           step == [x \in Nat |-> [j \in 1..n |-> x * Base + bytes[j]]]
           IsOf(g) == g = [j \in 0..n |-> IF j = 0 THEN 0 ELSE g[j - 1] * Base + bytes[j]]
<1>1. n \in Nat /\ (\A j \in 1..n : bytes[j] \in Nat) /\ Base \in Nat
  BY LenProperties, ElementOfSeq, FrameAssumption
<1>2. step \in [Nat -> [1..n -> Nat]] /\ \A x \in Nat, j \in 1..n : step[x][j] = x * Base + bytes[j]
  BY <1>1
<1>3. \E g : IsOf(g)
  <2> HIDE DEF step, n
  <2>1. PICK g : Runs(g, n, Nat, 0, step)
    BY <1>1, <1>2, Recursion
  <2>2. ASSUME NEW j \in 1..n PROVE g[j] = g[j - 1] * Base + bytes[j]
    <3>1. j - 1 \in 0..n
      BY <1>1
    <3>2. g[j] = step[g[j - 1]][j] /\ g[j - 1] \in Nat
      BY <2>1, <3>1 DEF Runs
    <3> QED
      BY <1>2, <3>2
  <2>3. IsOf(g)
    BY <1>1, <2>1, <2>2 DEF Runs
  <2> QED
    BY <2>3
<1>4. PICK g : IsOf(g) /\ Number(bytes) = g[n]
  BY <1>3 DEF Number
<1>5. g[0] = 0 /\ \A j \in 1..n : g[j] = g[j - 1] * Base + bytes[j]
  <2> HIDE DEF step, n
  <2>1. g[0] = 0
    BY <1>1, <1>4
  <2>2. ASSUME NEW j \in 1..n PROVE g[j] = g[j - 1] * Base + bytes[j]
    <3>1. j \in 0..n /\ j # 0
      BY <1>1
    <3> QED
      BY <1>4, <3>1
  <2> QED
    BY <2>1, <2>2
<1>6. \A j \in 0..n : g[j] \in Nat
  <2> HIDE DEF IsOf, n
  <2> DEFINE T == {j \in 0..n : g[j] \in Nat}
  <2>1. 0 \in T
    BY <1>1, <1>5
  <2>2. ASSUME NEW j \in 1..n, j - 1 \in T PROVE j \in T
    <3>1. g[j - 1] \in Nat /\ bytes[j] \in Nat /\ j \in 0..n
      BY <1>1, <2>2
    <3>2. g[j] = g[j - 1] * Base + bytes[j]
      BY <1>5
    <3>3. \A x, y \in Nat : x * Base + y \in Nat
      BY <1>1
    <3>4. g[j] \in Nat
      BY <3>1, <3>2, <3>3
    <3> QED
      BY <3>1, <3>4
  <2> HIDE DEF T
  <2>3. 0..n \subseteq T
    BY <1>1, <2>1, <2>2, Induction
  <2> QED
    BY <2>3 DEF T
<1> QED
  BY <1>4, <1>5, <1>6

(* The digits make a natural number.                                       *)
LEMMA NumberNat == ASSUME NEW bytes \in Seq(Nat) PROVE Number(bytes) \in Nat
<1>1. Len(bytes) \in Nat
  BY LenProperties
<1>2. PICK g : Number(bytes) = g[Len(bytes)] /\ \A i \in 0..Len(bytes) : g[i] \in Nat
  BY NumberRuns
<1>3. Len(bytes) \in 0..Len(bytes)
  BY <1>1
<1> QED
  BY <1>2, <1>3

(* What Bytes returns: the digits, the highest first.                      *)
LEMMA BytesTyped ==
    ASSUME NEW n \in Nat, NEW k \in Nat
    PROVE  /\ Bytes(n, k) \in Seq(Nat) /\ Len(Bytes(n, k)) = k
           /\ \A i \in 1..k : Bytes(n, k)[i] = Digit(n, k - i) /\ Digit(n, k - i) \in Nat
<1>1. ASSUME NEW i \in 1..k PROVE Digit(n, k - i) \in Nat
  <2>1. PICK j \in Nat : j = k - i
    OBVIOUS
  <2>2. Shifted(n, j) \in Nat
    BY ShiftedStep
  <2> QED
    BY <2>1, <2>2, Divide DEF Digit
<1>2. Bytes(n, k) = [i \in 1..k |-> Digit(n, k - i)]
  BY DEF Bytes
<1> QED
  BY <1>1, <1>2

(* The digits of a number make the number, when there are enough of them.  *)
LEMMA NumberOfBytes ==
    ASSUME NEW n \in Nat, NEW k \in Nat, Shifted(n, k) = 0
    PROVE  Number(Bytes(n, k)) = n
<1>1. Bytes(n, k) \in Seq(Nat) /\ Len(Bytes(n, k)) = k
      /\ \A i \in 1..k : Bytes(n, k)[i] = Digit(n, k - i)
  BY BytesTyped
<1>2. PICK g : /\ g[0] = 0 /\ Number(Bytes(n, k)) = g[k]
               /\ \A i \in 1..k : g[i] = g[i - 1] * Base + Bytes(n, k)[i]
  <2>1. PICK bytes \in Seq(Nat) : bytes = Bytes(n, k)
    BY <1>1
  <2>2. Len(bytes) = k
    BY <1>1, <2>1
  <2>3. \E g : /\ g[0] = 0 /\ Number(bytes) = g[k]
               /\ \A i \in 1..k : g[i] = g[i - 1] * Base + bytes[i]
    BY <2>2, NumberRuns, SMTT(60)
  <2> QED
    BY <2>1, <2>3
<1> DEFINE T == {i \in 0..k : g[i] = Shifted(n, k - i)}
<1>3. 0 \in T
  BY <1>2
<1>4. ASSUME NEW i \in 1..k, i - 1 \in T PROVE i \in T
  <2>1. PICK j \in Nat : j = k - i
    OBVIOUS
  <2>2. k - (i - 1) = j + 1
    BY <2>1
  <2>3. Shifted(n, j) \in Nat /\ Shifted(n, j + 1) = Shifted(n, j) \div Base
    BY ShiftedStep
  <2>4. g[i - 1] = Shifted(n, j) \div Base
    BY <1>4, <2>2, <2>3
  <2>5. g[i] = g[i - 1] * Base + (Shifted(n, j) % Base)
    BY <1>1, <1>2, <2>1 DEF Digit
  <2>6. g[i] = Shifted(n, j)
    BY <2>3, <2>4, <2>5, Divide
  <2> QED
    BY <2>1, <2>6
<1> HIDE DEF T
<1>5. 0..k \subseteq T
  BY <1>3, <1>4, Induction
<1>6. g[k] = Shifted(n, 0)
  <2>1. k \in T /\ k - k = 0
    BY <1>5
  <2> QED
    BY <2>1 DEF T
<1> QED
  BY <1>2, <1>6, ShiftedStep

(* A length below the square of Base has two digits. *)
LEMMA TwoDigits == ASSUME NEW n \in Nat, n < Base * Base PROVE Shifted(n, 2) = 0
<1>1. Base \in Nat /\ Base > 1
  BY FrameAssumption
<1>2. PICK q \in Nat, r \in 0..(Base - 1) : q = n \div Base /\ n = q * Base + r
  BY Divide
<1>3. q < Base
  <2> SUFFICES ASSUME q >= Base PROVE FALSE
    BY <1>1, <1>2
  <2>1. q * Base >= Base * Base
    BY <1>1, <1>2
  <2> QED
    BY <1>1, <1>2, <2>1
<1>4. Shifted(n, 1) = q
  <2>1. Shifted(n, 0) = n /\ Shifted(n, 0 + 1) = Shifted(n, 0) \div Base
    BY ShiftedStep
  <2> QED
    BY <1>2, <2>1
<1>5. Shifted(n, 2) = q \div Base
  <2>1. Shifted(n, 1 + 1) = Shifted(n, 1) \div Base
    BY ShiftedStep
  <2> QED
    BY <1>4, <2>1
<1> QED
  BY <1>1, <1>2, <1>3, <1>5

(* The upper digits of a number of four are zero, and one whose upper      *)
(* digits are zero has four.                                               *)
LEMMA UpperDigits ==
    ASSUME NEW n \in Nat, Shifted(n, 8) = 0
    PROVE  Shifted(n, 4) = 0 <=> \A i \in 4..7 : Digit(n, i) = 0
<1>1. Base \in Nat /\ Base > 1
  BY FrameAssumption
<1>2. /\ \A i \in Nat : Shifted(n, i) \in Nat
      /\ \A i \in Nat : Shifted(n, i + 1) = Shifted(n, i) \div Base
  BY ShiftedStep
<1>3. /\ Shifted(n, 5) = Shifted(n, 4) \div Base /\ Shifted(n, 6) = Shifted(n, 5) \div Base
      /\ Shifted(n, 7) = Shifted(n, 6) \div Base /\ Shifted(n, 8) = Shifted(n, 7) \div Base
  <2>1. 4 + 1 = 5 /\ 5 + 1 = 6 /\ 6 + 1 = 7 /\ 7 + 1 = 8
    OBVIOUS
  <2> QED
    BY <1>2, <2>1
<1>4. 0 \div Base = 0 /\ 0 % Base = 0
  BY <1>1
<1>5. ASSUME Shifted(n, 4) = 0, NEW i \in 4..7 PROVE Digit(n, i) = 0
  <2>1. Shifted(n, 4) = 0 /\ Shifted(n, 5) = 0 /\ Shifted(n, 6) = 0 /\ Shifted(n, 7) = 0
    BY <1>3, <1>4, <1>5
  <2>2. i = 4 \/ i = 5 \/ i = 6 \/ i = 7
    OBVIOUS
  <2> QED
    BY <1>4, <2>1, <2>2 DEF Digit
<1>6. ASSUME \A i \in 4..7 : Digit(n, i) = 0 PROVE Shifted(n, 4) = 0
  <2>1. \A x \in Nat : x \div Base = 0 /\ x % Base = 0 => x = 0
    <3> SUFFICES ASSUME NEW x \in Nat, x \div Base = 0, x % Base = 0 PROVE x = 0
      OBVIOUS
    <3>1. x = 0 * Base + 0
      BY Divide
    <3> QED
      BY <1>1, <3>1
  <2>2. /\ Shifted(n, 4) % Base = 0 /\ Shifted(n, 5) % Base = 0
        /\ Shifted(n, 6) % Base = 0 /\ Shifted(n, 7) % Base = 0
    BY <1>6 DEF Digit
  <2>3. Shifted(n, 7) = 0
    BY <1>2, <1>3, <2>1, <2>2
  <2>4. Shifted(n, 6) = 0
    BY <1>2, <1>3, <2>1, <2>2, <2>3
  <2>5. Shifted(n, 5) = 0
    BY <1>2, <1>3, <2>1, <2>2, <2>4
  <2> QED
    BY <1>2, <1>3, <2>1, <2>2, <2>5
<1> QED
  BY <1>5, <1>6

(* A number of four digits has eight. *)
LEMMA FourDigits ==
    ASSUME NEW n \in Nat, Shifted(n, 4) = 0
    PROVE  Shifted(n, 8) = 0
<1>1. Base \in Nat /\ Base > 1
  BY FrameAssumption
<1>2. 0 \div Base = 0
  BY <1>1
<1>3. \A i \in Nat : Shifted(n, i + 1) = Shifted(n, i) \div Base
  BY ShiftedStep
<1>4. 4 + 1 = 5 /\ 5 + 1 = 6 /\ 6 + 1 = 7 /\ 7 + 1 = 8
  OBVIOUS
<1>5. Shifted(n, 5) = 0
  BY <1>2, <1>3, <1>4
<1>6. Shifted(n, 6) = 0
  BY <1>2, <1>3, <1>4, <1>5
<1>7. Shifted(n, 7) = 0
  BY <1>2, <1>3, <1>4, <1>6
<1> QED
  BY <1>2, <1>3, <1>4, <1>7

-----------------------------------------------------------------------------
(* Sequences in two parts. *)

(* A sequence is the part up to a place and the part after it.             *)
LEMMA Cut ==
    ASSUME NEW S, NEW s \in Seq(S), NEW n \in 0..Len(s)
    PROVE  /\ SubSeq(s, 1, n) \in Seq(S) /\ SubSeq(s, n + 1, Len(s)) \in Seq(S)
           /\ Len(SubSeq(s, 1, n)) = n /\ Len(SubSeq(s, n + 1, Len(s))) = Len(s) - n
           /\ s = SubSeq(s, 1, n) \o SubSeq(s, n + 1, Len(s))
<1>1. Len(s) \in Nat /\ n \in Int /\ n + 1 \in Int /\ 1 \in Int /\ n <= Len(s) /\ n >= 0
  BY LenProperties
<1>2. PICK a : a = SubSeq(s, 1, n)
  OBVIOUS
<1>3. PICK b : b = SubSeq(s, n + 1, Len(s))
  OBVIOUS
<1>4. a \in Seq(S) /\ Len(a) = n /\ \A i \in 1..n : a[i] = s[i]
  <2>1. \A i \in 1..n : s[i] \in S
    BY <1>1, ElementOfSeq
  <2>2. /\ a \in Seq(S) /\ Len(a) = IF 1 <= n THEN n - 1 + 1 ELSE 0
        /\ \A i \in 1..(n - 1 + 1) : a[i] = s[1 + i - 1]
    BY <1>1, <1>2, <2>1, SubSeqProperties
  <2> QED
    BY <1>1, <2>2
<1>5. b \in Seq(S) /\ Len(b) = Len(s) - n /\ \A i \in 1..(Len(s) - n) : b[i] = s[n + i]
  <2>1. \A i \in (n + 1)..Len(s) : s[i] \in S
    BY <1>1, ElementOfSeq
  <2>2. /\ b \in Seq(S) /\ Len(b) = IF n + 1 <= Len(s) THEN Len(s) - (n + 1) + 1 ELSE 0
        /\ \A i \in 1..(Len(s) - (n + 1) + 1) : b[i] = s[(n + 1) + i - 1]
    BY <1>1, <1>3, <2>1, SubSeqProperties
  <2> QED
    BY <1>1, <2>2
<1>6. a \o b = s
  <2>1. a \o b \in Seq(S) /\ Len(a \o b) = Len(s)
        /\ \A i \in 1..Len(s) : (a \o b)[i] = IF i <= n THEN a[i] ELSE b[i - n]
    BY <1>1, <1>4, <1>5, ConcatProperties
  <2>2. \A i \in 1..Len(s) : (a \o b)[i] = s[i]
    BY <1>1, <1>4, <1>5, <2>1
  <2> QED
    BY <2>1, <2>2, SeqEqual
<1> QED
  BY <1>2, <1>3, <1>4, <1>5, <1>6

(* s is a followed by b.                                                   *)
Joins(a, b, s) == s = a \o b

(* Two ways to cut a sequence: the shorter first part begins the longer.   *)
LEMMA Levi ==
    ASSUME NEW S, NEW a \in Seq(S), NEW b \in Seq(S), NEW c \in Seq(S), NEW d \in Seq(S), NEW s,
           Joins(a, b, s), Joins(c, d, s), Len(a) <= Len(c)
    PROVE  \E t \in Seq(S) : Joins(a, t, c) /\ Joins(t, d, b)
<1>1. Len(a) \in Nat /\ Len(c) \in Nat /\ Len(a) \in 0..Len(c)
  BY LenProperties
<1>2. PICK h \in Seq(S), t \in Seq(S) : c = h \o t /\ Len(h) = Len(a)
  <2>1. PICK n \in 0..Len(c) : n = Len(a)
    BY <1>1
  <2>2. /\ SubSeq(c, 1, n) \in Seq(S) /\ SubSeq(c, n + 1, Len(c)) \in Seq(S)
        /\ c = SubSeq(c, 1, n) \o SubSeq(c, n + 1, Len(c)) /\ Len(SubSeq(c, 1, n)) = n
    BY Cut, ZenonT(60)
  <2> QED
    BY <2>1, <2>2
<1>3. h = a
  <2>1. \A i \in 1..Len(a) : (a \o b)[i] = a[i]
    BY <1>1, ConcatProperties, LenProperties
  <2>2. \A i \in 1..Len(a) : (c \o d)[i] = c[i]
    BY <1>1, ConcatProperties, LenProperties
  <2>3. \A i \in 1..Len(a) : c[i] = h[i]
    BY <1>1, <1>2, ConcatProperties, LenProperties
  <2>4. a \o b = c \o d
    BY DEF Joins
  <2> QED
    BY <1>2, <2>1, <2>2, <2>3, <2>4, SeqEqual
<1>4. b = t \o d
  <2>1. a \o b = a \o (t \o d)
    <3>1. (a \o t) \o d = a \o (t \o d)
      BY <1>2, ConcatAssociative, SMTT(60)
    <3> QED
      BY <1>2, <1>3, <3>1 DEF Joins
  <2>2. t \o d \in Seq(S)
    BY <1>2, ConcatProperties
  <2> QED
    BY <2>1, <2>2, ConcatSimplifications
<1> QED
  BY <1>2, <1>3, <1>4 DEF Joins

(* Where two parts follow a third, so does what they join to.              *)
LEMMA Regroup ==
    ASSUME NEW S, NEW x \in Seq(S), NEW y \in Seq(S), NEW z \in Seq(S), NEW p, NEW q, NEW s,
           Joins(x, y, p), Joins(p, z, s), Joins(y, z, q)
    PROVE  Joins(x, q, s)
<1>1. (x \o y) \o z = x \o (y \o z)
  BY ConcatAssociative
<1> QED
  BY ONLY <1>1, Joins(x, y, p), Joins(p, z, s), Joins(y, z, q), Zenon DEF Joins

(* Cutting what was joined gives the two parts back.                       *)
LEMMA Uncut ==
    ASSUME NEW S, NEW a \in Seq(S), NEW b \in Seq(S)
    PROVE  /\ SubSeq(a \o b, 1, Len(a)) = a
           /\ SubSeq(a \o b, Len(a) + 1, Len(a \o b)) = b
           /\ Len(a \o b) = Len(a) + Len(b) /\ a \o b \in Seq(S)
<1>1. Len(a) \in Nat /\ Len(b) \in Nat
  BY LenProperties
<1>2. PICK s \in Seq(S) : s = a \o b
  BY ConcatProperties
<1>3. Len(s) = Len(a) + Len(b) /\ Len(a) \in 0..Len(s)
  BY <1>1, <1>2, ConcatProperties
<1>4. PICK h \in Seq(S), t \in Seq(S) :
        h = SubSeq(s, 1, Len(a)) /\ t = SubSeq(s, Len(a) + 1, Len(s)) /\ Len(h) = Len(a) /\ s = h \o t
  <2>1. PICK n \in 0..Len(s) : n = Len(a)
    BY <1>3
  <2>2. /\ SubSeq(s, 1, n) \in Seq(S) /\ SubSeq(s, n + 1, Len(s)) \in Seq(S)
        /\ s = SubSeq(s, 1, n) \o SubSeq(s, n + 1, Len(s)) /\ Len(SubSeq(s, 1, n)) = n
    BY Cut, ZenonT(60)
  <2> QED
    BY <2>1, <2>2
<1>5. PICK u \in Seq(S) : a = h \o u /\ t = u \o b
  <2>1. Joins(h, t, s) /\ Joins(a, b, s)
    BY <1>2, <1>4, Zenon DEF Joins
  <2>2. Len(h) <= Len(a)
    BY <1>1, <1>4
  <2>3. \E u \in Seq(S) : Joins(h, u, a) /\ Joins(u, b, t)
    BY <1>4, <2>1, <2>2, Levi
  <2> QED
    BY <2>3 DEF Joins
<1>6. u = <<>>
  <2>1. Len(a) = Len(h) + Len(u) /\ Len(u) \in Nat
    BY <1>5, ConcatProperties, LenProperties
  <2>2. Len(u) = 0
    BY <1>1, <1>4, <2>1
  <2> QED
    BY <2>2, EmptySeq
<1>7. a = h /\ b = t
  BY <1>5, <1>6, ConcatEmptySeq
<1> QED
  BY <1>2, <1>3, <1>4, <1>7

(* What comes after does not change the elements of the first part.        *)
LEMMA FirstPart ==
    ASSUME NEW S, NEW a \in Seq(S), NEW b \in Seq(S)
    PROVE  /\ \A i \in 1..Len(a) : (a \o b)[i] = a[i]
           /\ \A m \in 1..(Len(a) + 1), n \in 0..Len(a) : SubSeq(a \o b, m, n) = SubSeq(a, m, n)
<1>1. Len(a) \in Nat /\ Len(b) \in Nat
  BY LenProperties
<1>2. \A i \in 1..Len(a) : (a \o b)[i] = a[i]
  BY <1>1, ConcatProperties
<1>3. ASSUME NEW m \in 1..(Len(a) + 1), NEW n \in 0..Len(a)
      PROVE  SubSeq(a \o b, m, n) = SubSeq(a, m, n)
  <2>1. m \in Int /\ n \in Int /\ m >= 1 /\ n <= Len(a)
    BY <1>1
  <2>2. \A i \in m..n : a[i] \in S /\ (a \o b)[i] = a[i]
    BY <1>1, <1>2, <2>1, ElementOfSeq
  <2>3. PICK x : x = a \o b
    OBVIOUS
  <2>4. \A i \in m..n : x[i] \in S
    BY <2>2, <2>3
  <2>5. /\ SubSeq(x, m, n) \in Seq(S) /\ SubSeq(a, m, n) \in Seq(S)
        /\ Len(SubSeq(x, m, n)) = IF m <= n THEN n - m + 1 ELSE 0
        /\ Len(SubSeq(a, m, n)) = IF m <= n THEN n - m + 1 ELSE 0
        /\ \A i \in 1..(n - m + 1) : SubSeq(x, m, n)[i] = x[m + i - 1] /\ SubSeq(a, m, n)[i] = a[m + i - 1]
    BY <2>1, <2>2, <2>4, SubSeqProperties
  <2>6. ASSUME NEW i \in 1..Len(SubSeq(x, m, n)) PROVE SubSeq(x, m, n)[i] = SubSeq(a, m, n)[i]
    <3>1. i \in 1..(n - m + 1) /\ m + i - 1 \in m..n
      BY <2>1, <2>5
    <3> QED
      BY <2>2, <2>3, <2>5, <3>1
  <2> QED
    BY <2>3, <2>5, <2>6, SeqEqual
<1> QED
  BY <1>2, <1>3

-----------------------------------------------------------------------------
(* Streams: the bytes of frames, one after the other, and their messages.  *)

(* The two first bytes of a header, any byte, and a message.               *)
First == [fin : BOOLEAN, op : Opcodes]
Second == [mask : BOOLEAN, len : Nat]
Byte == First \cup Second \cup Nat
Message == [fin : BOOLEAN, op : Opcodes \cup {"huge"}, data : Seq(0..1)]

(* A frame is its bytes with its message, a stream any number of frames:   *)
(* what can be reached from the empty stream by adding frames of F.        *)
Frames == Seq(Byte) \X Message
(* A set that grows by the frames of F: with a stream of bytes and its     *)
(* messages it holds the stream with one frame of F more.  The streams of  *)
(* F are what every such set has.                                          *)
Universe == Seq(Byte) \X Seq(Message)
Grows(T, F) ==
    /\ <<<<>>, <<>>>> \in T
    /\ \A b \in Seq(Byte), ms \in Seq(Message), e \in Seq(Byte), m \in Message :
         <<b, ms>> \in T /\ <<e, m>> \in F => <<b \o e, Append(ms, m)>> \in T
Streams(F) == {s \in Universe : \A T \in SUBSET Universe : Grows(T, F) => s \in T}

(* The streams of F grow by the frames of F.                               *)
LEMMA StreamsGrow == ASSUME NEW F PROVE Grows(Streams(F), F)
<1>1. <<<<>>, <<>>>> \in Streams(F)
  <2>1. <<<<>>, <<>>>> \in Universe
    BY EmptySeq DEF Universe
  <2> QED
    BY <2>1 DEF Streams, Grows
<1>2. ASSUME NEW b \in Seq(Byte), NEW ms \in Seq(Message), NEW e \in Seq(Byte), NEW m \in Message,
             <<b, ms>> \in Streams(F), <<e, m>> \in F
      PROVE  <<b \o e, Append(ms, m)>> \in Streams(F)
  <2>1. b \o e \in Seq(Byte) /\ Append(ms, m) \in Seq(Message)
    BY ConcatProperties, AppendProperties
  <2>2. <<b \o e, Append(ms, m)>> \in Universe
    BY <2>1 DEF Universe
  <2>3. ASSUME NEW T \in SUBSET Universe, Grows(T, F) PROVE <<b \o e, Append(ms, m)>> \in T
    <3>1. <<b, ms>> \in T
      BY <1>2, <2>3 DEF Streams
    <3> QED
      BY <1>2, <2>3, <3>1 DEF Grows
  <2> QED
    BY <2>2, <2>3 DEF Streams
<1> QED
  BY <1>1, <1>2 DEF Grows

(* Whatever grows by the frames of F has the streams of F.                 *)
LEMMA StreamsLeast ==
    ASSUME NEW F, NEW T \in SUBSET Universe, Grows(T, F)
    PROVE  Streams(F) \subseteq T
BY DEF Streams

(* The parts of a stream.                                                  *)
LEMMA StreamTyped ==
    ASSUME NEW F, NEW b, NEW ms, <<b, ms>> \in Streams(F)
    PROVE  b \in Seq(Byte) /\ ms \in Seq(Message)
BY DEF Streams, Universe

(* A stream is empty or has a first frame.                                 *)
HasFirst(F, b, ms) ==
    \E e \in Seq(Byte), m \in Message, b2 \in Seq(Byte), ms2 \in Seq(Message) :
       /\ <<e, m>> \in F /\ <<b2, ms2>> \in Streams(F)
       /\ Joins(e, b2, b) /\ Joins(<<m>>, ms2, ms)

(* A stream is empty or has a first frame, and after it a stream.          *)
LEMMA StreamFirst ==
    ASSUME NEW F, NEW b, NEW ms, <<b, ms>> \in Streams(F)
    PROVE  (b = <<>> /\ ms = <<>>) \/ HasFirst(F, b, ms)
<1> DEFINE T == {s \in Universe :
                    s \in Streams(F) /\ ((s[1] = <<>> /\ s[2] = <<>>) \/ HasFirst(F, s[1], s[2]))}
<1>1. <<<<>>, <<>>>> \in Streams(F)
  BY StreamsGrow DEF Grows
<1>2. <<<<>>, <<>>>> \in T
  BY <1>1 DEF Streams
<1>3. ASSUME NEW x \in Seq(Byte), NEW y \in Seq(Message), NEW e \in Seq(Byte), NEW m \in Message,
             <<x, y>> \in T, <<e, m>> \in F
      PROVE  <<x \o e, Append(y, m)>> \in T
  <2>1. <<x \o e, Append(y, m)>> \in Streams(F)
    BY <1>3, StreamsGrow DEF Grows
  <2>2. <<x \o e, Append(y, m)>> \in Universe
    BY <2>1 DEF Streams
  <2>3. HasFirst(F, x \o e, Append(y, m))
    <3>1. CASE x = <<>> /\ y = <<>>
      <4>1. Joins(e, <<>>, x \o e) /\ Joins(<<m>>, <<>>, Append(y, m))
        BY <3>1 DEF Joins
      <4>2. <<>> \in Seq(Byte) /\ <<>> \in Seq(Message)
        BY EmptySeq
      <4> HIDE DEF T
      <4> QED
        BY <1>1, <1>3, <4>1, <4>2 DEF HasFirst
    <3>2. CASE HasFirst(F, x, y)
      <4>1. PICK d \in Seq(Byte), k \in Message, b2 \in Seq(Byte), ms2 \in Seq(Message) :
                 /\ <<d, k>> \in F /\ <<b2, ms2>> \in Streams(F)
                 /\ Joins(d, b2, x) /\ Joins(<<k>>, ms2, y)
        BY <3>2 DEF HasFirst
      <4>2. PICK b3 \in Seq(Byte) : b3 = b2 \o e
        BY <1>3, <4>1, ConcatProperties
      <4>3. PICK ms3 \in Seq(Message) : ms3 = Append(ms2, m)
        BY <1>3, <4>1, AppendProperties
      <4>4. <<b3, ms3>> \in Streams(F)
        BY <1>3, <4>1, <4>2, <4>3, StreamsGrow DEF Grows
      <4>5. Joins(d, b3, x \o e)
        <5>1. (d \o b2) \o e = d \o (b2 \o e)
          BY SMTT(60)
        <5> QED
          BY <4>1, <4>2, <5>1 DEF Joins
      <4>6. Joins(<<k>>, ms3, Append(y, m))
        <5>1. <<k>> \in Seq(Message) /\ <<m>> \in Seq(Message)
          BY <1>3, <4>1
        <5>2. Append(y, m) = (<<k>> \o ms2) \o <<m>> /\ ms3 = ms2 \o <<m>>
          BY <1>3, <4>1, <4>3, AppendIsConcat DEF Joins
        <5>3. (<<k>> \o ms2) \o <<m>> = <<k>> \o (ms2 \o <<m>>)
          BY <5>1
        <5> QED
          BY <5>2, <5>3 DEF Joins
      <4> HIDE DEF T
      <4> QED
        BY <4>1, <4>2, <4>3, <4>4, <4>5, <4>6 DEF HasFirst
    <3> QED
      BY <1>3, <3>1, <3>2
  <2> QED
    BY <2>1, <2>2, <2>3
<1>4. Grows(T, F)
  <2> HIDE DEF T
  <2> QED
    BY <1>2, <1>3 DEF Grows
<1>5. T \in SUBSET Universe
  OBVIOUS
<1> HIDE DEF T
<1>6. <<b, ms>> \in T
  BY <1>4, <1>5, StreamsLeast
<1> QED
  BY <1>6 DEF T

(* When no frame is empty, no bytes are no messages.                       *)
LEMMA StreamEmpty ==
    ASSUME NEW F, \A e, m : <<e, m>> \in F => Len(e) > 0,
           NEW b, NEW ms, <<b, ms>> \in Streams(F), Len(b) = 0
    PROVE  ms = <<>>
<1>1. ASSUME NEW e \in Seq(Byte), NEW m \in Message, NEW b2 \in Seq(Byte), <<e, m>> \in F, Joins(e, b2, b)
      PROVE  FALSE
  <2>1. Len(e) > 0 /\ Len(e \o b2) = 0
    BY <1>1 DEF Joins
  <2>2. Len(e) \in Nat /\ Len(b2) \in Nat /\ Len(e \o b2) = Len(e) + Len(b2)
    BY ConcatProperties, LenProperties
  <2> QED
    BY <2>1, <2>2
<1> QED
  BY <1>1, StreamFirst DEF HasFirst

-----------------------------------------------------------------------------
(* Headers, whole and in part. *)

(* A part of a sequence is what it shows.                                  *)
LEMMA Window ==
    ASSUME NEW S, NEW s \in Seq(S), NEW t \in Seq(S), NEW m \in Nat, NEW n \in Nat,
           n = m + Len(t), n <= Len(s), \A i \in 1..Len(t) : s[m + i] = t[i]
    PROVE  SubSeq(s, m + 1, n) = t
<1>1. Len(s) \in Nat /\ Len(t) \in Nat
  BY LenProperties
<1>2. PICK k \in Int : k = m + 1
  OBVIOUS
<1>3. \A i \in k..n : s[i] \in S
  BY <1>1, <1>2, ElementOfSeq
<1>4. n \in Int
  OBVIOUS
<1>5. /\ SubSeq(s, k, n) \in Seq(S)
      /\ Len(SubSeq(s, k, n)) = IF k <= n THEN n - k + 1 ELSE 0
      /\ \A i \in 1..(n - k + 1) : SubSeq(s, k, n)[i] = s[k + i - 1]
  BY <1>2, <1>3, <1>4, SubSeqProperties
<1>6. Len(SubSeq(s, k, n)) = Len(t)
  BY <1>1, <1>2, <1>5
<1>7. \A i \in 1..Len(t) : SubSeq(s, k, n)[i] = t[i]
  BY <1>1, <1>2, <1>5
<1> QED
  BY <1>2, <1>5, <1>6, <1>7, SeqEqual

(* A header, put together from its parts.                                  *)
ExtraOf(b) == IF b.len = Esc THEN 2 ELSE IF b.len = Esc + 1 THEN 8 ELSE 0
Header(a, b, more, key) == (<<a, b>> \o more) \o key

(* What both sides read in such a header.                                  *)
Shows(hd, a, b, more, key) ==
    /\ hd \in Seq(Byte) /\ hd[1] = a /\ hd[2] = b
    /\ Len(hd) = 2 + Len(more) + Len(key) /\ Len(hd) \in 2..14
    /\ LengthBytes(hd) = Len(more) /\ RfcExtra(hd) = Len(more) /\ RfcStart(hd) = Len(hd)
    /\ MaskKey(hd) = IF b.mask THEN key ELSE NoKey
    /\ RfcSize(hd) = IF Len(more) = 0 THEN b.len ELSE Number(more)
    /\ Len(more) = 0 => PayloadLen(hd) = b.len
    /\ Len(more) = 2 => PayloadLen(hd) = Number(more)
    /\ Len(more) = 8 => PayloadLen(hd) = IF SubSeq(more, 1, 4) # <<0, 0, 0, 0>> THEN TooBig
                                         ELSE Number(SubSeq(more, 5, 8))

(* What createHeader, handleWebsocketCb and the RFC call its parts are its *)
(* parts.                                                                  *)
LEMMA HeaderFields ==
    ASSUME NEW a \in First, NEW b \in Second, NEW more \in Seq(Nat), NEW key \in Seq(Nat),
           Len(more) = ExtraOf(b), Len(key) = IF b.mask THEN 4 ELSE 0,
           NEW hd, hd = Header(a, b, more, key)
    PROVE  Shows(hd, a, b, more, key)
<1>1. Len(more) \in {0, 2, 8} /\ Len(key) \in {0, 4} /\ b.mask \in BOOLEAN /\ b.len \in Nat
  BY DEF ExtraOf, Second
<1>2. more \in Seq(Byte) /\ key \in Seq(Byte)
  BY SeqMonotonic DEF Byte
<1>3. PICK ab \in Seq(Byte) : ab = <<a, b>>
  <2>1. <<a, b>> \in Seq(Byte)
    BY DEF Byte
  <2> QED
    BY <2>1
<1>4. Len(ab) = 2 /\ ab[1] = a /\ ab[2] = b
  BY <1>3
<1>5. PICK pre \in Seq(Byte) : pre = ab \o more
  BY <1>2, ConcatProperties
<1>6. /\ Len(pre) = 2 + Len(more)
      /\ \A i \in 1..(2 + Len(more)) : pre[i] = IF i <= 2 THEN ab[i] ELSE more[i - 2]
  <2>1. /\ Len(ab \o more) = Len(ab) + Len(more)
        /\ \A i \in 1..(Len(ab) + Len(more)) :
             (ab \o more)[i] = IF i <= Len(ab) THEN ab[i] ELSE more[i - Len(ab)]
    BY ONLY <1>2, ab \in Seq(Byte), ConcatProperties
  <2> QED
    BY ONLY <1>4, <1>5, <2>1
<1>7. hd = pre \o key
  BY <1>3, <1>5 DEF Header
<1>8. /\ hd \in Seq(Byte) /\ Len(hd) = Len(pre) + Len(key)
      /\ \A i \in 1..(Len(pre) + Len(key)) : hd[i] = IF i <= Len(pre) THEN pre[i] ELSE key[i - Len(pre)]
  BY ONLY pre \in Seq(Byte), <1>2, <1>7, ConcatProperties
<1>9. Len(hd) = 2 + Len(more) + Len(key) /\ Len(hd) \in 2..14
  <2>1. Len(hd) = Len(pre) + Len(key) /\ Len(pre) = 2 + Len(more)
    BY ONLY <1>6, <1>8, Zenon
  <2>2. Len(more) \in 0..8 /\ Len(key) \in 0..4
    BY <1>1
  <2>3. PICK m \in 0..8, k \in 0..4 : m = Len(more) /\ k = Len(key)
    BY <2>2
  <2>4. Len(hd) = 2 + Len(more) + Len(key)
    BY <2>1, <2>3
  <2>5. Len(hd) = 2 + m + k
    BY <2>3, <2>4
  <2>6. Len(hd) \in 2..14
    BY ONLY <2>5, m \in 0..8, k \in 0..4
  <2> QED
    BY <2>4, <2>6
<1>10. hd[1] = a /\ hd[2] = b
  <2>1. \A i \in 1..2 : i \in 1..(2 + Len(more)) /\ i \in 1..(Len(pre) + Len(key)) /\ i <= Len(pre)
    BY ONLY <1>1, <1>6
  <2>2. \A i \in 1..2 : hd[i] = ab[i]
    BY ONLY <1>6, <1>8, <2>1
  <2> QED
    BY ONLY <1>4, <2>2
<1>11. ASSUME NEW i \in 1..Len(more) PROVE hd[2 + i] = more[i]
  <2>1. PICK j \in 1..(2 + Len(more)) : j = 2 + i
    BY ONLY <1>1, i \in 1..Len(more)
  <2>2. j \in 1..(Len(pre) + Len(key)) /\ j <= Len(pre) /\ ~(j <= 2) /\ j - 2 = i
    BY ONLY <1>1, <1>6, <2>1, i \in 1..Len(more)
  <2>3. hd[j] = pre[j] /\ pre[j] = more[j - 2]
    BY ONLY <1>6, <1>8, <2>1, <2>2
  <2> QED
    BY ONLY <2>1, <2>2, <2>3
<1>12. ASSUME NEW i \in 1..Len(key) PROVE hd[(2 + Len(more)) + i] = key[i]
  <2>1. PICK j \in 1..(Len(pre) + Len(key)) : j = (2 + Len(more)) + i
    <3>1. Len(pre) = 2 + Len(more)
      BY ONLY <1>6, Zenon
    <3>2. Len(more) \in Nat /\ Len(key) \in Nat
      BY <1>1
    <3> QED
      BY ONLY <3>1, <3>2, i \in 1..Len(key)
  <2>2. ~(j <= Len(pre)) /\ j - Len(pre) = i
    BY ONLY <1>1, <1>6, <2>1, i \in 1..Len(key)
  <2>3. hd[j] = key[j - Len(pre)]
    BY ONLY <1>8, <2>1, <2>2
  <2> QED
    BY ONLY <2>1, <2>2, <2>3
<1>13. LengthBytes(hd) = Len(more) /\ RfcExtra(hd) = Len(more)
  BY <1>10 DEF LengthBytes, RfcExtra, ExtraOf
<1>14. RfcStart(hd) = Len(hd)
  BY <1>1, <1>9, <1>10, <1>13 DEF RfcStart
<1>15. SubSeq(hd, 3, 2 + Len(more)) = more
  <2>1. PICK n \in Nat : n = 2 + Len(more)
    BY <1>1
  <2>2. n <= Len(hd)
    BY <1>1, <1>9, <2>1
  <2>3. SubSeq(hd, 2 + 1, n) = more
    BY ONLY <1>2, <1>8, <1>11, <2>1, <2>2, n \in Nat, 2 \in Nat, Window
  <2> QED
    BY <2>1, <2>3
<1>16. b.mask => SubSeq(hd, 3 + Len(more), 6 + Len(more)) = key
  <2> SUFFICES ASSUME b.mask PROVE SubSeq(hd, 3 + Len(more), 6 + Len(more)) = key
    OBVIOUS
  <2>1. PICK m \in Nat, n \in Nat : m = 2 + Len(more) /\ n = m + Len(key)
    BY <1>1
  <2>2. n <= Len(hd) /\ \A i \in 1..Len(key) : hd[m + i] = key[i]
    BY <1>1, <1>9, <1>12, <2>1
  <2>3. SubSeq(hd, m + 1, n) = key
    BY ONLY <1>2, <1>8, <2>1, <2>2, m \in Nat, n \in Nat, Window
  <2>4. m + 1 = 3 + Len(more) /\ n = 6 + Len(more)
    BY <1>1, <2>1
  <2> QED
    BY <2>3, <2>4
<1>17. MaskKey(hd) = IF b.mask THEN key ELSE NoKey
  BY <1>10, <1>13, <1>16 DEF MaskKey
<1>18. RfcSize(hd) = IF Len(more) = 0 THEN b.len ELSE Number(more)
  BY <1>10, <1>13, <1>15 DEF RfcSize
<1>19. Len(more) = 0 => PayloadLen(hd) = b.len
  BY <1>10, <1>13 DEF PayloadLen
<1>20. Len(more) = 2 => PayloadLen(hd) = Number(more)
  <2> SUFFICES ASSUME Len(more) = 2 PROVE PayloadLen(hd) = Number(more)
    OBVIOUS
  <2>1. 2 + Len(more) = 4 /\ LengthBytes(hd) = 2 /\ 2 # 0 /\ 2 # 8
    BY <1>13
  <2>2. SubSeq(hd, 3, 4) = more
    BY <1>15, <2>1
  <2>3. PayloadLen(hd) = Number(SubSeq(hd, 3, 4))
    BY ONLY <2>1, Zenon DEF PayloadLen
  <2> QED
    BY <2>2, <2>3
<1>21. Len(more) = 8 => SubSeq(hd, 3, 6) = SubSeq(more, 1, 4) /\ SubSeq(hd, 7, 10) = SubSeq(more, 5, 8)
  <2> SUFFICES ASSUME Len(more) = 8
               PROVE  SubSeq(hd, 3, 6) = SubSeq(more, 1, 4) /\ SubSeq(hd, 7, 10) = SubSeq(more, 5, 8)
    OBVIOUS
  <2>1. 4 \in 0..Len(more) /\ Len(more) - 4 = 4
    OBVIOUS
  <2>2. PICK lo \in Seq(Nat), hi \in Seq(Nat) :
          /\ lo = SubSeq(more, 1, 4) /\ hi = SubSeq(more, 4 + 1, Len(more))
          /\ Len(lo) = 4 /\ Len(hi) = 4 /\ more = lo \o hi
    <3>1. /\ SubSeq(more, 1, 4) \in Seq(Nat) /\ SubSeq(more, 4 + 1, Len(more)) \in Seq(Nat)
          /\ Len(SubSeq(more, 1, 4)) = 4 /\ Len(SubSeq(more, 4 + 1, Len(more))) = Len(more) - 4
          /\ more = SubSeq(more, 1, 4) \o SubSeq(more, 4 + 1, Len(more))
      BY <2>1, Cut
    <3> QED
      BY <2>1, <3>1
  <2>3. \A i \in 1..8 : more[i] = IF i <= 4 THEN lo[i] ELSE hi[i - 4]
    <3>1. \A i \in 1..(Len(lo) + Len(hi)) : (lo \o hi)[i] = IF i <= Len(lo) THEN lo[i] ELSE hi[i - Len(lo)]
      BY <2>2, ConcatProperties, SMTT(60)
    <3>2. \A i \in 1..8 : (lo \o hi)[i] = IF i <= 4 THEN lo[i] ELSE hi[i - 4]
      <4>1. Len(lo) + Len(hi) = 8
        BY <2>2
      <4> QED
        BY <2>2, <3>1, <4>1
    <3> QED
      BY <2>2, <3>2, Zenon
  <2>4. \A i \in 1..4 : hd[2 + i] = lo[i] /\ hd[6 + i] = hi[i]
    <3>1. ASSUME NEW i \in 1..4 PROVE hd[2 + i] = lo[i]
      <4>1. i \in 1..8 /\ i \in 1..Len(more) /\ i <= 4
        OBVIOUS
      <4>2. hd[2 + i] = more[i]
        BY <1>11, <4>1
      <4> QED
        BY <2>3, <4>1, <4>2
    <3>2. ASSUME NEW i \in 1..4 PROVE hd[6 + i] = hi[i]
      <4>1. PICK j \in 1..8 : j = i + 4
        OBVIOUS
      <4>2. j \in 1..Len(more) /\ ~(j <= 4)
        BY <4>1
      <4>4. hd[2 + j] = more[j]
        BY <1>11, <4>2
      <4>5. more[j] = hi[j - 4]
        BY <2>3, <4>2
      <4>3. 2 + j = 6 + i /\ j - 4 = i
        BY <4>1
      <4> QED
        BY <4>3, <4>4, <4>5
    <3> QED
      BY <3>1, <3>2
  <2>5. lo \in Seq(Byte) /\ hi \in Seq(Byte)
    BY <2>2, SeqMonotonic DEF Byte
  <2>6. SubSeq(hd, 2 + 1, 6) = lo
    BY <1>8, <1>9, <2>2, <2>4, <2>5, Window
  <2>7. SubSeq(hd, 6 + 1, 10) = hi
    BY <1>8, <1>9, <2>2, <2>4, <2>5, Window
  <2> QED
    BY <2>2, <2>6, <2>7
<1>22. Len(more) = 8 => PayloadLen(hd) = IF SubSeq(more, 1, 4) # <<0, 0, 0, 0>> THEN TooBig
                                         ELSE Number(SubSeq(more, 5, 8))
  <2> SUFFICES ASSUME Len(more) = 8
               PROVE  PayloadLen(hd) = IF SubSeq(more, 1, 4) # <<0, 0, 0, 0>> THEN TooBig
                                       ELSE Number(SubSeq(more, 5, 8))
    OBVIOUS
  <2>1. LengthBytes(hd) = 8 /\ 8 # 2 /\ 8 # 0
    BY <1>13
  <2> QED
    BY <1>21, <2>1 DEF PayloadLen
<1> QED
  BY <1>8, <1>9, <1>10, <1>13, <1>14, <1>17, <1>18, <1>19, <1>20, <1>22 DEF Shows

(* What a sequence that begins with x shows of the header in x.            *)
LEMMA PrefixFields ==
    ASSUME NEW x \in Seq(Byte), NEW t \in Seq(Byte), NEW y, Joins(x, t, y), Len(x) >= 2
    PROVE  /\ y[1] = x[1] /\ y[2] = x[2]
           /\ LengthBytes(y) = LengthBytes(x) /\ RfcStart(y) = RfcStart(x)
           /\ Len(x) >= 2 + LengthBytes(x) => PayloadLen(y) = PayloadLen(x) /\ RfcSize(y) = RfcSize(x)
           /\ Len(x) >= 2 + LengthBytes(x) + (IF x[2].mask THEN 4 ELSE 0) => MaskKey(y) = MaskKey(x)
<1>1. Len(x) \in Nat
  BY LenProperties
<1>2. \A i \in 1..Len(x) : y[i] = x[i]
  BY FirstPart DEF Joins
<1>3. \A m \in 1..(Len(x) + 1), n \in 0..Len(x) : SubSeq(y, m, n) = SubSeq(x, m, n)
  BY FirstPart DEF Joins
<1>4. 1 \in 1..Len(x) /\ 2 \in 1..Len(x) /\ 3 \in 1..(Len(x) + 1)
  BY <1>1
<1>5. y[1] = x[1] /\ y[2] = x[2]
  BY <1>2, <1>4
<1>6. LengthBytes(y) = LengthBytes(x) /\ RfcExtra(y) = LengthBytes(x) /\ RfcExtra(x) = LengthBytes(x)
  BY <1>5 DEF LengthBytes, RfcExtra
<1>7. LengthBytes(x) = 0 \/ LengthBytes(x) = 2 \/ LengthBytes(x) = 8
  BY DEF LengthBytes
<1>8. RfcStart(y) = RfcStart(x)
  BY <1>5, <1>6 DEF RfcStart
<1>9. ASSUME Len(x) >= 2 + LengthBytes(x)
      PROVE  PayloadLen(y) = PayloadLen(x) /\ RfcSize(y) = RfcSize(x)
  <2>1. CASE LengthBytes(x) = 0
    <3>0. LengthBytes(y) = 0 /\ 0 # 2 /\ 0 # 8
      BY <1>6, <2>1
    <3>1. PayloadLen(y) = y[2].len /\ PayloadLen(x) = x[2].len
      BY ONLY <2>1, <3>0, Zenon DEF PayloadLen
    <3>2. RfcSize(y) = y[2].len /\ RfcSize(x) = x[2].len
      BY <1>6, <2>1 DEF RfcSize
    <3> QED
      BY <1>5, <3>1, <3>2
  <2>2. CASE LengthBytes(x) = 2
    <3>1. LengthBytes(y) = 2 /\ 2 # 0
      BY <1>6, <2>2
    <3>2. PayloadLen(y) = Number(SubSeq(y, 3, 4)) /\ PayloadLen(x) = Number(SubSeq(x, 3, 4))
      BY ONLY <2>2, <3>1, 2 # 8, Zenon DEF PayloadLen
    <3>3. 4 \in 0..Len(x)
      BY <1>1, <1>9, <2>2
    <3>4. SubSeq(y, 3, 4) = SubSeq(x, 3, 4)
      BY <1>3, <1>4, <3>3
    <3>5. RfcSize(y) = Number(SubSeq(y, 3, 4)) /\ RfcSize(x) = Number(SubSeq(x, 3, 4))
      <4>1. 2 + 2 = 4
        OBVIOUS
      <4> QED
        BY ONLY <1>6, <2>2, <3>1, <4>1, Zenon DEF RfcSize
    <3> QED
      BY <3>2, <3>4, <3>5
  <2>3. CASE LengthBytes(x) = 8
    <3>1. LengthBytes(y) = 8 /\ 8 # 0 /\ 8 # 2
      BY <1>6, <2>3
    <3>2. /\ PayloadLen(y) = IF SubSeq(y, 3, 6) # <<0, 0, 0, 0>> THEN TooBig ELSE Number(SubSeq(y, 7, 10))
          /\ PayloadLen(x) = IF SubSeq(x, 3, 6) # <<0, 0, 0, 0>> THEN TooBig ELSE Number(SubSeq(x, 7, 10))
      BY ONLY <2>3, <3>1, Zenon DEF PayloadLen
    <3>3. 6 \in 0..Len(x) /\ 10 \in 0..Len(x) /\ 7 \in 1..(Len(x) + 1)
      BY <1>1, <1>9, <2>3
    <3>4. /\ SubSeq(y, 3, 6) = SubSeq(x, 3, 6) /\ SubSeq(y, 7, 10) = SubSeq(x, 7, 10)
          /\ SubSeq(y, 3, 10) = SubSeq(x, 3, 10)
      BY <1>3, <1>4, <3>3
    <3>5. RfcSize(y) = Number(SubSeq(y, 3, 10)) /\ RfcSize(x) = Number(SubSeq(x, 3, 10))
      <4>1. 2 + 8 = 10 /\ RfcExtra(y) = 8 /\ RfcExtra(x) = 8
        BY <1>6, <2>3
      <4> QED
        BY ONLY <3>1, <4>1, Zenon DEF RfcSize
    <3>6. PayloadLen(y) = PayloadLen(x)
      <4>1. PICK lo, hi : lo = SubSeq(x, 3, 6) /\ hi = SubSeq(x, 7, 10)
        OBVIOUS
      <4>2. SubSeq(y, 3, 6) = lo /\ SubSeq(y, 7, 10) = hi
        BY ONLY <3>4, <4>1, Zenon
      <4>3. PICK v : v = IF lo # <<0, 0, 0, 0>> THEN TooBig ELSE Number(hi)
        OBVIOUS
      <4>4. PayloadLen(y) = v
        BY ONLY <3>2, <4>2, <4>3, Zenon
      <4>5. PayloadLen(x) = v
        BY ONLY <3>2, <4>1, <4>3, Zenon
      <4> QED
        BY ONLY <4>4, <4>5, Zenon
    <3>7. RfcSize(y) = RfcSize(x)
      BY ONLY <3>4, <3>5, Zenon
    <3> QED
      BY ONLY <3>6, <3>7, Zenon
  <2> QED
    BY <1>7, <2>1, <2>2, <2>3
<1>10. ASSUME Len(x) >= 2 + LengthBytes(x) + (IF x[2].mask THEN 4 ELSE 0)
       PROVE  MaskKey(y) = MaskKey(x)
  <2>1. CASE ~x[2].mask
    <3>1. MaskKey(y) = NoKey /\ MaskKey(x) = NoKey
      BY ONLY <1>5, <2>1, Zenon DEF MaskKey
    <3> QED
      BY <3>1
  <2>2. CASE x[2].mask
    <3>1. PICK n \in Nat : n = LengthBytes(x)
      BY <1>7
    <3>2. 3 + n \in 1..(Len(x) + 1) /\ 6 + n \in 0..Len(x)
      BY <1>1, <1>10, <2>2, <3>1
    <3>3. SubSeq(y, 3 + n, 6 + n) = SubSeq(x, 3 + n, 6 + n)
      BY <1>3, <3>2
    <3>4. MaskKey(y) = SubSeq(y, 3 + n, 6 + n) /\ MaskKey(x) = SubSeq(x, 3 + n, 6 + n)
      BY ONLY <1>5, <1>6, <2>2, <3>1, Zenon DEF MaskKey
    <3> QED
      BY <3>3, <3>4
  <2> QED
    BY <2>1, <2>2
<1> QED
  BY <1>5, <1>6, <1>8, <1>9, <1>10

-----------------------------------------------------------------------------
(* Masking. *)

(* Mask keys.                                                              *)
Key4 == [1..4 -> 0..1]

(* The key of zeros is a key.                                              *)
LEMMA NoKeyTyped == NoKey \in Key4 /\ \A i \in 1..4 : NoKey[i] = 0
BY DEF NoKey, Key4

(* XOR keeps the length and the kind of the bytes, and undoes itself.      *)
LEMMA MaskTwice ==
    ASSUME NEW bits \in Seq(0..1), NEW key \in Key4
    PROVE  /\ Masked(bits, key) \in Seq(0..1) /\ Len(Masked(bits, key)) = Len(bits)
           /\ Masked(Masked(bits, key), key) = bits
<1>1. Len(bits) \in Nat /\ DOMAIN bits = 1..Len(bits) /\ \A i \in 1..Len(bits) : bits[i] \in 0..1
  BY LenProperties, ElementOfSeq
<1> DEFINE k(i) == key[((i - 1) % 4) + 1]
<1>2. ASSUME NEW i \in 1..Len(bits)
      PROVE  /\ (bits[i] + k(i)) % 2 \in 0..1
             /\ (((bits[i] + k(i)) % 2) + k(i)) % 2 = bits[i]
  <2>1. PICK j \in Int : j = i - 1
    BY <1>1
  <2>2. (j % 4) + 1 \in 1..4
    BY <2>1
  <2>3. k(i) \in 0..1
    BY <2>1, <2>2 DEF Key4
  <2>4. PICK a \in 0..1, b \in 0..1 : a = bits[i] /\ b = k(i)
    BY <1>1, <2>3
  <2>5. (a + b) % 2 \in 0..1 /\ (((a + b) % 2) + b) % 2 = a
    BY ONLY a \in 0..1, b \in 0..1
  <2> QED
    BY <2>4, <2>5
<1> DEFINE m == [i \in 1..Len(bits) |-> (bits[i] + k(i)) % 2]
<1>3. Masked(bits, key) = m
  BY <1>1 DEF Masked
<1>4. m \in Seq(0..1) /\ Len(m) = Len(bits) /\ DOMAIN m = 1..Len(bits)
  <2>1. m \in [1..Len(bits) -> 0..1]
    BY <1>2
  <2> HIDE DEF m, k
  <2> QED
    BY <1>1, <2>1, SeqDef, LenProperties
<1>5. \A i \in 1..Len(bits) : m[i] = (bits[i] + k(i)) % 2
  OBVIOUS
<1> DEFINE p == [i \in 1..Len(bits) |-> (m[i] + k(i)) % 2]
<1>6. Masked(m, key) = p
  <2> HIDE DEF m
  <2> QED
    BY <1>4 DEF Masked
<1>7. p = [i \in 1..Len(bits) |-> bits[i]]
  <2> HIDE DEF m, k
  <2> QED
    BY <1>2, <1>5
<1>8. [i \in 1..Len(bits) |-> bits[i]] = bits
  BY <1>1
<1> QED
  BY <1>3, <1>4, <1>6, <1>7, <1>8

(* The key of zeros changes nothing.                                       *)
LEMMA MaskNone == ASSUME NEW bits \in Seq(0..1) PROVE Masked(bits, NoKey) = bits
<1>1. Len(bits) \in Nat /\ DOMAIN bits = 1..Len(bits) /\ \A i \in 1..Len(bits) : bits[i] \in 0..1
  BY LenProperties, ElementOfSeq
<1>2. ASSUME NEW i \in 1..Len(bits) PROVE (bits[i] + NoKey[((i - 1) % 4) + 1]) % 2 = bits[i]
  <2>1. PICK j \in Int : j = i - 1
    BY <1>1
  <2>2. (j % 4) + 1 \in 1..4
    BY <2>1
  <2>3. NoKey[((i - 1) % 4) + 1] = 0
    BY <2>1, <2>2, NoKeyTyped
  <2>4. PICK a \in 0..1 : a = bits[i]
    BY <1>1
  <2>5. (a + 0) % 2 = a
    BY ONLY a \in 0..1
  <2> QED
    BY <2>3, <2>4, <2>5
<1>3. Masked(bits, NoKey) = [i \in 1..Len(bits) |-> bits[i]]
  BY <1>1, <1>2 DEF Masked
<1> QED
  BY <1>1, <1>3

(* The payloads of the model are bits. *)
LEMMA ContentTyped == ASSUME NEW n \in Nat PROVE Content(n) \in Seq(0..1) /\ Len(Content(n)) = n
<1>1. Content(n) \in [1..n -> 0..1]
  BY DEF Content
<1> QED
  BY <1>1, SeqDef, LenProperties

-----------------------------------------------------------------------------
(* Frames. *)

(* A whole header, and what its message is with a payload.                 *)
Headers ==
    {hd \in Seq(Byte) :
       /\ Len(hd) \in 2..14 /\ hd[1] \in First /\ hd[2] \in Second
       /\ Len(hd) = RfcStart(hd) /\ MaskKey(hd) \in Key4}
Read(hd, body) == [fin |-> hd[1].fin, op |-> hd[1].op, data |-> Masked(body, MaskKey(hd))]

(* Frames as RFC 6455 has them, and as the client reads them: a payload    *)
(* that is too long does not matter.                                       *)
RfcFrames ==
    {p \in Frames : \E hd \in Headers, body \in Seq(0..1) :
       Joins(hd, body, p[1]) /\ RfcSize(hd) = Len(body) /\ p[2] = Read(hd, body)}
ClientFrames ==
    {p \in Frames : \E hd \in Headers, body \in Seq(0..1) :
       /\ Joins(hd, body, p[1]) /\ PayloadLen(hd) \in Nat
       /\ PayloadLen(hd) <= MaxData => Len(body) = PayloadLen(hd) /\ p[2] = Read(hd, body)}

(* A key is a sequence of four bits, ...                                   *)
LEMMA KeySeq == ASSUME NEW key \in Key4 PROVE key \in Seq(0..1) /\ Len(key) = 4
<1>1. key \in [1..4 -> 0..1]
  BY DEF Key4
<1>2. key \in Seq(0..1)
  <2>1. \E n \in Nat : key \in [1..n -> 0..1]
    BY <1>1
  <2> QED
    BY ONLY <2>1, SeqDef, Zenon
<1>3. Len(key) \in Nat /\ 1..Len(key) = 1..4
  BY <1>1, <1>2, LenProperties
<1>4. PICK l \in Nat : l = Len(key) /\ 1..l = 1..4
  BY <1>3
<1>5. 4 \in 1..l /\ 5 \notin 1..l
  BY <1>4
<1>6. l = 4
  BY ONLY <1>5, l \in Nat
<1> QED
  BY <1>2, <1>4, <1>6

(* ... and four bits are a key.                                            *)
LEMMA SeqKey == ASSUME NEW key \in Seq(0..1), Len(key) = 4 PROVE key \in Key4
<1>1. key \in [1..Len(key) -> 0..1]
  BY LenProperties
<1> QED
  BY <1>1 DEF Key4

(* The four digits that a length of eight ends with, and begins with.      *)
LEMMA LowDigits ==
    ASSUME NEW n \in Nat
    PROVE  /\ SubSeq(Bytes(n, 8), 5, 8) = Bytes(n, 4)
           /\ SubSeq(Bytes(n, 8), 1, 4) = <<0, 0, 0, 0>> => \A i \in 4..7 : Digit(n, i) = 0
           /\ (\A i \in 4..7 : Digit(n, i) = 0) => Bytes(n, 8) = <<0, 0, 0, 0>> \o Bytes(n, 4)
<1>1. PICK b \in Seq(Nat) : b = Bytes(n, 8)
  BY BytesTyped
<1>2. PICK t \in Seq(Nat) : t = Bytes(n, 4)
  BY BytesTyped
<1>3. Len(b) = 8 /\ \A i \in 1..8 : b[i] = Digit(n, 8 - i)
  BY <1>1, BytesTyped
<1>4. Len(t) = 4 /\ \A i \in 1..4 : t[i] = Digit(n, 4 - i)
  BY <1>2, BytesTyped
<1>5. ASSUME NEW i \in 1..4 PROVE b[4 + i] = t[i]
  <2>1. PICK j \in 1..8 : j = 4 + i
    OBVIOUS
  <2>2. b[j] = Digit(n, 8 - j) /\ t[i] = Digit(n, 4 - i) /\ 8 - j = 4 - i
    BY <1>3, <1>4, <2>1
  <2> QED
    BY <2>1, <2>2
<1>6. SubSeq(b, 5, 8) = t
  <2>1. 4 \in Nat /\ 8 \in Nat /\ 8 = 4 + Len(t) /\ 8 <= Len(b) /\ \A i \in 1..Len(t) : b[4 + i] = t[i]
    BY <1>3, <1>4, <1>5
  <2>2. SubSeq(b, 4 + 1, 8) = t
    BY ONLY <2>1, b \in Seq(Nat), t \in Seq(Nat), Window
  <2> QED
    BY <2>2
<1>7. ASSUME SubSeq(b, 1, 4) = <<0, 0, 0, 0>>, NEW i \in 4..7 PROVE Digit(n, i) = 0
  <2>1. PICK j \in 1..4 : j = 8 - i
    OBVIOUS
  <2>2. 4 \in 0..Len(b)
    BY <1>3
  <2>3. PICK z \in Seq(Nat), y \in Seq(Nat) : z = SubSeq(b, 1, 4) /\ Len(z) = 4 /\ b = z \o y
    <3>1. /\ SubSeq(b, 1, 4) \in Seq(Nat) /\ SubSeq(b, 4 + 1, Len(b)) \in Seq(Nat)
          /\ Len(SubSeq(b, 1, 4)) = 4 /\ b = SubSeq(b, 1, 4) \o SubSeq(b, 4 + 1, Len(b))
      BY <2>2, Cut, SMTT(60)
    <3> QED
      BY <3>1
  <2>4. j \in 1..Len(z) /\ (z \o y)[j] = z[j]
    <3>1. j \in 1..Len(z)
      BY <2>3
    <3> QED
      BY ONLY <3>1, z \in Seq(Nat), y \in Seq(Nat), FirstPart
  <2>5. z = <<0, 0, 0, 0>>
    BY <1>7, <2>3
  <2>6. z[j] = 0
    BY ONLY <2>5, j \in 1..4
  <2>7. j \in 1..8 /\ 8 - j = i
    BY <2>1
  <2> QED
    BY <1>3, <2>3, <2>4, <2>6, <2>7
<1>8. ASSUME \A i \in 4..7 : Digit(n, i) = 0 PROVE b = <<0, 0, 0, 0>> \o t
  <2>1. PICK z \in Seq(Nat) : z = <<0, 0, 0, 0>>
    <3>1. <<0, 0, 0, 0>> \in Seq(Nat)
      OBVIOUS
    <3> QED
      BY <3>1
  <2>2. Len(z) = 4 /\ \A i \in 1..4 : z[i] = 0
    BY <2>1
  <2>3. PICK c \in Seq(Nat) : c = z \o t
    BY ConcatProperties
  <2>4. Len(c) = 8 /\ \A i \in 1..8 : c[i] = IF i <= 4 THEN z[i] ELSE t[i - 4]
    <3>1. /\ Len(z \o t) = Len(z) + Len(t)
          /\ \A i \in 1..(Len(z) + Len(t)) : (z \o t)[i] = IF i <= Len(z) THEN z[i] ELSE t[i - Len(z)]
      BY ONLY z \in Seq(Nat), t \in Seq(Nat), ConcatProperties
    <3>2. Len(z) + Len(t) = 8
      BY <1>4, <2>2
    <3> QED
      BY ONLY <2>2, <2>3, <3>1, <3>2
  <2>5. ASSUME NEW i \in 1..8 PROVE b[i] = c[i]
    <3>1. CASE i <= 4
      <4>1. 8 - i \in 4..7 /\ i \in 1..4
        BY <3>1
      <4> QED
        <5>1. b[i] = Digit(n, 8 - i) /\ c[i] = z[i]
          BY <1>3, <2>4, <3>1
        <5>2. Digit(n, 8 - i) = 0 /\ z[i] = 0
          BY <1>8, <2>2, <4>1
        <5> QED
          BY <5>1, <5>2
    <3>2. CASE ~(i <= 4)
      <4>1. PICK j \in 1..4 : j = i - 4
        BY <3>2
      <4>2. b[4 + j] = t[j]
        BY <1>5
      <4>4. 4 + j = i
        BY <4>1
      <4>3. c[i] = t[i - 4]
        BY <2>4, <3>2
      <4> QED
        BY <4>1, <4>2, <4>3, <4>4
    <3> QED
      BY <3>1, <3>2
  <2>6. b = c
    BY <1>3, <2>4, <2>5, SeqEqual
  <2> QED
    BY <2>1, <2>3, <2>6
<1> QED
  BY <1>1, <1>2, <1>6, <1>7, <1>8

(* The three forms of a length, and what comes out of them.                *)
Form(n, field, more) ==
    \/ field = n /\ n < Esc /\ more = <<>>
    \/ field = Esc /\ more = Bytes(n, 2) /\ Shifted(n, 2) = 0
    \/ field = Esc + 1 /\ more = Bytes(n, 8) /\ Shifted(n, 8) = 0

(* The length of a header.                                                 *)
Sized(hd, more, key) == Len(hd) = 2 + Len(more) + Len(key)

(* A header with the length in one of its forms is read as that length by  *)
(* both sides, unless the client takes it for too big.                     *)
LEMMA HeaderOf ==
    ASSUME NEW a \in First, NEW mask \in BOOLEAN, NEW n \in Nat, NEW field, NEW more,
           Form(n, field, more),
           NEW key \in Seq(0..1), Len(key) = IF mask THEN 4 ELSE 0,
           NEW hd, hd = Header(a, [mask |-> mask, len |-> field], more, key)
    PROVE  /\ hd \in Headers /\ hd[1] = a /\ MaskKey(hd) = IF mask THEN key ELSE NoKey
           /\ Sized(hd, more, key)
           /\ RfcSize(hd) = n /\ PayloadLen(hd) \in Nat
           /\ PayloadLen(hd) <= MaxData => PayloadLen(hd) = n
<1>1. Esc \in Nat /\ MaxData \in Nat
  BY FrameAssumption
<1>2. PICK b : b = [mask |-> mask, len |-> field]
  OBVIOUS
<1>3. field \in Nat
  BY <1>1 DEF Form
<1>4. b \in Second /\ b.mask = mask /\ b.len = field
  BY <1>2, <1>3 DEF Second
<1>5. more \in Seq(Nat)
  <2>1. <<>> \in Seq(Nat) /\ Bytes(n, 2) \in Seq(Nat) /\ Bytes(n, 8) \in Seq(Nat)
    BY EmptySeq, BytesTyped
  <2> QED
    BY <2>1, Zenon DEF Form
<1>6. /\ field = n /\ n < Esc => Len(more) = 0
      /\ field = Esc => Len(more) = 2 /\ more = Bytes(n, 2) /\ Shifted(n, 2) = 0
      /\ field = Esc + 1 => Len(more) = 8 /\ more = Bytes(n, 8) /\ Shifted(n, 8) = 0
  <2>1. Len(Bytes(n, 2)) = 2 /\ Len(Bytes(n, 8)) = 8
    BY BytesTyped
  <2>2. PICK l0, l2, l8 : l0 = Len(<<>>) /\ l2 = Bytes(n, 2) /\ l8 = Bytes(n, 8)
    OBVIOUS
  <2>3. Len(<<>>) = 0
    BY EmptySeq
  <2>4. CASE field = n /\ n < Esc /\ more = <<>>
    BY <1>1, <2>3, <2>4
  <2>5. CASE field = Esc /\ more = Bytes(n, 2) /\ Shifted(n, 2) = 0
    BY <1>1, <2>1, <2>5
  <2>6. CASE field = Esc + 1 /\ more = Bytes(n, 8) /\ Shifted(n, 8) = 0
    BY <1>1, <2>1, <2>6
  <2> QED
    BY <2>4, <2>5, <2>6 DEF Form
<1>7. field = Esc \/ field = Esc + 1 \/ (field = n /\ n < Esc)
  BY DEF Form
<1>8. Len(more) = ExtraOf(b)
  BY <1>1, <1>4, <1>6, <1>7 DEF ExtraOf
<1>9. key \in Seq(Nat)
  BY SeqMonotonic
<1>10. /\ hd \in Seq(Byte) /\ hd[1] = a /\ hd[2] = b
       /\ Len(hd) = 2 + Len(more) + Len(key) /\ Len(hd) \in 2..14
       /\ RfcStart(hd) = Len(hd)
       /\ MaskKey(hd) = IF b.mask THEN key ELSE NoKey
       /\ RfcSize(hd) = IF Len(more) = 0 THEN b.len ELSE Number(more)
       /\ Len(more) = 0 => PayloadLen(hd) = b.len
       /\ Len(more) = 2 => PayloadLen(hd) = Number(more)
       /\ Len(more) = 8 => PayloadLen(hd) = IF SubSeq(more, 1, 4) # <<0, 0, 0, 0>> THEN TooBig
                                            ELSE Number(SubSeq(more, 5, 8))
  <2>1. Len(key) = IF b.mask THEN 4 ELSE 0
    BY <1>4
  <2>2. hd = Header(a, b, more, key)
    BY <1>2
  <2>3. b \in Second
    BY <1>4
  <2>4. Shows(hd, a, b, more, key)
    BY ONLY <1>5, <1>8, <1>9, <2>1, <2>2, <2>3, a \in First, HeaderFields
  <2> QED
    BY ONLY <2>4 DEF Shows
<1>11. hd \in Headers
  <2>1. MaskKey(hd) \in Key4
    BY <1>4, <1>10, NoKeyTyped, SeqKey
  <2> QED
    BY <1>4, <1>10, <2>1 DEF Headers
<1>12. RfcSize(hd) = n /\ PayloadLen(hd) \in Nat /\ (PayloadLen(hd) <= MaxData => PayloadLen(hd) = n)
  <2>1. CASE field = n /\ n < Esc
    BY <1>4, <1>6, <1>10, <2>1
  <2>2. CASE field = Esc
    <3>1. Number(more) = n /\ Len(more) = 2
      BY <1>6, <2>2, NumberOfBytes
    <3> QED
      BY <1>10, <3>1
  <2>3. CASE field = Esc + 1
    <3>1. Number(more) = n /\ Len(more) = 8 /\ more = Bytes(n, 8) /\ Shifted(n, 8) = 0
      BY <1>6, <2>3, NumberOfBytes
    <3>2. RfcSize(hd) = n
      BY <1>10, <3>1
    <3>3. CASE SubSeq(more, 1, 4) = <<0, 0, 0, 0>>
      <4>1. Shifted(n, 4) = 0
        BY <3>1, <3>3, LowDigits, UpperDigits
      <4>2. Number(SubSeq(more, 5, 8)) = n
        <5>1. SubSeq(more, 5, 8) = Bytes(n, 4)
          BY <3>1, LowDigits
        <5>2. Number(Bytes(n, 4)) = n
          BY <4>1, NumberOfBytes
        <5> QED
          BY <5>1, <5>2
      <4>3. PayloadLen(hd) = Number(SubSeq(more, 5, 8))
        BY <1>10, <3>1, <3>3
      <4> QED
        BY <3>2, <4>2, <4>3
    <3>4. CASE SubSeq(more, 1, 4) # <<0, 0, 0, 0>>
      <4>1. PayloadLen(hd) = TooBig
        BY <1>10, <3>1, <3>4
      <4> QED
        BY <1>1, <3>2, <4>1 DEF TooBig
    <3> QED
      BY <3>3, <3>4
  <2> QED
    BY <1>7, <2>1, <2>2, <2>3
<1> QED
  BY <1>4, <1>10, <1>11, <1>12 DEF Sized

(* A header and the payload it announces are a frame to both sides.        *)
LEMMA FrameMade ==
    ASSUME NEW hd \in Headers, NEW body \in Seq(0..1), hd[1].fin \in BOOLEAN, hd[1].op \in Opcodes,
           RfcSize(hd) = Len(body), PayloadLen(hd) \in Nat,
           PayloadLen(hd) <= MaxData => PayloadLen(hd) = Len(body),
           NEW e, e = hd \o body
    PROVE  <<e, Read(hd, body)>> \in RfcFrames /\ <<e, Read(hd, body)>> \in ClientFrames
<1>1. hd \in Seq(Byte) /\ MaskKey(hd) \in Key4
  BY DEF Headers
<1>2. Masked(body, MaskKey(hd)) \in Seq(0..1)
  BY <1>1, MaskTwice
<1>3. Read(hd, body) \in Message
  BY <1>2 DEF Read, Message
<1>4. body \in Seq(Byte)
  <2>1. 0..1 \subseteq Byte
    BY DEF Byte
  <2> QED
    BY <2>1, SeqMonotonic
<1>5. e \in Seq(Byte)
  BY <1>1, <1>4, ConcatProperties
<1>6. PICK m \in Message : m = Read(hd, body)
  BY <1>3
<1>7. PICK p \in Frames : p = <<e, m>>
  BY <1>5 DEF Frames
<1>8. p[1] = e /\ p[2] = m
  BY <1>7
<1>9. Joins(hd, body, p[1])
  BY <1>8 DEF Joins
<1>10. p \in RfcFrames
  BY <1>6, <1>8, <1>9 DEF RfcFrames
<1>11. p \in ClientFrames
  BY <1>6, <1>8, <1>9 DEF ClientFrames
<1> QED
  BY <1>6, <1>7, <1>10, <1>11

(* What the server sends. *)
SentOf(f) == [fin |-> f.fin, op |-> f.op, data |-> Content(f.len)]
(* The frames that the server of the model sends.                          *)
HugeBytes == <<[fin |-> TRUE, op |-> "binary"], [mask |-> FALSE, len |-> Esc + 1],
               0, 0, 0, 1, 0, 0, 0, 1>>
HugeMessage == [fin |-> TRUE, op |-> "huge", data |-> <<>>]
ServerFrames == {<<RfcEncode(f), SentOf(f)>> : f \in Incoming} \cup {<<HugeBytes, HugeMessage>>}

(* What the server encodes, both sides read as what it meant.              *)
LEMMA IncomingFrame ==
    ASSUME NEW f \in Incoming
    PROVE  <<RfcEncode(f), SentOf(f)>> \in RfcFrames /\ <<RfcEncode(f), SentOf(f)>> \in ClientFrames
<1>1. /\ f.op \in Opcodes /\ f.len \in Nat /\ f.fin \in BOOLEAN /\ f.mask \in BOOLEAN
      /\ f.key \in Key4 /\ Shifted(f.len, 8) = 0
  BY FrameAssumption DEF Key4
<1>2. PICK a \in First : a = [fin |-> f.fin, op |-> f.op]
  BY <1>1 DEF First
<1>3. PICK field, more : field = RfcLength(f.len).field /\ more = RfcLength(f.len).more
  OBVIOUS
<1>4. Form(f.len, field, more) /\ more \in Seq(Nat) /\ field \in Nat
  <2>0. Esc \in Nat
    BY FrameAssumption
  <2>1. CASE f.len < Esc
    <3>1. field = f.len /\ more = <<>>
      BY <1>3, <2>1 DEF RfcLength
    <3> QED
      BY <1>1, <2>1, <3>1, EmptySeq DEF Form
  <2>2. CASE ~(f.len < Esc) /\ f.len < Base * Base
    <3>1. field = Esc /\ more = Bytes(f.len, 2)
      BY <1>3, <2>2 DEF RfcLength
    <3>2. Shifted(f.len, 2) = 0
      BY <1>1, <2>2, TwoDigits
    <3> QED
      BY <1>1, <2>0, <3>1, <3>2, BytesTyped DEF Form
  <2>3. CASE ~(f.len < Esc) /\ ~(f.len < Base * Base)
    <3>1. field = Esc + 1 /\ more = Bytes(f.len, 8)
      BY <1>3, <2>3 DEF RfcLength
    <3>2. Bytes(f.len, 8) \in Seq(Nat)
      BY <1>1, BytesTyped
    <3>3. Form(f.len, field, more)
      BY <1>1, <3>1, Zenon DEF Form
    <3> QED
      BY <2>0, <3>1, <3>2, <3>3
  <2> QED
    BY <2>1, <2>2, <2>3
<1>5. PICK key \in Seq(0..1) : key = IF f.mask THEN f.key ELSE <<>>
  BY <1>1, KeySeq, EmptySeq
<1>6. Len(key) = IF f.mask THEN 4 ELSE 0
  BY <1>1, <1>5, KeySeq, EmptySeq
<1>7. PICK hd : hd = Header(a, [mask |-> f.mask, len |-> field], more, key)
  OBVIOUS
<1>8. /\ hd \in Headers /\ hd[1] = a /\ MaskKey(hd) = IF f.mask THEN key ELSE NoKey
      /\ RfcSize(hd) = f.len /\ PayloadLen(hd) \in Nat
      /\ PayloadLen(hd) <= MaxData => PayloadLen(hd) = f.len
  BY <1>1, <1>4, <1>6, <1>7, HeaderOf
<1>9. PICK bits \in Seq(0..1) : bits = Content(f.len) /\ Len(bits) = f.len
  BY <1>1, ContentTyped
<1>10. PICK k \in Key4 : k = MaskKey(hd)
  BY <1>8 DEF Headers
<1>11. PICK body \in Seq(0..1) : body = Masked(bits, k) /\ Len(body) = f.len /\ Masked(body, k) = bits
  BY <1>9, <1>10, MaskTwice
<1>12. PICK e : e = hd \o body
  OBVIOUS
<1>13. <<e, Read(hd, body)>> \in RfcFrames /\ <<e, Read(hd, body)>> \in ClientFrames
  <2>1. hd[1].fin \in BOOLEAN /\ hd[1].op \in Opcodes
    BY <1>1, <1>2, <1>8
  <2>2. RfcSize(hd) = Len(body) /\ (PayloadLen(hd) <= MaxData => PayloadLen(hd) = Len(body))
    BY <1>8, <1>11
  <2> QED
    BY <1>8, <1>12, <2>1, <2>2, FrameMade
<1>14. Read(hd, body) = SentOf(f)
  BY <1>2, <1>8, <1>9, <1>10, <1>11 DEF Read, SentOf
<1>15. e = RfcEncode(f)
  <2>1. PICK b : b = [mask |-> f.mask, len |-> field]
    OBVIOUS
  <2>2. b \in Second
    BY <1>1, <1>4, <2>1 DEF Second
  <2>3. PICK ab \in Seq(Byte) : ab = <<a, b>>
    <3>1. <<a, b>> \in Seq(Byte)
      BY <2>2 DEF Byte
    <3> QED
      BY <3>1
  <2>4. more \in Seq(Byte) /\ key \in Seq(Byte) /\ body \in Seq(Byte)
    <3>1. Nat \subseteq Byte /\ 0..1 \subseteq Byte
      BY DEF Byte
    <3> QED
      BY <1>4, <3>1, SeqMonotonic
  <2>5. PICK pre \in Seq(Byte) : pre = ab \o more
    BY <2>4, ConcatProperties
  <2>6. hd = pre \o key
    BY <1>7, <2>1, <2>3, <2>5 DEF Header
  <2>7. (pre \o key) \o body = pre \o (key \o body)
    BY <2>4, SMTT(60)
  <2>8. RfcEncode(f) = pre \o (IF f.mask THEN f.key \o Masked(Content(f.len), f.key) ELSE Content(f.len))
    BY <1>2, <1>3, <2>1, <2>3, <2>5 DEF RfcEncode
  <2>9. CASE f.mask
    <3>1. key = f.key /\ k = key
      BY <1>5, <1>8, <1>10, <2>9
    <3>2. Masked(Content(f.len), f.key) = body
      BY <1>9, <1>11, <3>1
    <3>3. RfcEncode(f) = pre \o (key \o body)
      BY <2>8, <2>9, <3>1, <3>2
    <3> QED
      BY <1>12, <2>6, <2>7, <3>3
  <2>10. CASE ~f.mask
    <3>1. key = <<>> /\ k = NoKey
      BY <1>5, <1>8, <1>10, <2>10
    <3>2. body = bits
      BY <1>11, <3>1, MaskNone
    <3>3. key \o body = body
      BY <2>4, <3>1, ConcatEmptySeq
    <3>4. RfcEncode(f) = pre \o body
      BY <1>9, <2>8, <2>10, <3>2
    <3> QED
      BY <1>12, <2>6, <2>7, <3>3, <3>4
  <2> QED
    BY <1>1, <2>9, <2>10
<1> QED
  BY <1>13, <1>14, <1>15

(* A frame the client refuses. *)
LEMMA HugeFrame == <<HugeBytes, HugeMessage>> \in ClientFrames
<1>0. Esc \in Nat /\ MaxData \in Nat
  BY FrameAssumption
<1>1. PICK a \in First : a = [fin |-> TRUE, op |-> "binary"]
  <2>1. [fin |-> TRUE, op |-> "binary"] \in First
    BY DEF First, Opcodes
  <2> QED
    BY <2>1
<1>2. PICK b \in Second : b = [mask |-> FALSE, len |-> Esc + 1]
  <2>1. [mask |-> FALSE, len |-> Esc + 1] \in Second
    BY <1>0 DEF Second
  <2> QED
    BY <2>1
<1>3. b.mask = FALSE /\ b.len = Esc + 1
  BY <1>2
<1>4. PICK more \in Seq(Nat) : more = <<0, 0, 0, 1, 0, 0, 0, 1>>
  <2>1. <<0, 0, 0, 1, 0, 0, 0, 1>> \in Seq(Nat)
    OBVIOUS
  <2> QED
    BY <2>1
<1>5. Len(more) = 8
  BY <1>4
<1>6. PICK key \in Seq(Nat) : key = <<>>
  BY EmptySeq
<1>7. Len(key) = 0
  BY <1>6, EmptySeq
<1>8. PICK hd : hd = Header(a, b, more, key)
  OBVIOUS
<1>9. Shows(hd, a, b, more, key)
  <2>1. Len(more) = ExtraOf(b) /\ Len(key) = IF b.mask THEN 4 ELSE 0
    BY <1>0, <1>3, <1>5, <1>7 DEF ExtraOf
  <2> QED
    BY <1>8, <2>1, HeaderFields
<1>10. hd = HugeBytes
  <2>1. PICK ab \in Seq(Byte) : ab = <<a, b>>
    <3>1. <<a, b>> \in Seq(Byte)
      BY DEF Byte
    <3> QED
      BY <3>1
  <2>2. more \in Seq(Byte)
    BY SeqMonotonic DEF Byte
  <2>3. PICK pre \in Seq(Byte) : pre = ab \o more
    BY <2>2, ConcatProperties
  <2>4. hd = pre \o <<>>
    BY <1>6, <1>8, <2>1, <2>3 DEF Header
  <2>5. hd = pre
    BY <2>4, ConcatEmptySeq
  <2>6. PICK c \in Seq(Byte) : c = <<a, b, 0, 0, 0, 1, 0, 0, 0, 1>>
    <3>1. <<a, b, 0, 0, 0, 1, 0, 0, 0, 1>> \in Seq(Byte)
      BY DEF Byte
    <3> QED
      BY <3>1
  <2>7. Len(ab) = 2 /\ ab[1] = a /\ ab[2] = b
    BY <2>1
  <2>8. Len(pre) = 10 /\ \A i \in 1..10 : pre[i] = IF i <= 2 THEN ab[i] ELSE more[i - 2]
    <3>1. /\ Len(ab \o more) = Len(ab) + Len(more)
          /\ \A i \in 1..(Len(ab) + Len(more)) :
               (ab \o more)[i] = IF i <= Len(ab) THEN ab[i] ELSE more[i - Len(ab)]
      BY ONLY <2>2, ab \in Seq(Byte), ConcatProperties
    <3>2. Len(ab) + Len(more) = 10
      BY <1>5, <2>7
    <3> QED
      BY ONLY <2>3, <2>7, <3>1, <3>2
  <2>9. Len(c) = 10 /\ \A i \in 1..10 : c[i] = IF i <= 2 THEN ab[i] ELSE more[i - 2]
    <3>1. Len(c) = 10 /\ c[1] = a /\ c[2] = b
      BY <2>6
    <3>2. \A i \in 3..10 : c[i] = more[i - 2]
      BY <1>4, <2>6
    <3>3. ASSUME NEW i \in 1..10 PROVE c[i] = IF i <= 2 THEN ab[i] ELSE more[i - 2]
      <4>1. CASE i = 1
        BY <2>7, <3>1, <4>1
      <4>2. CASE i = 2
        BY <2>7, <3>1, <4>2
      <4>3. CASE i \in 3..10
        <5>1. ~(i <= 2)
          BY <4>3
        <5>2. PICK j \in 3..10 : j = i
          BY <4>3
        <5>3. c[j] = more[j - 2]
          BY <3>2
        <5>4. c[i] = more[i - 2]
          BY ONLY <5>2, <5>3
        <5> QED
          BY ONLY <5>1, <5>4, Zenon
      <4> QED
        BY <4>1, <4>2, <4>3
    <3> QED
      BY <3>1, <3>3
  <2>10. pre = c
    <3>1. \A i \in 1..10 : pre[i] = c[i]
      BY <2>8, <2>9, Zenon
    <3>2. Len(pre) = Len(c) /\ \A i \in 1..Len(pre) : pre[i] = c[i]
      BY <2>8, <2>9, <3>1
    <3> QED
      BY ONLY <3>2, pre \in Seq(Byte), c \in Seq(Byte), SeqEqual
  <2> QED
    BY <1>1, <1>2, <2>5, <2>6, <2>10 DEF HugeBytes
<1>11. PayloadLen(hd) = TooBig
  <2>1. SubSeq(more, 1, 4) # <<0, 0, 0, 0>>
    <3> SUFFICES ASSUME SubSeq(more, 1, 4) = <<0, 0, 0, 0>> PROVE FALSE
      OBVIOUS
    <3>1. SubSeq(more, 1, 4)[4] = more[4]
      BY <1>4
    <3>2. more[4] = 1
      BY <1>4
    <3>3. PICK z : z = <<0, 0, 0, 0>>
      OBVIOUS
    <3>4. z[4] = 0
      BY <3>3
    <3>5. SubSeq(more, 1, 4)[4] = 0
      BY <3>3, <3>4
    <3> QED
      BY <3>1, <3>2, <3>5
  <2> QED
    BY <1>5, <1>9, <2>1 DEF Shows
<1>12. hd \in Headers
  <2>1. MaskKey(hd) \in Key4
    BY <1>3, <1>9, NoKeyTyped DEF Shows
  <2> QED
    BY <1>9, <2>1 DEF Shows, Headers
<1>13. hd \in Seq(Byte) /\ <<>> \in Seq(0..1) /\ HugeMessage \in Message
  BY <1>9, EmptySeq DEF Shows, HugeMessage, Message
<1>14. Joins(hd, <<>>, hd)
  BY <1>13, ConcatEmptySeq DEF Joins
<1>15. PICK p \in Frames : p = <<hd, HugeMessage>>
  BY <1>13 DEF Frames
<1>16. p[1] = hd
  BY <1>15
<1>17. PayloadLen(hd) \in Nat /\ ~(PayloadLen(hd) <= MaxData)
  BY <1>0, <1>11 DEF TooBig
<1>18. p \in ClientFrames
  BY <1>12, <1>13, <1>14, <1>16, <1>17 DEF ClientFrames
<1> QED
  BY <1>10, <1>15, <1>18

(* Both sides read the frames of the server, but what is in a huge one.    *)
LEMMA ServerFramesRead ==
    ASSUME NEW p \in ServerFrames
    PROVE  p \in ClientFrames /\ (p[2].op # "huge" => p \in RfcFrames)
<1>1. CASE p = <<HugeBytes, HugeMessage>>
  <2>1. p[2].op = "huge"
    BY <1>1 DEF HugeMessage
  <2> QED
    BY <1>1, <2>1, HugeFrame
<1>2. ASSUME NEW f \in Incoming, p = <<RfcEncode(f), SentOf(f)>> PROVE p \in ClientFrames /\ p \in RfcFrames
  BY <1>2, IncomingFrame
<1> QED
  BY <1>1, <1>2 DEF ServerFrames

-----------------------------------------------------------------------------
(* What the client writes. *)

(* A smaller number stays the smaller one when both are shifted.           *)
LEMMA ShiftedKeepsOrder ==
    ASSUME NEW x \in Nat, NEW y \in Nat, x <= y
    PROVE  \A i \in Nat : Shifted(x, i) <= Shifted(y, i)
<1>1. ASSUME NEW p \in Nat, NEW q \in Nat, p <= q
      PROVE  p \div Base <= q \div Base
  <2>1. Base \in Nat /\ Base > 1
    BY FrameAssumption
  <2>2. PICK u : u = p \div Base
    OBVIOUS
  <2>3. PICK v : v = q \div Base
    OBVIOUS
  <2>4. u \in Nat /\ v \in Nat /\ p >= u * Base /\ q < v * Base + Base
    <3>1. u \in Nat /\ p % Base \in 0..(Base - 1) /\ p = u * Base + (p % Base)
      BY <2>2, Divide
    <3>2. v \in Nat /\ q % Base \in 0..(Base - 1) /\ q = v * Base + (q % Base)
      BY <2>3, Divide
    <3>3. \A k, l \in Nat : k * l \in Nat
      OBVIOUS
    <3>4. u * Base \in Nat /\ v * Base \in Nat
      BY <3>1, <3>2, <3>3, <2>1
    <3> QED
      BY <3>1, <3>2, <3>4, <2>1
  <2>5. ASSUME u > v PROVE FALSE
    <3>1. PICK d \in Nat : u = v + 1 + d
      <4>1. u - v - 1 \in Nat /\ u = v + 1 + (u - v - 1)
        BY <2>4, <2>5
      <4> QED
        BY <4>1
    <3>2. \A k, l, m \in Nat : (k + 1 + l) * m = k * m + m + l * m /\ l * m \in Nat /\ k * m \in Nat
      OBVIOUS
    <3>3. u * Base = v * Base + Base + d * Base /\ d * Base \in Nat /\ v * Base \in Nat
      BY <3>1, <3>2, <2>1, <2>4
    <3>4. PICK ub \in Nat, vb \in Nat, db \in Nat : ub = u * Base /\ vb = v * Base /\ db = d * Base
      BY <3>3, <2>1, <2>4
    <3>5. p >= ub /\ q < vb + Base
      BY <2>4, <3>4
    <3>6. ub = vb + Base + db
      BY <3>3, <3>4
    <3> QED
      BY ONLY <3>5, <3>6, p <= q, p \in Nat, q \in Nat, <2>1, ub \in Nat, vb \in Nat, db \in Nat
  <2>6. u <= v
    BY <2>4, <2>5
  <2> QED
    BY ONLY <2>2, <2>3, <2>6, Zenon
<1> DEFINE T == {i \in Nat : Shifted(x, i) <= Shifted(y, i)}
<1> SUFFICES ASSUME NEW i \in Nat PROVE Shifted(x, i) <= Shifted(y, i)
  OBVIOUS
<1>2. 0 \in T
  BY ShiftedStep
<1>3. \A j \in 1..i : j - 1 \in T => j \in T
  <2> SUFFICES ASSUME NEW j \in 1..i, Shifted(x, j - 1) <= Shifted(y, j - 1)
               PROVE  Shifted(x, j) <= Shifted(y, j)
    OBVIOUS
  <2>1. PICK k \in Nat : k = j - 1
    OBVIOUS
  <2>2. Shifted(x, k) \in Nat /\ Shifted(y, k) \in Nat /\ Shifted(x, k) <= Shifted(y, k)
    BY <2>1, ShiftedStep
  <2>3. Shifted(x, k + 1) = Shifted(x, k) \div Base /\ Shifted(y, k + 1) = Shifted(y, k) \div Base
    BY ShiftedStep
  <2>4. Shifted(x, k + 1) <= Shifted(y, k + 1)
    BY <2>2, <2>3, <1>1
  <2>5. k + 1 = j
    BY <2>1
  <2> QED
    BY <2>4, <2>5
<1> HIDE DEF T
<1>4. 0..i \subseteq T
  BY <1>2, <1>3, Induction
<1> QED
  BY <1>4 DEF T

(* Two digits are not more than four.                                      *)
LEMMA ShiftedZero ==
    ASSUME NEW n \in Nat, Shifted(n, 2) = 0
    PROVE  Shifted(n, 4) = 0
<1>1. 0 \div Base = 0
  BY FrameAssumption, Divide
<1>2. Shifted(n, 2 + 1) = 0
  BY <1>1, ShiftedStep
<1>3. Shifted(n, 3 + 1) = 0
  <2>1. Shifted(n, 3) = 0
    BY <1>2
  <2> QED
    BY <1>1, <2>1, ShiftedStep
<1> QED
  BY <1>3

(* The payload of a close frame has a length of one digit or two.          *)
LEMMA CloseShort == CloseData \in Seq(0..1) /\ Len(CloseData) = 2 /\ Shifted(2, 4) = 0
<1>1. 2 < Base * Base
  BY FrameAssumption
<1>2. Shifted(2, 2) = 0
  BY <1>1, TwoDigits
<1> QED
  BY <1>2, ShiftedZero, ContentTyped DEF CloseData

(* The ways createHeader and Header put the bytes together.                *)
LEMMA Flatten ==
    ASSUME NEW a \in Byte, NEW b \in Byte, NEW more \in Seq(Byte), NEW rest \in Seq(Byte)
    PROVE  /\ <<a>> \o <<b>> = <<a, b>> \o <<>>
           /\ <<a>> \o (<<b>> \o more) = <<a, b>> \o more
           /\ <<a>> \o (<<b, 0, 0, 0, 0>> \o rest) = <<a, b>> \o (<<0, 0, 0, 0>> \o rest)
<1>1. <<a>> \in Seq(Byte) /\ <<b>> \in Seq(Byte) /\ <<a, b>> \in Seq(Byte)
  OBVIOUS
<1>2. <<a>> \o <<b>> = <<a, b>> /\ <<a, b>> \o <<>> = <<a, b>>
  <2>1. <<a>> \o <<b>> = <<a, b>>
    <3>1. PICK s \in Seq(Byte), t \in Seq(Byte), d \in Seq(Byte) : s = <<a>> /\ t = <<b>> /\ d = <<a, b>>
      BY <1>1
    <3>2. Len(s) = 1 /\ s[1] = a /\ Len(t) = 1 /\ t[1] = b /\ Len(d) = 2 /\ d[1] = a /\ d[2] = b
      BY <3>1
    <3>3. PICK c \in Seq(Byte) : c = s \o t
      BY ConcatProperties
    <3>4. Len(c) = 2 /\ c[1] = a /\ c[2] = b
      <4>1. Len(c) = Len(s) + Len(t)
            /\ \A i \in 1..(Len(s) + Len(t)) : c[i] = IF i <= Len(s) THEN s[i] ELSE t[i - Len(s)]
        BY ONLY <3>3, s \in Seq(Byte), t \in Seq(Byte), ConcatProperties
      <4> QED
        BY ONLY <3>2, <4>1
    <3>5. c = d
      <4>1. Len(c) = Len(d) /\ \A i \in 1..Len(c) : c[i] = d[i]
        BY ONLY <3>2, <3>4
      <4> QED
        BY ONLY <4>1, c \in Seq(Byte), d \in Seq(Byte), SeqEqual
    <3> QED
      BY ONLY <3>1, <3>3, <3>5, Zenon
  <2> QED
    BY <2>1, <1>1, ConcatEmptySeq
<1>3. \A x, y, z \in Seq(Byte) : x \o (y \o z) = (x \o y) \o z
  OBVIOUS
<1>4. <<a>> \o (<<b>> \o more) = (<<a>> \o <<b>>) \o more
  BY <1>1, <1>3
<1>5. <<0, 0, 0, 0>> \in Seq(Byte)
  BY DEF Byte
<1>6. <<b, 0, 0, 0, 0>> = <<b>> \o <<0, 0, 0, 0>>
  OBVIOUS
<1>7. <<b>> \o (<<0, 0, 0, 0>> \o rest) = (<<b>> \o <<0, 0, 0, 0>>) \o rest
  BY <1>1, <1>3, <1>5
<1>8. PICK zr \in Seq(Byte) : zr = <<0, 0, 0, 0>> \o rest
  BY ONLY <1>5, rest \in Seq(Byte), ConcatProperties
<1>9. <<a>> \o (<<b>> \o zr) = (<<a>> \o <<b>>) \o zr
  BY <1>1, <1>3
<1>10. <<a>> \o (<<b, 0, 0, 0, 0>> \o rest) = <<a, b>> \o (<<0, 0, 0, 0>> \o rest)
  BY ONLY <1>2, <1>6, <1>7, <1>8, <1>9, Zenon
<1> QED
  BY ONLY <1>2, <1>4, <1>10, Zenon

(* createHeader makes a header, with the length in one of its forms, and   *)
(* HeaderSize is the number of its bytes.                                  *)
LEMMA ClientForm ==
    ASSUME NEW op \in Opcodes, NEW fin \in BOOLEAN, NEW n \in Nat, Shifted(n, 4) = 0, NEW key \in Key4
    PROVE  \E field, more : /\ Form(n, field, more) /\ more \in Seq(Nat)
                            /\ HeaderSize(n) = 2 + Len(more) + 4
                            /\ CreateHeader(op, n, key, fin)
                               = Header([fin |-> fin, op |-> op], [mask |-> TRUE, len |-> field], more, key)
<1>1. Esc \in Nat /\ Base \in Nat /\ Base * Base \in Nat
  BY FrameAssumption
<1>2. PICK a \in Byte : a = [fin |-> fin, op |-> op]
  BY DEF Byte, First
<1>3. CASE n < Esc
  <2>1. PICK b \in Byte : b = [mask |-> TRUE, len |-> n]
    BY DEF Byte, Second
  <2>2. CreateHeader(op, n, key, fin) = (<<a>> \o <<b>>) \o key
    BY <1>2, <1>3, <2>1 DEF CreateHeader
  <2>3. <<a>> \o <<b>> = <<a, b>> \o <<>>
    BY ONLY a \in Byte, b \in Byte, Flatten, <<>> \in Seq(Byte)
  <2>4. CreateHeader(op, n, key, fin) = Header(a, b, <<>>, key)
    BY <2>2, <2>3 DEF Header
  <2>5. HeaderSize(n) = 2 + Len(<<>>) + 4
    BY <1>3 DEF HeaderSize
  <2>6. Form(n, n, <<>>)
    BY <1>3 DEF Form
  <2> QED
    BY <1>2, <2>1, <2>4, <2>5, <2>6, EmptySeq
<1>4. CASE ~(n < Esc) /\ n < Base * Base - 1
  <2>1. PICK b \in Byte : b = [mask |-> TRUE, len |-> Esc]
    BY <1>1 DEF Byte, Second
  <2>2. PICK more : more = Bytes(n, 2)
    OBVIOUS
  <2>3. more \in Seq(Nat) /\ Len(more) = 2
    BY <2>2, BytesTyped
  <2>4. more \in Seq(Byte)
    BY <2>3 DEF Byte
  <2>5. CreateHeader(op, n, key, fin) = (<<a>> \o (<<b>> \o more)) \o key
    BY <1>2, <1>4, <2>1, <2>2 DEF CreateHeader
  <2>6. <<a>> \o (<<b>> \o more) = <<a, b>> \o more
    BY ONLY a \in Byte, b \in Byte, Flatten, more \in Seq(Byte), <2>4, <<>> \in Seq(Byte)
  <2>7. CreateHeader(op, n, key, fin) = Header(a, b, more, key)
    BY <2>5, <2>6 DEF Header
  <2>8. HeaderSize(n) = 2 + Len(more) + 4
    BY <1>4, <2>3 DEF HeaderSize
  <2>9. Shifted(n, 2) = 0
    BY <1>1, <1>4, TwoDigits
  <2>10. Form(n, Esc, more)
    BY <2>2, <2>9 DEF Form
  <2> QED
    BY <1>2, <2>1, <2>3, <2>7, <2>8, <2>10
<1>5. CASE ~(n < Esc) /\ ~(n < Base * Base - 1)
  <2>1. PICK b \in Byte : b = [mask |-> TRUE, len |-> Esc + 1]
    <3>1. PICK l \in Nat : l = Esc + 1
      BY <1>1
    <3>2. [mask |-> TRUE, len |-> l] \in Byte
      BY DEF Byte, Second
    <3> QED
      BY <3>1, <3>2
  <2>2. PICK rest : rest = Bytes(n, 4)
    OBVIOUS
  <2>3. rest \in Seq(Nat) /\ Len(rest) = 4
    BY <2>2, BytesTyped
  <2>4. rest \in Seq(Byte)
    BY <2>3 DEF Byte
  <2>5. Shifted(n, 8) = 0
    BY FourDigits
  <2>6. \A i \in 4..7 : Digit(n, i) = 0
    BY <2>5, UpperDigits
  <2>7. Bytes(n, 8) = <<0, 0, 0, 0>> \o rest
    BY <2>2, <2>6, LowDigits
  <2>8. CreateHeader(op, n, key, fin) = (<<a>> \o (<<b, 0, 0, 0, 0>> \o rest)) \o key
    BY <1>2, <1>5, <2>1, <2>2 DEF CreateHeader
  <2>9. <<a>> \o (<<b, 0, 0, 0, 0>> \o rest) = <<a, b>> \o (<<0, 0, 0, 0>> \o rest)
    BY ONLY a \in Byte, b \in Byte, Flatten, rest \in Seq(Byte), <2>4, <<>> \in Seq(Byte)
  <2>10. PICK more : more = Bytes(n, 8)
    OBVIOUS
  <2>11. CreateHeader(op, n, key, fin) = Header(a, b, more, key)
    BY ONLY <2>7, <2>8, <2>9, <2>10 DEF Header
  <2>12. Len(more) = 8 /\ more \in Seq(Nat)
    BY <2>10, BytesTyped
  <2>13. HeaderSize(n) = 2 + Len(more) + 4
    BY <1>5, <2>12 DEF HeaderSize
  <2>14. Form(n, Esc + 1, more)
    BY <2>10, <2>5 DEF Form
  <2> QED
    BY <1>2, <2>1, <2>11, <2>12, <2>13, <2>14
<1> QED
  BY <1>3, <1>4, <1>5

(* What sendFrame writes of the header.                                    *)
SentHeader(op, n, key, fin) == SubSeq(CreateHeader(op, n, key, fin), 1, HeaderSize(n))

(* It is a whole header, which says what the application said.             *)
LEMMA ClientHeader ==
    ASSUME NEW op \in Opcodes, NEW fin \in BOOLEAN, NEW n \in Nat, Shifted(n, 4) = 0, NEW key \in Key4,
           NEW hd, hd = SentHeader(op, n, key, fin)
    PROVE  /\ hd \in Headers /\ hd[1] = [fin |-> fin, op |-> op] /\ MaskKey(hd) = key
           /\ RfcSize(hd) = n /\ PayloadLen(hd) \in Nat
           /\ PayloadLen(hd) <= MaxData => PayloadLen(hd) = n
<1>1. PICK field, more : /\ Form(n, field, more) /\ more \in Seq(Nat)
                         /\ HeaderSize(n) = 2 + Len(more) + 4
                         /\ CreateHeader(op, n, key, fin)
                            = Header([fin |-> fin, op |-> op], [mask |-> TRUE, len |-> field], more, key)
  BY ClientForm
<1>2. PICK a \in First : a = [fin |-> fin, op |-> op]
  BY DEF First
<1>3. key \in Seq(0..1) /\ Len(key) = 4
  BY KeySeq
<1>4. PICK c : c = Header(a, [mask |-> TRUE, len |-> field], more, key)
  OBVIOUS
<1>5. /\ c \in Headers /\ c[1] = a /\ MaskKey(c) = key
      /\ Len(c) = 2 + Len(more) + Len(key)
      /\ RfcSize(c) = n /\ PayloadLen(c) \in Nat
      /\ PayloadLen(c) <= MaxData => PayloadLen(c) = n
  <2>1. Len(key) = IF TRUE THEN 4 ELSE 0
    BY <1>3
  <2>2. Form(n, field, more)
    BY <1>1
  <2>3. PICK mask \in BOOLEAN : mask = TRUE
    OBVIOUS
  <2>4. Len(key) = IF mask THEN 4 ELSE 0
    BY <2>1, <2>3
  <2>5. c = Header(a, [mask |-> mask, len |-> field], more, key)
    BY <1>4, <2>3
  <2>6. /\ c \in Headers /\ c[1] = a /\ MaskKey(c) = IF mask THEN key ELSE NoKey
        /\ Sized(c, more, key)
        /\ RfcSize(c) = n /\ PayloadLen(c) \in Nat
        /\ PayloadLen(c) <= MaxData => PayloadLen(c) = n
    BY <2>2, <2>4, <2>5, <1>3, HeaderOf
  <2>7. Len(c) = 2 + Len(more) + Len(key)
    BY <2>6 DEF Sized
  <2> QED
    BY <2>3, <2>6, <2>7
<1>6. c = CreateHeader(op, n, key, fin)
  BY <1>1, <1>2, <1>4
<1>7. Len(c) = HeaderSize(n) /\ c \in Seq(Byte)
  BY <1>1, <1>3, <1>5 DEF Headers
<1>8. hd = SubSeq(c, 1, Len(c))
  BY <1>6, <1>7 DEF SentHeader
<1>9. hd = c
  BY <1>7, <1>8
<1> QED
  BY <1>2, <1>5, <1>9

(* What one or two calls of write() put on the wire.                       *)
LEMMA WrittenParts ==
    ASSUME NEW writes, NEW n, NEW k \in 1..2, Len(writes) = k, NEW p0, NEW p1, NEW p2, p0 = <<>>,
           p1 = p0 \o SubSeq(writes[1], 1, n[1]), p2 = p1 \o SubSeq(writes[2], 1, n[2])
    PROVE  Written(writes, n) = IF k = 1 THEN p1 ELSE p2
<1> DEFINE Then(x, i) == x \o SubSeq(writes[i], 1, n[i])
           IsUpto(g) == g = [i \in 0..k |-> IF i = 0 THEN p0 ELSE Then(g[i - 1], i)]
           h == [i \in 0..k |-> IF i = 0 THEN p0 ELSE IF i = 1 THEN p1 ELSE p2]
<1>0. PICK u : u = Written(writes, n)
  OBVIOUS
<1>1. p1 = Then(p0, 1) /\ p2 = Then(p1, 2)
  OBVIOUS
<1>2. (\E g : IsUpto(g)) => \E g : IsUpto(g) /\ u = g[k]
  BY <1>0 DEF Written
<1> HIDE DEF Then
<1>3. h[0] = p0 /\ h[1] = p1 /\ (k = 2 => h[2] = p2) /\ DOMAIN h = 0..k /\ h = [i \in 0..k |-> h[i]]
  BY ONLY k \in 1..2
<1>4. IsUpto(h)
  <2> DEFINE f == [i \in 0..k |-> IF i = 0 THEN p0 ELSE Then(h[i - 1], i)]
  <2>1. f[0] = p0 /\ f[1] = Then(h[0], 1) /\ (k = 2 => f[2] = Then(h[1], 2)) /\ f = [i \in 0..k |-> f[i]]
    BY ONLY k \in 1..2
  <2> HIDE DEF h
  <2>2. f = [i \in 0..k |-> IF i = 0 THEN p0 ELSE Then(h[i - 1], i)]
    OBVIOUS
  <2> HIDE DEF f
  <2>3. ASSUME NEW i \in 0..k PROVE h[i] = f[i]
    <3>1. i = 0 \/ i = 1 \/ (i = 2 /\ k = 2)
      OBVIOUS
    <3> QED
      BY ONLY <1>1, <1>3, <2>1, <3>1
  <2>4. h = f
    BY ONLY <1>3, <2>1, <2>3
  <2> QED
    BY ONLY <2>2, <2>4
<1> HIDE DEF h
<1>5. PICK g : IsUpto(g) /\ u = g[k]
  BY ONLY <1>2, <1>4
<1>6. g[0] = p0 /\ g[1] = Then(g[0], 1) /\ (k = 2 => g[2] = Then(g[1], 2))
  BY ONLY <1>5, k \in 1..2
<1> QED
  BY ONLY <1>0, <1>1, <1>5, <1>6, k \in 1..2

(* One whole write.                                                        *)
LEMMA WrittenOnce ==
    ASSUME NEW w \in Seq(Byte), NEW writes, writes = <<w>>, NEW n, Whole(writes, n)
    PROVE  Written(writes, n) = w
<1>1. Len(writes) = 1 /\ writes[1] = w
  OBVIOUS
<1>2. n[1] = Len(w)
  BY <1>1 DEF Whole
<1>3. SubSeq(writes[1], 1, n[1]) = w
  BY <1>1, <1>2
<1>4. PICK p0, p1 : p0 = <<>> /\ p1 = p0 \o SubSeq(writes[1], 1, n[1])
  OBVIOUS
<1>5. p1 = w
  BY <1>3, <1>4, ConcatEmptySeq
<1>6. PICK p2 : p2 = p1 \o SubSeq(writes[2], 1, n[2])
  OBVIOUS
<1>7. PICK k \in 1..2 : k = 1
  OBVIOUS
<1>8. Written(writes, n) = IF k = 1 THEN p1 ELSE p2
  BY <1>1, <1>4, <1>6, <1>7, WrittenParts
<1> QED
  BY <1>5, <1>7, <1>8

(* Two whole writes, of the header and of the payload.                     *)
LEMMA WrittenTwice ==
    ASSUME NEW w \in Seq(Byte), NEW v \in Seq(Byte), NEW writes, writes = <<w, v>>, NEW n,
           Whole(writes, n)
    PROVE  Written(writes, n) = w \o v
<1>1. Len(writes) = 2 /\ writes[1] = w /\ writes[2] = v
  OBVIOUS
<1>2. n[1] = Len(w) /\ n[2] = Len(v)
  BY <1>1 DEF Whole
<1>3. SubSeq(writes[1], 1, n[1]) = w /\ SubSeq(writes[2], 1, n[2]) = v
  BY <1>1, <1>2
<1>4. PICK p0, p1 : p0 = <<>> /\ p1 = p0 \o SubSeq(writes[1], 1, n[1])
  OBVIOUS
<1>5. p1 = w
  BY <1>3, <1>4, ConcatEmptySeq
<1>6. PICK p2 : p2 = p1 \o SubSeq(writes[2], 1, n[2])
  OBVIOUS
<1>7. PICK k \in 1..2 : k = 2
  OBVIOUS
<1>8. Written(writes, n) = IF k = 1 THEN p1 ELSE p2
  BY <1>1, <1>4, <1>6, <1>7, WrittenParts
<1>9. Written(writes, n) = p2
  BY <1>7, <1>8
<1> QED
  BY ONLY <1>3, <1>5, <1>6, <1>9, Zenon

(* sendFrame: as long as nothing failed, the wire carries the frames that  *)
(* it returned true for.                                                   *)
LEMMA SendFrameSays ==
    ASSUME NEW op \in Opcodes, NEW data \in Seq(0..1), Shifted(Len(data), 4) = 0,
           NEW fin \in BOOLEAN, NEW toPayload \in BOOLEAN,
           SendFrame(op, data, fin, toPayload),
           trouble \in 0..MaxTrouble, failed \in BOOLEAN,
           ~failed => <<wire, said>> \in Streams(RfcFrames)
    PROVE  /\ trouble' \in 0..MaxTrouble /\ failed' \in BOOLEAN
           /\ ~failed' => /\ ~failed
                          /\ said' = Append(said, [fin |-> fin, op |-> op, data |-> data])
                          /\ <<wire', said'>> \in Streams(RfcFrames)
<1>1. PICK big \in BigHeap, key \in Keys :
        LET intern == big /\ ~toPayload /\ Len(data) > 0
            writes == Writes(op, data, fin, toPayload, intern, key)
        IN  \E n \in Counts(writes) :
              /\ wire' = wire \o Written(writes, n)
              /\ IF Whole(writes, n)
                 THEN /\ said' = Append(said, [fin |-> fin, op |-> op, data |-> data])
                      /\ UNCHANGED <<failed, trouble>>
                 ELSE Costs(1) /\ failed' = TRUE /\ UNCHANGED said
  BY Zenon DEF SendFrame
<1>2. PICK intern \in BOOLEAN : intern = (big /\ ~toPayload /\ Len(data) > 0)
  OBVIOUS
<1>3. PICK writes : writes = Writes(op, data, fin, toPayload, intern, key)
  OBVIOUS
<1>4. PICK n : /\ wire' = wire \o Written(writes, n)
               /\ IF Whole(writes, n)
                  THEN /\ said' = Append(said, [fin |-> fin, op |-> op, data |-> data])
                       /\ UNCHANGED <<failed, trouble>>
                  ELSE Costs(1) /\ failed' = TRUE /\ UNCHANGED said
  BY <1>1, <1>2, <1>3
<1>5. CASE ~Whole(writes, n)
  <2>1. MaxTrouble \in Nat
    BY FrameAssumption
  <2>2. failed' = TRUE /\ trouble >= 1 /\ trouble' = trouble - 1
    BY <1>4, <1>5 DEF Costs
  <2> QED
    BY <2>1, <2>2
<1>6. CASE Whole(writes, n)
  <2>1. /\ said' = Append(said, [fin |-> fin, op |-> op, data |-> data])
        /\ failed' = failed /\ trouble' = trouble
    BY <1>4, <1>6
  <2>2. key \in Key4
    BY FrameAssumption DEF Key4
  <2>3. PICK k \in Key4 : k = IF intern THEN key ELSE NoKey
    BY <2>2, NoKeyTyped
  <2>4. PICK size \in Nat : size = Len(data)
    OBVIOUS
  <2>5. PICK hd : hd = SentHeader(op, size, k, fin)
    OBVIOUS
  <2>6. /\ hd \in Headers /\ hd[1] = [fin |-> fin, op |-> op] /\ MaskKey(hd) = k
        /\ RfcSize(hd) = size /\ PayloadLen(hd) \in Nat
        /\ PayloadLen(hd) <= MaxData => PayloadLen(hd) = size
    BY <2>4, <2>5, ClientHeader
  <2>7. PICK body \in Seq(0..1) : body = Masked(data, k) /\ Len(body) = size /\ Masked(body, k) = data
    BY <2>4, MaskTwice
  <2>8. ~intern => body = data
    BY <2>3, <2>7, MaskNone
  <2>9. hd \in Seq(Byte) /\ body \in Seq(Byte)
    <3>1. 0..1 \subseteq Byte
      BY DEF Byte
    <3> QED
      BY <2>6, <3>1, SeqMonotonic DEF Headers
  <2>10. PICK e \in Seq(Byte) : e = hd \o body
    BY ONLY <2>9, ConcatProperties
  <2>11. Written(writes, n) = e
    <3>1. hd = SubSeq(CreateHeader(op, Len(data), k, fin), 1, HeaderSize(Len(data)))
      BY <2>4, <2>5 DEF SentHeader
    <3>2. CASE intern
      <4>1. writes = <<hd \o Masked(data, key)>>
        BY <1>3, <2>3, <3>1, <3>2 DEF Writes
      <4>2. writes = <<e>>
        BY <2>3, <2>7, <2>10, <3>2, <4>1
      <4> QED
        BY <1>6, <4>2, WrittenOnce
    <3>3. CASE ~intern /\ toPayload
      <4>1. writes = <<hd \o data>>
        BY <1>3, <2>3, <3>1, <3>3 DEF Writes
      <4>2. writes = <<e>>
        BY <2>8, <2>10, <3>3, <4>1
      <4> QED
        BY <1>6, <4>2, WrittenOnce
    <3>4. CASE ~intern /\ ~toPayload
      <4>1. writes = IF data = <<>> THEN <<hd>> ELSE <<hd, data>>
        BY <1>3, <2>3, <3>1, <3>4 DEF Writes
      <4>2. CASE data = <<>>
        <5>1. writes = <<hd>>
          BY <4>1, <4>2
        <5>2. Written(writes, n) = hd
          BY <1>6, <2>9, <5>1, WrittenOnce
        <5>3. body = <<>>
          BY <2>8, <3>4, <4>2
        <5>4. hd \o <<>> = hd
          BY <2>9, ConcatEmptySeq
        <5> QED
          BY ONLY <2>10, <5>2, <5>3, <5>4, Zenon
      <4>3. CASE data # <<>>
        <5>1. writes = <<hd, body>>
          BY <2>8, <3>4, <4>1, <4>3
        <5> QED
          BY ONLY <1>6, <2>9, <2>10, <5>1, WrittenTwice, ZenonT(60)
      <4> QED
        BY <4>2, <4>3
    <3> QED
      BY <3>2, <3>3, <3>4
  <2>12. PICK m : m = Read(hd, body)
    OBVIOUS
  <2>13. m = [fin |-> fin, op |-> op, data |-> data]
    BY <2>6, <2>7, <2>12 DEF Read
  <2>14. <<e, m>> \in RfcFrames
    <3>1. hd[1].fin \in BOOLEAN /\ hd[1].op \in Opcodes
      BY <2>6
    <3>2. RfcSize(hd) = Len(body) /\ (PayloadLen(hd) <= MaxData => PayloadLen(hd) = Len(body))
      BY <2>6, <2>7
    <3> QED
      BY <2>6, <2>10, <2>12, <3>1, <3>2, FrameMade
  <2>15. m \in Message
    BY <2>14 DEF RfcFrames, Frames
  <2>16. ASSUME ~failed' PROVE <<wire', said'>> \in Streams(RfcFrames)
    <3>1. <<wire, said>> \in Streams(RfcFrames)
      BY <2>1, <2>16
    <3>2. wire \in Seq(Byte) /\ said \in Seq(Message)
      BY <3>1, StreamTyped
    <3>3. <<wire \o e, Append(said, m)>> \in Streams(RfcFrames)
      BY <2>14, <2>15, <3>1, <3>2, StreamsGrow DEF Grows
    <3>4. wire' = wire \o e /\ said' = Append(said, m)
      BY <1>4, <2>1, <2>11, <2>13
    <3> QED
      BY <3>3, <3>4
  <2> QED
    BY <2>1, <2>16
<1> QED
  BY <1>5, <1>6

-----------------------------------------------------------------------------
(* What the server reads. *)

(* What is known of a header.                                              *)
LEMMA HeaderParts ==
    ASSUME NEW hd \in Headers
    PROVE  /\ hd \in Seq(Byte) /\ Len(hd) >= 2 /\ MaskKey(hd) \in Key4
           /\ LengthBytes(hd) \in Nat /\ RfcExtra(hd) = LengthBytes(hd) /\ hd[2].mask \in BOOLEAN
           /\ Len(hd) = 2 + LengthBytes(hd) + (IF hd[2].mask THEN 4 ELSE 0)
           /\ Len(hd) = RfcStart(hd)
<1>1. /\ hd \in Seq(Byte) /\ Len(hd) \in 2..14 /\ hd[2] \in Second
      /\ Len(hd) = RfcStart(hd) /\ MaskKey(hd) \in Key4
  BY DEF Headers
<1>2. LengthBytes(hd) \in Nat /\ RfcExtra(hd) = LengthBytes(hd)
  BY DEF LengthBytes, RfcExtra
<1>3. RfcStart(hd) = 2 + LengthBytes(hd) + (IF hd[2].mask THEN 4 ELSE 0)
  BY <1>2 DEF RfcStart
<1>4. hd[2].mask \in BOOLEAN
  BY <1>1 DEF Second
<1> QED
  BY <1>1, <1>2, <1>3, <1>4

(* The RFC reads the frame at the start of a stream as it was put          *)
(* together, and stops where the next one begins.                          *)
LEMMA FrameOf ==
    ASSUME NEW hd \in Headers, NEW body \in Seq(0..1), NEW e \in Seq(Byte), NEW after \in Seq(Byte),
           NEW b \in Seq(Byte), Joins(hd, body, e), Joins(e, after, b), RfcSize(hd) = Len(body)
    PROVE  /\ RfcComplete(b) /\ RfcFrame(b) = Read(hd, body)
           /\ SubSeq(b, RfcStart(b) + RfcSize(b) + 1, Len(b)) = after
           /\ Len(after) < Len(b)
<1>1. /\ hd \in Seq(Byte) /\ Len(hd) >= 2
      /\ LengthBytes(hd) \in Nat /\ RfcExtra(hd) = LengthBytes(hd) /\ hd[2].mask \in BOOLEAN
      /\ Len(hd) = 2 + LengthBytes(hd) + (IF hd[2].mask THEN 4 ELSE 0)
      /\ Len(hd) = RfcStart(hd)
  BY HeaderParts
<1>2. body \in Seq(Byte)
  <2>1. 0..1 \subseteq Byte
    BY DEF Byte
  <2> QED
    BY <2>1, SeqMonotonic
<1>3. PICK t \in Seq(Byte) : t = body \o after
  BY ONLY <1>2, after \in Seq(Byte), ConcatProperties
<1>4. Joins(hd, t, b)
  <2>1. hd \in Seq(Byte) /\ Joins(body, after, t)
    BY <1>1, <1>3 DEF Joins
  <2> QED
    BY ONLY <2>1, <1>2, after \in Seq(Byte), Joins(hd, body, e), Joins(e, after, b), Regroup
<1>5. /\ b[1] = hd[1] /\ b[2] = hd[2] /\ LengthBytes(b) = LengthBytes(hd)
      /\ RfcStart(b) = RfcStart(hd) /\ RfcSize(b) = RfcSize(hd) /\ MaskKey(b) = MaskKey(hd)
  <2>1. Len(hd) >= 2 + LengthBytes(hd)
    BY <1>1
  <2>2. Len(hd) >= 2 + LengthBytes(hd) + (IF hd[2].mask THEN 4 ELSE 0)
    BY <1>1
  <2> QED
    BY <1>1, <1>4, <2>1, <2>2, PrefixFields, SMTT(60)
<1>6. PICK l \in Nat, k \in Nat, z \in Nat : l = Len(hd) /\ k = Len(body) /\ z = Len(after)
  BY <1>1, <1>2
<1>7. Len(e) = l + k /\ Len(b) = (l + k) + z
  <2>1. Len(e) = Len(hd) + Len(body)
    BY ONLY <1>1, <1>2, e = hd \o body, Joins(hd, body, e), ConcatProperties DEF Joins
  <2>2. Len(b) = Len(e) + Len(after)
    BY ONLY Joins(e, after, b), e \in Seq(Byte), after \in Seq(Byte), ConcatProperties DEF Joins
  <2> QED
    BY <1>6, <2>1, <2>2
<1>8. RfcStart(b) = l /\ RfcSize(b) = k /\ l >= 2
  BY <1>1, <1>5, <1>6
<1>9. RfcComplete(b)
  BY <1>7, <1>8 DEF RfcComplete
<1>10. SubSeq(b, l + 1, l + k) = body
  <2>1. SubSeq(b, l + 1, l + k) = SubSeq(e, l + 1, l + k)
    <3>1. b = e \o after
      BY DEF Joins
    <3>2. l + 1 \in 1..(Len(e) + 1) /\ l + k \in 0..Len(e)
      BY <1>7
    <3>3. SubSeq(e \o after, l + 1, l + k) = SubSeq(e, l + 1, l + k)
      BY ONLY <3>2, e \in Seq(Byte), after \in Seq(Byte), FirstPart
    <3> QED
      BY ONLY <3>1, <3>3
  <2>2. SubSeq(hd \o body, Len(hd) + 1, Len(hd \o body)) = body
    BY ONLY <1>1, <1>2, Uncut, SMTT(60)
  <2>3. e = hd \o body
    BY DEF Joins
  <2> QED
    BY ONLY <1>6, <1>7, <2>1, <2>2, <2>3
<1>11. SubSeq(b, (l + k) + 1, Len(b)) = after
  <2>1. SubSeq(e \o after, Len(e) + 1, Len(e \o after)) = after
    BY ONLY e \in Seq(Byte), after \in Seq(Byte), Uncut
  <2>2. b = e \o after
    BY DEF Joins
  <2> QED
    BY ONLY <1>7, <2>1, <2>2
<1>12. RfcFrame(b) = Read(hd, body)
  <2>1. RfcExtra(b) = LengthBytes(hd)
    BY <1>5 DEF RfcExtra, LengthBytes
  <2>2. (IF b[2].mask THEN SubSeq(b, 3 + RfcExtra(b), RfcStart(b)) ELSE NoKey) = MaskKey(hd)
    <3>1. CASE hd[2].mask
      <4>1. RfcStart(b) = 6 + LengthBytes(hd)
        BY <1>1, <1>5, <3>1
      <4>2. MaskKey(b) = SubSeq(b, 3 + LengthBytes(hd), 6 + LengthBytes(hd))
        BY <1>5, <3>1 DEF MaskKey
      <4> QED
        BY <1>5, <2>1, <3>1, <4>1, <4>2
    <3>2. CASE ~hd[2].mask
      <4>1. MaskKey(b) = NoKey
        BY <1>5, <3>2 DEF MaskKey
      <4> QED
        BY <1>5, <3>2, <4>1
    <3> QED
      BY <3>1, <3>2
  <2>3. SubSeq(b, RfcStart(b) + 1, RfcStart(b) + RfcSize(b)) = body
    BY <1>8, <1>10
  <2> QED
    BY <1>5, <2>2, <2>3 DEF RfcFrame, Read
<1> QED
  BY <1>7, <1>8, <1>9, <1>11, <1>12

(* A frame is not empty.                                                   *)
LEMMA RfcFrameSize == ASSUME NEW e, NEW m, <<e, m>> \in RfcFrames PROVE Len(e) > 0
<1>1. PICK hd \in Headers, body \in Seq(0..1) : Joins(hd, body, e)
  BY DEF RfcFrames
<1>2. hd \in Seq(Byte) /\ Len(hd) >= 2
  BY HeaderParts
<1>3. body \in Seq(Byte)
  <2>1. 0..1 \subseteq Byte
    BY DEF Byte
  <2> QED
    BY <2>1, SeqMonotonic
<1>4. Len(e) = Len(hd) + Len(body)
  BY ONLY <1>1, <1>2, <1>3, ConcatProperties DEF Joins
<1> QED
  BY <1>2, <1>3, <1>4

(* One step of RfcDecode takes the first frame off a stream.               *)
LEMMA NextFrame ==
    ASSUME NEW left, NEW rest, <<left, rest>> \in Streams(RfcFrames), Len(left) > 0, NEW frames
    PROVE  \E left2 \in Seq(Byte), rest2 \in Seq(Message), m \in Message :
             /\ RfcNext([left |-> left, frames |-> frames]) = [left |-> left2, frames |-> Append(frames, m)]
             /\ <<left2, rest2>> \in Streams(RfcFrames)
             /\ Joins(<<m>>, rest2, rest) /\ Len(left2) < Len(left)
<1>1. left \in Seq(Byte) /\ rest \in Seq(Message)
  BY StreamTyped
<1>2. HasFirst(RfcFrames, left, rest)
  <2>1. ~(left = <<>> /\ rest = <<>>)
    BY EmptySeq
  <2> QED
    BY <2>1, StreamFirst
<1>3. PICK e \in Seq(Byte), m \in Message, left2 \in Seq(Byte), rest2 \in Seq(Message) :
        /\ <<e, m>> \in RfcFrames /\ <<left2, rest2>> \in Streams(RfcFrames)
        /\ Joins(e, left2, left) /\ Joins(<<m>>, rest2, rest)
  BY <1>2 DEF HasFirst
<1>4. PICK hd \in Headers, body \in Seq(0..1) :
        Joins(hd, body, e) /\ RfcSize(hd) = Len(body) /\ m = Read(hd, body)
  BY <1>3 DEF RfcFrames
<1>5. /\ RfcComplete(left) /\ RfcFrame(left) = m
      /\ SubSeq(left, RfcStart(left) + RfcSize(left) + 1, Len(left)) = left2
      /\ Len(left2) < Len(left)
  BY ONLY <1>1, <1>3, <1>4, FrameOf, hd \in Headers, body \in Seq(0..1), e \in Seq(Byte),
          left2 \in Seq(Byte)
<1>6. RfcNext([left |-> left, frames |-> frames]) = [left |-> left2, frames |-> Append(frames, m)]
  BY <1>5 DEF RfcNext
<1> QED
  BY <1>3, <1>5, <1>6

(* With nothing left it takes nothing.                                     *)
LEMMA NoFrameLeft ==
    ASSUME NEW frames
    PROVE  RfcNext([left |-> <<>>, frames |-> frames]) = [left |-> <<>>, frames |-> frames]
BY EmptySeq DEF RfcNext, RfcComplete

(* The recursive function of RfcDecode, for any set its steps stay in.     *)
LEMMA DecodeRuns ==
    ASSUME NEW b \in Seq(Byte), NEW S, [left |-> b, frames |-> <<>>] \in S,
           \A r \in S : RfcNext(r) \in S
    PROVE  \E g : /\ g[0] = [left |-> b, frames |-> <<>>] /\ RfcDecode(b) = g[Len(b)].frames
                  /\ \A i \in 0..Len(b) : g[i] \in S
                  /\ \A i \in 1..Len(b) : g[i] = RfcNext(g[i - 1])
<1>0. PICK n \in Nat : n = Len(b)
  BY LenProperties
<1>1. PICK r0 \in S : r0 = [left |-> b, frames |-> <<>>]
  OBVIOUS
<1> DEFINE step == [r \in S |-> [i \in 1..n |-> RfcNext(r)]]
           IsAfter(g) == g = [k \in 0..n |-> IF k = 0 THEN r0 ELSE RfcNext(g[k - 1])]
<1>2. step \in [S -> [1..n -> S]] /\ \A r \in S, i \in 1..n : step[r][i] = RfcNext(r)
  OBVIOUS
<1>3. PICK u : u = RfcDecode(b)
  OBVIOUS
<1>4. (\E g : IsAfter(g)) => \E g : IsAfter(g) /\ u = g[n].frames
  BY <1>0, <1>1, <1>3 DEF RfcDecode
<1> HIDE DEF step
<1>5. PICK g : Runs(g, n, S, r0, step)
  BY ONLY <1>2, n \in Nat, r0 \in S, Recursion
<1>6. g \in [0..n -> S] /\ g[0] = r0
  BY <1>5 DEF Runs
<1>7. ASSUME NEW i \in 1..n PROVE g[i] = RfcNext(g[i - 1])
  <2>1. i - 1 \in 0..n
    OBVIOUS
  <2>2. g[i] = step[g[i - 1]][i] /\ g[i - 1] \in S
    BY <1>5, <2>1 DEF Runs
  <2> QED
    BY <1>2, <2>2
<1>8. IsAfter(g)
  <2> DEFINE f == [k \in 0..n |-> IF k = 0 THEN r0 ELSE RfcNext(g[k - 1])]
  <2>1. ASSUME NEW k \in 0..n PROVE g[k] = IF k = 0 THEN r0 ELSE RfcNext(g[k - 1])
    <3>1. CASE k = 0
      BY <1>6, <3>1
    <3>2. CASE k # 0
      <4>1. k \in 1..n
        BY <3>2
      <4> QED
        BY <1>7, <3>2, <4>1
    <3> QED
      BY <3>1, <3>2
  <2> QED
    BY <1>6, <2>1
<1>9. PICK h : IsAfter(h) /\ u = h[n].frames
  BY ONLY <1>4, <1>8
<1>10. h[0] = r0 /\ \A i \in 1..n : h[i] = RfcNext(h[i - 1])
  <2>1. h[0] = r0
    BY <1>9
  <2>2. ASSUME NEW i \in 1..n PROVE h[i] = RfcNext(h[i - 1])
    <3>1. i \in 0..n /\ i # 0
      OBVIOUS
    <3> QED
      BY <1>9, <3>1
  <2> QED
    BY <2>1, <2>2
<1> HIDE DEF IsAfter
<1>11. \A i \in 0..n : h[i] \in S
  <2> DEFINE T == {i \in 0..n : h[i] \in S}
  <2>1. 0 \in T
    BY <1>10
  <2>2. ASSUME NEW i \in 1..n, i - 1 \in T PROVE i \in T
    BY <1>10, <2>2
  <2> HIDE DEF T
  <2>3. 0..n \subseteq T
    BY <2>1, <2>2, Induction
  <2> QED
    BY <2>3 DEF T
<1> QED
  BY <1>0, <1>1, <1>3, <1>9, <1>10, <1>11

(* How far RfcDecode may be in a stream that carries ms.                   *)
Decodes(ms) ==
    {r \in [left : Seq(Byte), frames : Seq(Message)] :
       \E rest \in Seq(Message) : <<r.left, rest>> \in Streams(RfcFrames) /\ Joins(r.frames, rest, ms)}

(* One step more, until nothing is left.                                   *)
LEMMA DecodesNext ==
    ASSUME NEW ms, NEW r \in Decodes(ms)
    PROVE  /\ RfcNext(r) \in Decodes(ms)
           /\ Len(r.left) > 0 => Len(RfcNext(r).left) < Len(r.left)
           /\ Len(r.left) = 0 => RfcNext(r) = r /\ r.frames = ms
<1>1. PICK left \in Seq(Byte), frames \in Seq(Message) : r = [left |-> left, frames |-> frames]
  BY DEF Decodes
<1>2. PICK rest \in Seq(Message) : <<left, rest>> \in Streams(RfcFrames) /\ Joins(frames, rest, ms)
  BY <1>1 DEF Decodes
<1>3. CASE Len(left) > 0
  <2>1. PICK left2 \in Seq(Byte), rest2 \in Seq(Message), m \in Message :
             /\ RfcNext(r) = [left |-> left2, frames |-> Append(frames, m)]
             /\ <<left2, rest2>> \in Streams(RfcFrames)
             /\ Joins(<<m>>, rest2, rest) /\ Len(left2) < Len(left)
    BY <1>1, <1>2, <1>3, NextFrame
  <2>2. PICK frames2 \in Seq(Message) : frames2 = Append(frames, m)
    BY ONLY frames \in Seq(Message), m \in Message, AppendProperties
  <2>3. Joins(frames2, rest2, ms)
    <3>1. PICK one \in Seq(Message) : one = <<m>>
      <4>1. <<m>> \in Seq(Message)
        OBVIOUS
      <4> QED
        BY <4>1
    <3>2. frames2 = frames \o one
      BY <2>2, <3>1, AppendIsConcat
    <3>3. (frames \o one) \o rest2 = frames \o (one \o rest2)
      BY ONLY frames \in Seq(Message), one \in Seq(Message), rest2 \in Seq(Message),
              ConcatAssociative, SMTT(60)
    <3>4. rest = one \o rest2 /\ ms = frames \o rest
      BY <1>2, <2>1, <3>1 DEF Joins
    <3>5. ms = frames2 \o rest2
      BY ONLY <3>2, <3>3, <3>4, Zenon
    <3> QED
      BY <3>5 DEF Joins
  <2>4. RfcNext(r) = [left |-> left2, frames |-> frames2]
    BY <2>1, <2>2
  <2>5. [left |-> left2, frames |-> frames2] \in Decodes(ms)
    BY <2>1, <2>3 DEF Decodes
  <2> QED
    BY <1>1, <1>3, <2>1, <2>4, <2>5
<1>4. CASE Len(left) = 0
  <2>1. left = <<>>
    BY <1>4, EmptySeq
  <2>2. RfcNext(r) = r
    BY <1>1, <2>1, NoFrameLeft
  <2>3. rest = <<>>
    BY ONLY <1>2, <1>4, RfcFrameSize, StreamEmpty
  <2>4. frames = ms
    <3>1. ms = frames \o <<>>
      BY <1>2, <2>3 DEF Joins
    <3>2. frames \o <<>> = frames
      BY ConcatEmptySeq
    <3> QED
      BY ONLY <3>1, <3>2
  <2> QED
    BY <1>1, <1>4, <2>2, <2>4
<1> QED
  BY <1>1, <1>3, <1>4

(* RfcDecode reads a stream of frames as its messages.                     *)
LEMMA StreamDecodes ==
    ASSUME NEW b, NEW ms, <<b, ms>> \in Streams(RfcFrames)
    PROVE  RfcDecode(b) = ms
<1>1. b \in Seq(Byte) /\ ms \in Seq(Message)
  BY StreamTyped
<1>2. PICK n \in Nat : n = Len(b)
  BY <1>1
<1>3. [left |-> b, frames |-> <<>>] \in Decodes(ms)
  <2>1. <<>> \o ms = ms /\ <<>> \in Seq(Message)
    BY <1>1, ConcatEmptySeq, EmptySeq
  <2>2. Joins(<<>>, ms, ms)
    BY <2>1 DEF Joins
  <2> QED
    BY <1>1, <2>1, <2>2 DEF Decodes
<1>4. PICK g : /\ g[0] = [left |-> b, frames |-> <<>>] /\ RfcDecode(b) = g[n].frames
               /\ \A i \in 0..n : g[i] \in Decodes(ms)
               /\ \A i \in 1..n : g[i] = RfcNext(g[i - 1])
  <2>1. \A r \in Decodes(ms) : RfcNext(r) \in Decodes(ms)
    BY DecodesNext
  <2> QED
    BY <1>1, <1>2, <1>3, <2>1, DecodeRuns
<1>5. \A i \in 0..n : Len(g[i].left) \in Nat
  BY <1>4 DEF Decodes
<1> DEFINE T == {i \in 0..n : Len(g[i].left) <= n - i}
<1>6. 0 \in T
  BY <1>2, <1>4
<1>7. ASSUME NEW i \in 1..n, i - 1 \in T PROVE i \in T
  <2>1. i - 1 \in 0..n /\ i \in 0..n
    OBVIOUS
  <2>2. PICK x \in Nat, y \in Nat : x = Len(g[i - 1].left) /\ y = Len(g[i].left)
    BY <1>5, <2>1
  <2>3. x <= n - (i - 1)
    BY <1>7, <2>2
  <2>4. (x > 0 => y < x) /\ (x = 0 => y = x)
    BY <1>4, <2>1, <2>2, DecodesNext
  <2> QED
    BY <2>1, <2>2, <2>3, <2>4, SMTT(60)
<1> HIDE DEF T
<1>8. 0..n \subseteq T
  BY <1>6, <1>7, Induction
<1>9. Len(g[n].left) = 0
  <2>1. n \in T
    BY <1>8
  <2>2. Len(g[n].left) <= n - n
    BY <2>1 DEF T
  <2> QED
    BY <1>5, <2>2
<1>10. PICK r \in Decodes(ms) : r = g[n]
  BY <1>4
<1>11. r.frames = ms
  BY <1>9, <1>10, DecodesNext
<1> QED
  BY <1>4, <1>10, <1>11

-----------------------------------------------------------------------------
(* What the client reads. *)

(* The first of what remains joins what is done.                           *)
LEMMA Advance ==
    ASSUME NEW S, NEW a \in Seq(S), NEW m \in S, NEW r \in Seq(S), NEW r2 \in Seq(S), NEW s,
           Joins(a, r, s), Joins(<<m>>, r2, r)
    PROVE  Append(a, m) \in Seq(S) /\ Joins(Append(a, m), r2, s)
<1>1. PICK one \in Seq(S) : one = <<m>>
  <2>1. <<m>> \in Seq(S)
    OBVIOUS
  <2> QED
    BY <2>1
<1>2. PICK a2 \in Seq(S) : a2 = Append(a, m)
  BY AppendProperties
<1>3. a2 = a \o one
  BY <1>1, <1>2, AppendIsConcat
<1>4. (a \o one) \o r2 = a \o (one \o r2)
  BY ONLY a \in Seq(S), one \in Seq(S), r2 \in Seq(S), ConcatAssociative, SMTT(60)
<1>5. r = one \o r2 /\ s = a \o r
  BY <1>1 DEF Joins
<1>6. s = a2 \o r2
  BY ONLY <1>3, <1>4, <1>5, Zenon
<1> QED
  BY <1>2, <1>6 DEF Joins

(* What comes at the end comes at the end of what remains.                 *)
LEMMA GrowsByOne ==
    ASSUME NEW S, NEW a \in Seq(S), NEW r \in Seq(S), NEW s, Joins(a, r, s), NEW m \in S
    PROVE  Joins(a, Append(r, m), Append(s, m)) /\ Append(r, m) \in Seq(S)
<1>1. PICK one \in Seq(S) : one = <<m>>
  <2>1. <<m>> \in Seq(S)
    OBVIOUS
  <2> QED
    BY <2>1
<1>2. s = a \o r
  BY DEF Joins
<1>3. s \in Seq(S)
  BY <1>2, ConcatProperties
<1>4. Append(s, m) = s \o one /\ Append(r, m) = r \o one
  BY <1>1, <1>3, AppendIsConcat
<1>5. (a \o r) \o one = a \o (r \o one)
  BY ONLY a \in Seq(S), one \in Seq(S), r \in Seq(S), ConcatAssociative
<1>6. Append(s, m) = a \o Append(r, m)
  BY ONLY <1>2, <1>4, <1>5, Zenon
<1> QED
  BY <1>6, AppendProperties DEF Joins

(* A byte goes from the start of one sequence to the end of another:       *)
(* together they stay what they were.                                      *)
LEMMA MoveByte ==
    ASSUME NEW S, NEW s \in Seq(S), NEW t \in Seq(S), Len(t) > 0
    PROVE  /\ Head(t) \in S /\ Tail(t) \in Seq(S) /\ Append(s, Head(t)) \in Seq(S)
           /\ Append(s, Head(t)) \o Tail(t) = s \o t
           /\ Len(Append(s, Head(t))) = Len(s) + 1 /\ Joins(s, <<Head(t)>>, Append(s, Head(t)))
<1>1. t # <<>>
  BY EmptySeq
<1>2. Head(t) \in S /\ Tail(t) \in Seq(S)
  BY <1>1, HeadTailProperties
<1>3. PICK one \in Seq(S) : one = <<Head(t)>>
  <2>1. <<Head(t)>> \in Seq(S)
    BY <1>2
  <2> QED
    BY <2>1
<1>4. PICK u \in Seq(S) : u = Tail(t)
  BY <1>2
<1>5. Append(s, Head(t)) = s \o one /\ Append(s, Head(t)) \in Seq(S)
      /\ Len(Append(s, Head(t))) = Len(s) + 1
  BY <1>2, <1>3, AppendIsConcat, AppendProperties
<1>6. t = one \o u
  <2>1. t = <<Head(t)>> \o Tail(t)
    BY <1>1
  <2> QED
    BY ONLY <1>3, <1>4, <2>1, Zenon
<1>7. (s \o one) \o u = s \o (one \o u)
  BY ONLY s \in Seq(S), one \in Seq(S), u \in Seq(S), ConcatAssociative
<1>8. Append(s, Head(t)) \o Tail(t) = s \o t
  BY ONLY <1>4, <1>5, <1>6, <1>7, Zenon
<1>9. Joins(s, <<Head(t)>>, Append(s, Head(t)))
  BY ONLY <1>3, <1>5, Zenon DEF Joins
<1> QED
  BY <1>2, <1>5, <1>8, <1>9

(* The same for k of them at once.                                         *)
Moved(S, s, t, k, u, v) ==
    /\ u \in Seq(S) /\ v \in Seq(S) /\ u \o v = s \o t
    /\ Len(u) = Len(s) + k /\ \E w \in Seq(S) : Joins(s, w, u)

(* Moving k bytes does that.                                               *)
LEMMA MoveBytes ==
    ASSUME NEW S, NEW s \in Seq(S), NEW t \in Seq(S), NEW k \in 0..Len(t), NEW u, NEW v,
           u = s \o SubSeq(t, 1, k), v = SubSeq(t, k + 1, Len(t))
    PROVE  Moved(S, s, t, k, u, v)
<1>1. PICK w, z : w = SubSeq(t, 1, k) /\ z = SubSeq(t, k + 1, Len(t))
  OBVIOUS
<1>2. w \in Seq(S) /\ z \in Seq(S) /\ Len(w) = k /\ t = w \o z
  BY ONLY <1>1, t \in Seq(S), k \in 0..Len(t), Cut, ZenonT(60)
<1>3. u = s \o w /\ v = z
  BY <1>1
<1>4. u \in Seq(S) /\ Len(u) = Len(s) + k
  BY ONLY <1>2, <1>3, s \in Seq(S), ConcatProperties
<1>5. (s \o w) \o z = s \o (w \o z)
  BY ONLY <1>2, s \in Seq(S), ConcatAssociative
<1>6. u \o v = s \o t
  BY ONLY <1>2, <1>3, <1>5, Zenon
<1>7. Joins(s, w, u)
  BY <1>3 DEF Joins
<1> QED
  BY <1>2, <1>3, <1>4, <1>6, <1>7 DEF Moved

(* No frame of more than 2^32 bytes.                                       *)
NoneHuge(ms) == \A i \in 1..Len(ms) : ms[i].op # "huge"

(* Without one, the stream of the server is as the RFC has it.             *)
LEMMA PlainStream ==
    ASSUME NEW b, NEW ms, <<b, ms>> \in Streams(ServerFrames), NoneHuge(ms)
    PROVE  <<b, ms>> \in Streams(RfcFrames)
<1> DEFINE T == {s \in Universe : NoneHuge(s[2]) => s \in Streams(RfcFrames)}
<1>1. ASSUME NEW x \in Seq(Byte), NEW l \in Seq(Message), NEW e \in Seq(Byte), NEW m \in Message,
             <<x, l>> \in T, <<e, m>> \in ServerFrames
      PROVE  <<x \o e, Append(l, m)>> \in T
  <2>1. PICK y \in Seq(Byte) : y = x \o e
    BY ConcatProperties
  <2>2. PICK k \in Seq(Message) : k = Append(l, m)
    BY AppendProperties
  <2>3. Len(k) = Len(l) + 1 /\ k[Len(l) + 1] = m /\ \A i \in 1..Len(l) : k[i] = l[i]
    BY <2>2, AppendProperties
  <2>4. ASSUME NoneHuge(k) PROVE <<y, k>> \in Streams(RfcFrames)
    <3>1. NoneHuge(l)
      BY <2>3, <2>4 DEF NoneHuge
    <3>2. m.op # "huge"
      <4>1. Len(l) + 1 \in 1..Len(k)
        BY <2>3
      <4> QED
        BY <2>3, <2>4, <4>1 DEF NoneHuge
    <3>3. <<x, l>> \in Streams(RfcFrames)
      BY <1>1, <3>1
    <3>4. <<e, m>> \in RfcFrames
      <4>1. PICK p \in ServerFrames : p = <<e, m>>
        BY <1>1
      <4> QED
        BY <3>2, <4>1, ServerFramesRead
    <3>5. <<x \o e, Append(l, m)>> \in Streams(RfcFrames)
      BY <3>3, <3>4, StreamsGrow DEF Grows
    <3> QED
      BY <2>1, <2>2, <3>5
  <2>5. <<y, k>> \in Universe
    BY DEF Universe
  <2> QED
    BY <2>1, <2>2, <2>4, <2>5
<1>2. <<<<>>, <<>>>> \in T
  BY StreamsGrow DEF Grows, Streams
<1>3. T \in SUBSET Universe
  OBVIOUS
<1> HIDE DEF T
<1>4. Grows(T, ServerFrames)
  BY <1>1, <1>2 DEF Grows
<1>5. <<b, ms>> \in T
  BY <1>3, <1>4, StreamsLeast
<1> QED
  BY <1>5 DEF T

(* After the header h comes a whole frame, and then a stream.              *)
HasWhole(h, after, ms) ==
    \E body \in Seq(0..1), m \in Message, b2 \in Seq(Byte), ms2 \in Seq(Message) :
       /\ Joins(body, b2, after) /\ <<b2, ms2>> \in Streams(ServerFrames) /\ Joins(<<m>>, ms2, ms)
       /\ PayloadLen(h) \in Nat
       /\ PayloadLen(h) <= MaxData => Len(body) = PayloadLen(h) /\ m = Read(h, body)

(* When the client has as many bytes as the header it has read so far asks *)
(* for, they are exactly the header of the frame the server sent: h and    *)
(* that header begin the same stream, so that each field h is judged by is *)
(* the server's.                                                           *)
LEMMA HeaderComplete ==
    ASSUME NEW h \in Seq(Byte), NEW after \in Seq(Byte), NEW all, Joins(h, after, all), NEW ms,
           <<all, ms>> \in Streams(ServerFrames), Len(h) >= 2, Len(h) = RfcStart(h)
    PROVE  h \in Headers /\ HasWhole(h, after, ms)
<1>1. all \in Seq(Byte) /\ ms \in Seq(Message)
  BY StreamTyped
<1>2. HasFirst(ServerFrames, all, ms)
  <2>1. Len(all) = Len(h) + Len(after)
    BY ONLY h \in Seq(Byte), after \in Seq(Byte), Joins(h, after, all), ConcatProperties DEF Joins
  <2>2. all # <<>>
    BY <2>1, EmptySeq
  <2> QED
    BY <2>2, StreamFirst
<1>3. PICK e \in Seq(Byte), m \in Message, b2 \in Seq(Byte), ms2 \in Seq(Message) :
        /\ <<e, m>> \in ServerFrames /\ <<b2, ms2>> \in Streams(ServerFrames)
        /\ Joins(e, b2, all) /\ Joins(<<m>>, ms2, ms)
  BY <1>2 DEF HasFirst
<1>4. <<e, m>> \in ClientFrames
  <2>1. PICK p \in ServerFrames : p = <<e, m>>
    BY <1>3
  <2> QED
    BY <2>1, ServerFramesRead
<1>5. PICK hd \in Headers, body \in Seq(0..1) :
         /\ Joins(hd, body, e) /\ PayloadLen(hd) \in Nat
         /\ PayloadLen(hd) <= MaxData => Len(body) = PayloadLen(hd) /\ m = Read(hd, body)
  BY <1>4 DEF ClientFrames
<1>6. hd \in Seq(Byte) /\ Len(hd) >= 2 /\ Len(hd) = RfcStart(hd)
  BY HeaderParts
<1>7. body \in Seq(Byte)
  <2>1. 0..1 \subseteq Byte
    BY DEF Byte
  <2> QED
    BY <2>1, SeqMonotonic
<1>8. PICK t \in Seq(Byte) : Joins(body, b2, t)
  BY ONLY <1>7, b2 \in Seq(Byte), ConcatProperties DEF Joins
<1>9. Joins(hd, t, all)
  BY ONLY <1>3, <1>5, <1>6, <1>7, <1>8, b2 \in Seq(Byte), Regroup
<1>10. RfcStart(h) = RfcStart(hd)
  <2>1. CASE Len(h) <= Len(hd)
    <3>1. PICK u \in Seq(Byte) : Joins(h, u, hd)
      BY ONLY <1>6, <1>9, <2>1, h \in Seq(Byte), after \in Seq(Byte), t \in Seq(Byte),
              Joins(h, after, all), Levi
    <3> QED
      BY <1>6, <3>1, PrefixFields
  <2>2. CASE Len(hd) <= Len(h)
    <3>1. PICK u \in Seq(Byte) : Joins(hd, u, h)
      BY ONLY <1>6, <1>9, <2>2, h \in Seq(Byte), after \in Seq(Byte), t \in Seq(Byte),
              Joins(h, after, all), Levi
    <3> QED
      BY <1>6, <3>1, PrefixFields
  <2>3. Len(h) \in Nat /\ Len(hd) \in Nat
    BY <1>6
  <2> QED
    BY <2>1, <2>2, <2>3
<1>11. h = hd /\ after = t
  <2>1. Len(h) = Len(hd)
    BY <1>6, <1>10
  <2>2. SubSeq(h \o after, 1, Len(h)) = h /\ SubSeq(h \o after, Len(h) + 1, Len(h \o after)) = after
    BY ONLY h \in Seq(Byte), after \in Seq(Byte), Uncut
  <2>3. SubSeq(hd \o t, 1, Len(hd)) = hd /\ SubSeq(hd \o t, Len(hd) + 1, Len(hd \o t)) = t
    BY ONLY <1>6, t \in Seq(Byte), Uncut, SMTT(60)
  <2>4. h \o after = hd \o t
    BY <1>9 DEF Joins
  <2> QED
    BY ONLY <2>1, <2>2, <2>3, <2>4
<1> QED
  BY <1>3, <1>5, <1>8, <1>11 DEF HasWhole

-----------------------------------------------------------------------------
(* Pings and pongs. *)

(* The data of some messages, and one message more.                        *)
Datas == Seq(Seq(0..1))
Picked(op, m, x) == IF m.op = op THEN Append(x, m.data) ELSE x
OfStep(op, ms) == [x \in Datas |-> [i \in 1..Len(ms) |-> Picked(op, ms[i], x)]]

(* They are sequences of payloads.                                         *)
LEMMA PickedTyped ==
    ASSUME NEW op, NEW m \in Message, NEW x \in Datas
    PROVE  Picked(op, m, x) \in Datas
<1>1. m.data \in Seq(0..1)
  BY DEF Message
<1>2. Append(x, m.data) \in Datas
  BY ONLY <1>1, x \in Datas, AppendProperties DEF Datas
<1> QED
  BY <1>2 DEF Picked

(* The recursive function of Of is a run.                                  *)
LEMMA OfRuns ==
    ASSUME NEW op, NEW ms \in Seq(Message)
    PROVE  \E g : Runs(g, Len(ms), Datas, <<>>, OfStep(op, ms)) /\ Of(op, ms) = g[Len(ms)]
<1>0. PICK n \in Nat : n = Len(ms)
  BY LenProperties
<1>1. PICK r0 \in Datas : r0 = <<>>
  BY EmptySeq DEF Datas
<1> DEFINE IsUpto(g) == g = [k \in 0..n |-> IF k = 0 THEN r0 ELSE Picked(op, ms[k], g[k - 1])]
<1>2. PICK step : step = OfStep(op, ms)
  OBVIOUS
<1>3. /\ step \in [Datas -> [1..n -> Datas]]
      /\ \A x \in Datas, i \in 1..n : step[x][i] = Picked(op, ms[i], x)
  <2>1. \A i \in 1..n : ms[i] \in Message
    BY <1>0, ElementOfSeq
  <2>2. \A x \in Datas, i \in 1..n : Picked(op, ms[i], x) \in Datas
    BY <2>1, PickedTyped
  <2> QED
    BY <1>0, <1>2, <2>2 DEF OfStep
<1>4. PICK u : u = Of(op, ms)
  OBVIOUS
<1>5. (\E g : IsUpto(g)) => \E g : IsUpto(g) /\ u = g[n]
  BY <1>0, <1>1, <1>4 DEF Of, Picked
<1>6. PICK g : Runs(g, n, Datas, r0, step)
  BY ONLY <1>3, n \in Nat, r0 \in Datas, Recursion
<1>7. g \in [0..n -> Datas] /\ g[0] = r0
  BY <1>6 DEF Runs
<1>8. ASSUME NEW i \in 1..n PROVE g[i] = Picked(op, ms[i], g[i - 1])
  <2>1. i - 1 \in 0..n
    OBVIOUS
  <2>2. g[i] = step[g[i - 1]][i] /\ g[i - 1] \in Datas
    BY <1>6, <2>1 DEF Runs
  <2> QED
    BY <1>3, <2>2
<1>9. IsUpto(g)
  <2>1. ASSUME NEW k \in 0..n PROVE g[k] = IF k = 0 THEN r0 ELSE Picked(op, ms[k], g[k - 1])
    <3>1. CASE k = 0
      BY <1>7, <3>1
    <3>2. CASE k # 0
      <4>1. k \in 1..n
        BY <3>2
      <4> QED
        BY <1>8, <3>2, <4>1
    <3> QED
      BY <3>1, <3>2
  <2> QED
    BY <1>7, <2>1
<1>10. PICK h : IsUpto(h) /\ u = h[n]
  BY ONLY <1>5, <1>9
<1>11. h[0] = r0 /\ \A i \in 1..n : h[i] = Picked(op, ms[i], h[i - 1])
  <2>1. h[0] = r0
    BY <1>10
  <2>2. ASSUME NEW i \in 1..n PROVE h[i] = Picked(op, ms[i], h[i - 1])
    <3>1. i \in 0..n /\ i # 0
      OBVIOUS
    <3> QED
      BY <1>10, <3>1
  <2> QED
    BY <2>1, <2>2
<1>12. DOMAIN h = 0..n /\ h = [k \in 0..n |-> h[k]]
  BY <1>10
<1> HIDE DEF IsUpto
<1>13. \A i \in 0..n : h[i] \in Datas
  <2> DEFINE T == {i \in 0..n : h[i] \in Datas}
  <2>1. 0 \in T
    BY <1>11
  <2>2. ASSUME NEW i \in 1..n, i - 1 \in T PROVE i \in T
    <3>1. ms[i] \in Message
      BY <1>0, ElementOfSeq
    <3> QED
      BY <1>11, <2>2, <3>1, PickedTyped
  <2> HIDE DEF T
  <2>3. 0..n \subseteq T
    BY <2>1, <2>2, Induction
  <2> QED
    BY <2>3 DEF T
<1>14. Runs(h, n, Datas, r0, step)
  <2>1. ASSUME NEW i \in 1..n PROVE h[i] = step[h[i - 1]][i]
    <3>1. h[i - 1] \in Datas
      BY <1>13
    <3> QED
      BY <1>3, <1>11, <3>1
  <2> QED
    BY <1>11, <1>12, <1>13, <2>1 DEF Runs
<1> QED
  BY <1>0, <1>1, <1>2, <1>4, <1>10, <1>14

(* No messages, no data.                                                   *)
LEMMA OfEmpty == ASSUME NEW op PROVE Of(op, <<>>) = <<>>
<1>1. PICK ms \in Seq(Message) : ms = <<>>
  BY EmptySeq
<1>2. PICK g : Runs(g, Len(ms), Datas, <<>>, OfStep(op, ms)) /\ Of(op, ms) = g[Len(ms)]
  BY OfRuns
<1>3. Len(ms) = 0
  BY <1>1, EmptySeq
<1> QED
  BY <1>1, <1>2, <1>3 DEF Runs

(* One message more adds its data, or nothing.                             *)
LEMMA OfAppend ==
    ASSUME NEW op, NEW ms \in Seq(Message), NEW m \in Message
    PROVE  Of(op, Append(ms, m)) = Picked(op, m, Of(op, ms))
<1>1. PICK n \in Nat : n = Len(ms)
  BY LenProperties
<1>2. PICK l \in Seq(Message) : l = Append(ms, m)
  BY AppendProperties
<1>3. Len(l) = n + 1 /\ l[n + 1] = m /\ \A i \in 1..n : l[i] = ms[i]
  BY <1>1, <1>2, AppendProperties
<1>4. PICK s1, s2 : s1 = OfStep(op, ms) /\ s2 = OfStep(op, l)
  OBVIOUS
<1>5. PICK g : Runs(g, n, Datas, <<>>, s1) /\ Of(op, ms) = g[n]
  BY <1>1, <1>4, OfRuns
<1>6. PICK h : Runs(h, n + 1, Datas, <<>>, s2) /\ Of(op, l) = h[n + 1]
  BY <1>3, <1>4, OfRuns
<1>7. \A x \in Datas, i \in 1..n : s1[x][i] = s2[x][i]
  <2>1. \A x \in Datas, i \in 1..n : s1[x][i] = Picked(op, ms[i], x)
    BY <1>1, <1>4 DEF OfStep
  <2>2. \A x \in Datas, i \in 1..n : s2[x][i] = Picked(op, l[i], x)
    BY <1>3, <1>4 DEF OfStep
  <2> QED
    BY <1>3, <2>1, <2>2
<1>8. PICK k \in Nat : k = n + 1
  OBVIOUS
<1>9. \A i \in 0..n : g[i] = h[i]
  <2>1. n <= k /\ Runs(h, k, Datas, <<>>, s2)
    BY <1>6, <1>8
  <2> QED
    BY ONLY <1>5, <1>7, <2>1, n \in Nat, k \in Nat, RunsAgree
<1>10. h[n] = g[n] /\ h[n] \in Datas /\ h[n + 1] = s2[h[n]][n + 1]
  <2>1. n \in 0..n /\ n \in 0..(n + 1) /\ n + 1 \in 1..(n + 1) /\ (n + 1) - 1 = n
    OBVIOUS
  <2>2. h \in [0..(n + 1) -> Datas] /\ \A i \in 1..(n + 1) : h[i] = s2[h[i - 1]][i]
    BY <1>6 DEF Runs
  <2>3. h[n + 1] = s2[h[(n + 1) - 1]][n + 1]
    BY <2>1, <2>2
  <2> QED
    BY <1>9, <2>1, <2>2, <2>3
<1>11. s2[h[n]][n + 1] = Picked(op, l[n + 1], h[n])
  <2>1. n + 1 \in 1..Len(l)
    BY <1>3
  <2> QED
    BY <1>4, <1>10, <2>1 DEF OfStep
<1>12. Of(op, l) = Picked(op, m, Of(op, ms))
  BY <1>3, <1>5, <1>6, <1>10, <1>11
<1> QED
  BY <1>2, <1>12

-----------------------------------------------------------------------------
(* The invariant and the steps. *)

(* The w bytes that readCb waits for end a part of the header: its first   *)
(* two bytes, then the length, then the key.                               *)
AwaitsHeader(h, w) ==
    \/ Len(h) + w = 2
    \/ Len(h) >= 2 /\ Len(h) + w = 2 + LengthBytes(h)
    \/ Len(h) >= 2 + LengthBytes(h) /\ Len(h) >= 2 /\ h[2].mask /\ Len(h) + w = 6 + LengthBytes(h)
(* Or they are the rest of the payload that the header announced.          *)
AwaitsPayload(h, p, w) == h \in Headers /\ PayloadLen(h) <= MaxData /\ Len(p) + w = PayloadLen(h)
(* The bytes of the frame being read and those not read yet are a stream   *)
(* that carries rest.                                                      *)
Left(h, p, i, rest) == <<h \o (p \o i), rest>> \in Streams(ServerFrames)

(* The inductive invariant.  InOrder: what was not delivered is what the   *)
(* bytes still carry, those already in cWsHeader and in the payload        *)
(* included.  Answers: the bytes written carry what was said, and the      *)
(* pongs answer the pings.                                                 *)
Typed ==
    /\ tcp \in {"up", "lost", "NULL"} /\ inbox \in Seq(Byte)
    /\ header \in Seq(Byte) /\ payload \in Seq(Byte) /\ Len(header) <= 14
    /\ block \in BOOLEAN /\ want \in Nat /\ into \in {"header", "payload"}
    /\ trouble \in 0..MaxTrouble /\ failed \in BOOLEAN
    /\ sent \in Seq(Message) /\ delivered \in Seq(Message)
Reads ==
    /\ want = 0 => block = FALSE /\ (tcp # "NULL" => header = <<>> /\ payload = <<>>)
    /\ want > 0 => tcp # "NULL"
    /\ want > 0 /\ into = "header" => block = FALSE /\ payload = <<>> /\ AwaitsHeader(header, want)
    /\ want > 0 /\ into = "payload" => block = TRUE /\ AwaitsPayload(header, payload, want)
InOrder ==
    \E rest \in Seq(Message) :
       Joins(delivered, rest, sent) /\ (tcp # "NULL" => Left(header, payload, inbox, rest))
Answers ==
    ~failed => <<wire, said>> \in Streams(RfcFrames) /\ Of("pong", said) = Of("ping", delivered)
IInv == Typed /\ Reads /\ InOrder /\ Answers

(* A stream at the first byte of a frame or in its header.                 *)
LEMMA LeftOf ==
    ASSUME NEW i \in Seq(Byte), NEW rest, NEW h \in Seq(Byte)
    PROVE  /\ Left(h, <<>>, i, rest) <=> <<h \o i, rest>> \in Streams(ServerFrames)
           /\ Left(<<>>, <<>>, i, rest) <=> <<i, rest>> \in Streams(ServerFrames)
<1>1. <<>> \o i = i
  BY ConcatEmptySeq
<1> QED
  BY ONLY <1>1, Zenon DEF Left

(* cWsHeader has room for what readCb waits for.                           *)
LEMMA HeaderAwaited ==
    ASSUME NEW h \in Seq(Byte), NEW w \in Nat, AwaitsHeader(h, w)
    PROVE  Len(h) + w <= 14
<1>1. LengthBytes(h) \in {0, 2, 8}
  BY DEF LengthBytes
<1> QED
  BY <1>1 DEF AwaitsHeader

(* The first state.                                                        *)
LEMMA InitHolds == Init => IInv
<1> SUFFICES ASSUME Init PROVE IInv
  OBVIOUS
<1>1. PICK none, nothing : none = <<>> /\ nothing = <<>> /\ none \in Seq(Byte) /\ nothing \in Seq(Message)
  BY EmptySeq
<1>2. MaxTrouble \in Nat
  BY FrameAssumption
<1>3. Len(header) = 0
  BY EmptySeq DEF Init
<1>4. Typed
  <2>1. inbox = none /\ header = none /\ payload = none /\ sent = nothing /\ delivered = nothing
    BY <1>1 DEF Init
  <2>2. tcp = "up" /\ block = FALSE /\ want = 0 /\ into = "header" /\ trouble = MaxTrouble /\ failed = FALSE
    BY DEF Init
  <2> QED
    <3>1. /\ tcp \in {"up", "lost", "NULL"} /\ block \in BOOLEAN
          /\ into \in {"header", "payload"} /\ failed \in BOOLEAN
      BY ONLY <2>2
    <3>2. want \in Nat /\ trouble \in 0..MaxTrouble /\ Len(header) <= 14
      BY ONLY <1>2, <1>3, <2>2
    <3>3. inbox \in Seq(Byte) /\ header \in Seq(Byte) /\ payload \in Seq(Byte)
      BY ONLY <1>1, <2>1, Zenon
    <3>4. sent \in Seq(Message) /\ delivered \in Seq(Message)
      BY ONLY <1>1, <2>1, Zenon
    <3> QED
      BY ONLY <3>1, <3>2, <3>3, <3>4, Zenon DEF Typed
<1>5. Reads
  BY DEF Init, Reads
<1>6. <<none, nothing>> \in Streams(RfcFrames) /\ <<none, nothing>> \in Streams(ServerFrames)
  BY <1>1, StreamsGrow DEF Grows
<1>7. InOrder
  <2>1. Left(<<>>, <<>>, none, nothing)
    BY <1>1, <1>6, LeftOf
  <2>2. Joins(nothing, nothing, nothing)
    <3>1. nothing \o <<>> = nothing
      BY <1>1, ConcatEmptySeq
    <3> QED
      BY ONLY <1>1, <3>1, Zenon DEF Joins
  <2> QED
    BY <1>1, <2>1, <2>2 DEF Init, InOrder
<1>8. Answers
  <2>1. Of("pong", said) = Of("ping", delivered)
    BY OfEmpty DEF Init
  <2> QED
    BY <1>1, <1>6, <2>1 DEF Init, Answers
<1> QED
  BY <1>4, <1>5, <1>7, <1>8 DEF IInv

(* A frame of the server comes to the end of the stream.                   *)
LEMMA ServerSent ==
    ASSUME IInv, NEW e, NEW m, <<e, m>> \in ServerFrames, tcp = "up",
           inbox' = inbox \o e, sent' = Append(sent, m),
           UNCHANGED <<tcp, reading, writing, trouble, delivered>>
    PROVE  IInv'
<1>1. e \in Seq(Byte) /\ m \in Message
  <2>1. PICK p \in ServerFrames : p = <<e, m>>
    OBVIOUS
  <2>2. p \in ClientFrames
    BY <2>1, ServerFramesRead
  <2>3. p \in Frames
    BY <2>2 DEF ClientFrames
  <2> QED
    BY <2>1, <2>3 DEF Frames
<1>2. Typed
  BY DEF IInv
<1>3. inbox \in Seq(Byte) /\ header \in Seq(Byte) /\ payload \in Seq(Byte)
      /\ sent \in Seq(Message) /\ delivered \in Seq(Message)
  BY <1>2 DEF Typed
<1>4. inbox' \in Seq(Byte)
  <2>1. inbox \o e \in Seq(Byte)
    BY ONLY <1>1, <1>3, ConcatProperties
  <2> QED
    BY <2>1
<1>5. sent' \in Seq(Message)
  BY <1>1, <1>3, AppendProperties
<1>6. Typed'
  BY <1>2, <1>4, <1>5 DEF Typed, reading, writing
<1>7. Reads'
  BY DEF IInv, Reads, reading
<1>8. Answers'
  BY DEF IInv, Answers, writing
<1>9. PICK rest \in Seq(Message) : Joins(delivered, rest, sent) /\ Left(header, payload, inbox, rest)
  BY DEF IInv, InOrder
<1>10. Joins(delivered, Append(rest, m), Append(sent, m)) /\ Append(rest, m) \in Seq(Message)
  BY ONLY <1>1, <1>3, <1>9, rest \in Seq(Message), GrowsByOne
<1>11. Left(header, payload, inbox \o e, Append(rest, m))
  <2>1. PICK q, all : q = payload \o inbox /\ all = header \o q
    OBVIOUS
  <2>2. q \in Seq(Byte)
    BY ONLY <1>3, <2>1, ConcatProperties
  <2>3. all \in Seq(Byte)
    BY ONLY <1>3, <2>1, <2>2, ConcatProperties
  <2>4. <<all, rest>> \in Streams(ServerFrames)
    BY <1>9, <2>1 DEF Left
  <2>5. <<all \o e, Append(rest, m)>> \in Streams(ServerFrames)
    BY <1>1, <2>3, <2>4, StreamsGrow DEF Grows
  <2>6. PICK z, more : z = q \o e /\ more = inbox \o e
    OBVIOUS
  <2>7. Joins(payload, more, z)
    <3>1. Joins(payload, inbox, q) /\ Joins(q, e, z) /\ Joins(inbox, e, more)
      BY ONLY <2>1, <2>6, Zenon DEF Joins
    <3> QED
      BY ONLY <1>1, <1>3, <3>1, Regroup
  <2>8. Joins(header, z, all \o e)
    <3>1. Joins(header, q, all) /\ Joins(all, e, all \o e) /\ Joins(q, e, z)
      BY ONLY <2>1, <2>6, Zenon DEF Joins
    <3> QED
      BY ONLY <1>1, <1>3, <2>2, <3>1, Regroup
  <2>9. all \o e = header \o (payload \o (inbox \o e))
    BY ONLY <2>6, <2>7, <2>8, Zenon DEF Joins
  <2> QED
    BY ONLY <2>5, <2>9, Zenon DEF Left
<1>12. InOrder'
  BY <1>10, <1>11 DEF InOrder, reading
<1> QED
  BY <1>6, <1>7, <1>8, <1>12 DEF IInv

(* clientDisconnect: whatever becomes of the close frame, nothing is left  *)
(* to read.                                                                *)
LEMMA Disconnected ==
    ASSUME IInv, ClientDisconnect, delivered' = delivered
    PROVE  /\ tcp' = "NULL" /\ inbox' \in Seq(Byte) /\ sent' = sent
           /\ trouble' \in 0..MaxTrouble /\ failed' \in BOOLEAN
           /\ InOrder' /\ Answers'
<1>1. tcp' = "NULL" /\ inbox' \in Seq(Byte) /\ sent' = sent
  BY EmptySeq DEF ClientDisconnect
<1>2. InOrder'
  BY <1>1 DEF IInv, InOrder
<1>3. Typed /\ Answers
  BY DEF IInv
<1>4. CASE tcp = "up" /\ SendFrame("close", CloseData, TRUE, FALSE)
  <2>1. "close" \in Opcodes /\ CloseData \in Seq(0..1) /\ Shifted(Len(CloseData), 4) = 0
    BY CloseShort DEF Opcodes, Control
  <2>2. trouble \in 0..MaxTrouble /\ failed \in BOOLEAN /\ (~failed => <<wire, said>> \in Streams(RfcFrames))
    BY <1>3 DEF Typed, Answers
  <2>3. PICK m : m = [fin |-> TRUE, op |-> "close", data |-> CloseData]
    OBVIOUS
  <2>4. m \in Message
    BY <2>1, <2>3 DEF Message
  <2>5. /\ trouble' \in 0..MaxTrouble /\ failed' \in BOOLEAN
        /\ ~failed' => ~failed /\ said' = Append(said, m) /\ <<wire', said'>> \in Streams(RfcFrames)
    BY <1>4, <2>1, <2>2, <2>3, SendFrameSays
  <2>6. ASSUME ~failed' PROVE Of("pong", said') = Of("ping", delivered')
    <3>1. said \in Seq(Message) /\ Of("pong", said) = Of("ping", delivered)
      BY <1>3, <2>2, <2>5, <2>6, StreamTyped DEF Answers
    <3>2. Of("pong", Append(said, m)) = Picked("pong", m, Of("pong", said))
      BY <2>4, <3>1, OfAppend
    <3>3. Picked("pong", m, Of("pong", said)) = Of("pong", said)
      BY <2>3 DEF Picked
    <3> QED
      BY <2>5, <2>6, <3>1, <3>2, <3>3
  <2>7. Answers'
    BY <2>5, <2>6 DEF Answers
  <2> QED
    BY <1>1, <1>2, <2>5, <2>7
<1>5. CASE NoFrame
  <2>1. wire' = wire /\ said' = said /\ failed' = failed /\ trouble' = trouble
    BY <1>5 DEF NoFrame
  <2>2. Answers'
    BY <1>3, <2>1 DEF Answers
  <2> QED
    BY <1>1, <1>2, <1>3, <2>1, <2>2 DEF Typed
<1> QED
  BY <1>4, <1>5 DEF ClientDisconnect

(* handleWebsocketPayloadCb with a whole message: it is the next one that  *)
(* the server sent, and a ping is answered.                                *)
LEMMA Dispatched ==
    ASSUME IInv, tcp = "up", NEW h \in Headers, NEW raw \in Seq(0..1), NEW after \in Seq(Byte),
           Dispatch(h, raw, after), PayloadLen(h) <= MaxData, Len(raw) = PayloadLen(h),
           NEW m \in Message, m = Read(h, raw), NEW ms2 \in Seq(Message),
           <<after, ms2>> \in Streams(ServerFrames), Joins(Append(delivered, m), ms2, sent)
    PROVE  IInv'
<1>1. Typed /\ Answers
  BY DEF IInv
<1>2. delivered \in Seq(Message) /\ sent \in Seq(Message)
  BY <1>1 DEF Typed
<1>3. PICK d2 \in Seq(Message) : d2 = Append(delivered, m)
  BY <1>2, AppendProperties
<1>4. PICK data : data = Masked(raw, MaskKey(h))
  OBVIOUS
<1>5. m = [fin |-> h[1].fin, op |-> h[1].op, data |-> data]
  BY <1>4 DEF Read
<1>6. header' = <<>> /\ payload' = <<>> /\ block' = FALSE /\ want' = 0 /\ into' = "header"
  BY DEF Dispatch
<1>7. Reads'
  BY <1>6 DEF Reads
<1>8. header' \in Seq(Byte) /\ payload' \in Seq(Byte) /\ Len(header') <= 14
  BY <1>6, EmptySeq
<1>9. ASSUME delivered' = d2, inbox' = after, tcp' = tcp, sent' = sent,
             trouble' \in 0..MaxTrouble, failed' \in BOOLEAN, Answers'
      PROVE  IInv'
  <2>1. Typed'
    BY <1>2, <1>6, <1>8, <1>9 DEF Typed
  <2>2. Left(<<>>, <<>>, after, ms2)
    BY LeftOf
  <2>3. InOrder'
    BY <1>3, <1>6, <1>9, <2>2 DEF InOrder
  <2> QED
    BY <1>7, <1>9, <2>1, <2>3 DEF IInv
<1>10. CASE /\ h[1].op \in {"text", "binary", "continuation", "pong"}
            /\ delivered' = Append(delivered, m)
            /\ NoFrame /\ inbox' = after /\ UNCHANGED <<tcp, sent>>
  <2>1. wire' = wire /\ said' = said /\ failed' = failed /\ trouble' = trouble
    BY <1>10 DEF NoFrame
  <2>2. Of("ping", d2) = Picked("ping", m, Of("ping", delivered))
    BY <1>2, <1>3, OfAppend
  <2>3. Picked("ping", m, Of("ping", delivered)) = Of("ping", delivered)
    BY <1>5, <1>10 DEF Picked
  <2>4. Answers'
    BY <1>1, <1>3, <1>10, <2>1, <2>2, <2>3 DEF Answers
  <2>5. trouble' \in 0..MaxTrouble /\ failed' \in BOOLEAN
    BY <1>1, <2>1 DEF Typed
  <2> QED
    BY <1>3, <1>9, <1>10, <2>4, <2>5
<1>11. CASE /\ h[1].op = "ping"
            /\ SendFrame("pong", data, TRUE, FALSE)
            /\ delivered' = Append(delivered, m)
            /\ inbox' = after /\ UNCHANGED <<tcp, sent>>
  <2>1. data \in Seq(0..1) /\ Len(data) = Len(raw)
    <3>1. MaskKey(h) \in Key4
      BY HeaderParts
    <3> QED
      BY <1>4, <3>1, MaskTwice
  <2>2. Shifted(Len(data), 4) = 0
    <3>1. MaxData \in Nat /\ Shifted(MaxData, 4) = 0
      BY FrameAssumption
    <3>2. PICK k \in Nat : k = Len(data) /\ k <= MaxData
      BY <2>1
    <3>3. Shifted(k, 4) <= Shifted(MaxData, 4)
      BY <3>1, <3>2, ShiftedKeepsOrder
    <3>4. Shifted(k, 4) \in Nat
      BY ShiftedStep
    <3> QED
      BY <3>1, <3>2, <3>3, <3>4
  <2>3. PICK p : p = [fin |-> TRUE, op |-> "pong", data |-> data]
    OBVIOUS
  <2>4. "pong" \in Opcodes
    BY DEF Opcodes, Control
  <2>5. p \in Message
    BY <2>1, <2>3, <2>4 DEF Message
  <2>6. trouble \in 0..MaxTrouble /\ failed \in BOOLEAN /\ (~failed => <<wire, said>> \in Streams(RfcFrames))
    BY <1>1 DEF Typed, Answers
  <2>7. /\ trouble' \in 0..MaxTrouble /\ failed' \in BOOLEAN
        /\ ~failed' => ~failed /\ said' = Append(said, p) /\ <<wire', said'>> \in Streams(RfcFrames)
    BY <1>11, <2>1, <2>2, <2>3, <2>4, <2>6, SendFrameSays
  <2>8. ASSUME ~failed' PROVE Of("pong", said') = Of("ping", delivered')
    <3>1. said \in Seq(Message) /\ Of("pong", said) = Of("ping", delivered)
      BY <1>1, <2>6, <2>7, <2>8, StreamTyped DEF Answers
    <3>2. Of("pong", Append(said, p)) = Picked("pong", p, Of("pong", said))
      BY <2>5, <3>1, OfAppend
    <3>3. Of("ping", Append(delivered, m)) = Picked("ping", m, Of("ping", delivered))
      BY <1>2, OfAppend
    <3>4. Picked("pong", p, Of("pong", said)) = Append(Of("pong", said), data)
      BY <2>3 DEF Picked
    <3>5. Picked("ping", m, Of("ping", delivered)) = Append(Of("ping", delivered), data)
      BY <1>5, <1>11 DEF Picked
    <3>6. said' = Append(said, p) /\ delivered' = Append(delivered, m)
      BY <1>11, <2>7, <2>8
    <3> QED
      BY ONLY <3>1, <3>2, <3>3, <3>4, <3>5, <3>6, Zenon
  <2>9. Answers'
    BY <2>7, <2>8 DEF Answers
  <2> QED
    BY <1>3, <1>9, <1>11, <2>7, <2>9
<1>12. CASE ClientDisconnect /\ UNCHANGED delivered
  <2>1. /\ tcp' = "NULL" /\ inbox' \in Seq(Byte) /\ sent' = sent
        /\ trouble' \in 0..MaxTrouble /\ failed' \in BOOLEAN
        /\ InOrder' /\ Answers'
    BY <1>12, Disconnected
  <2>2. Typed'
    BY <1>2, <1>6, <1>8, <1>12, <2>1 DEF Typed
  <2> QED
    BY <1>7, <2>1, <2>2 DEF IInv
<1>13. \/ /\ h[1].op \in {"text", "binary", "continuation", "pong"}
          /\ delivered' = Append(delivered, m)
          /\ NoFrame /\ inbox' = after /\ UNCHANGED <<tcp, sent>>
       \/ /\ h[1].op = "ping"
          /\ SendFrame("pong", data, TRUE, FALSE)
          /\ delivered' = Append(delivered, m)
          /\ inbox' = after /\ UNCHANGED <<tcp, sent>>
       \/ ClientDisconnect /\ UNCHANGED delivered
  BY <1>4, <1>5, Zenon DEF Dispatch
<1> QED
  BY <1>10, <1>11, <1>12, <1>13

(* More bytes of the header do not change what the read is to end.         *)
LEMMA HeaderGrown ==
    ASSUME NEW h \in Seq(Byte), NEW w \in Nat, AwaitsHeader(h, w),
           NEW t \in Seq(Byte), NEW h2 \in Seq(Byte), Joins(h, t, h2), NEW w2 \in Nat,
           Len(h2) + w2 = Len(h) + w
    PROVE  AwaitsHeader(h2, w2)
<1>1. PICK l \in Nat, l2 \in Nat : l = Len(h) /\ l2 = Len(h2) /\ l <= l2
  <2>1. Len(h2) = Len(h) + Len(t)
    BY ONLY h \in Seq(Byte), t \in Seq(Byte), Joins(h, t, h2), ConcatProperties DEF Joins
  <2> QED
    BY <2>1
<1>2. l2 + w2 = l + w
  BY <1>1
<1>3. CASE l + w = 2
  BY <1>1, <1>2, <1>3 DEF AwaitsHeader
<1>4. CASE ~(l + w = 2)
  <2>1. Len(h) >= 2
    BY <1>1, <1>4 DEF AwaitsHeader
  <2>2. h2[2] = h[2] /\ LengthBytes(h2) = LengthBytes(h)
    BY <2>1, PrefixFields
  <2>3. LengthBytes(h) \in Nat
    BY DEF LengthBytes
  <2> QED
    BY <1>1, <1>2, <1>4, <2>2, <2>3 DEF AwaitsHeader
<1> QED
  BY <1>3, <1>4

(* When a part of the header is read, handleWebsocketCb waits for another  *)
(* or has all of it.                                                       *)
LEMMA HeaderPartRead ==
    ASSUME NEW h \in Seq(Byte), AwaitsHeader(h, 0)
    PROVE  /\ Len(h) >= 2 /\ Len(h) <= 14
           /\ Len(h) < HeaderLen(h) => AwaitsHeader(h, HeaderLen(h) - Len(h)) /\ HeaderLen(h) - Len(h) \in Nat
           /\ Len(h) = HeaderLen(h) => Len(h) = RfcStart(h) /\ LengthKnown(h)
<1>1. PICK l \in Nat, k \in {0, 2, 8} : l = Len(h) /\ k = LengthBytes(h) /\ k = RfcExtra(h)
  BY DEF LengthBytes, RfcExtra
<1>2. l >= 2 /\ l <= 14
  <2>1. l + 0 = 2 \/ (l >= 2 /\ l + 0 = 2 + k) \/ (l >= 2 /\ l + 0 = 6 + k)
    BY ONLY <1>1, AwaitsHeader(h, 0), Zenon DEF AwaitsHeader
  <2> QED
    BY <2>1
<1>3. HeaderLen(h) = 2 + k + (IF l >= 2 + k /\ h[2].mask THEN 4 ELSE 0)
  BY <1>1, <1>2 DEF HeaderLen
<1>4. RfcStart(h) = 2 + k + (IF h[2].mask THEN 4 ELSE 0)
  BY <1>1 DEF RfcStart
<1>5. CASE l < 2 + k
  <2>1. HeaderLen(h) = 2 + k
    BY <1>3, <1>5
  <2>2. AwaitsHeader(h, (2 + k) - l)
    BY <1>1, <1>2, <1>5 DEF AwaitsHeader
  <2> QED
    BY <1>1, <1>2, <1>5, <2>1, <2>2
<1>6. CASE l >= 2 + k /\ h[2].mask
  <2>1. HeaderLen(h) = 6 + k /\ RfcStart(h) = 6 + k
    BY <1>3, <1>4, <1>6
  <2>2. l < 6 + k => AwaitsHeader(h, (6 + k) - l)
    BY <1>1, <1>2, <1>6 DEF AwaitsHeader
  <2> QED
    BY <1>1, <1>2, <1>6, <2>1, <2>2 DEF LengthKnown
<1>7. CASE l >= 2 + k /\ ~h[2].mask
  <2>1. HeaderLen(h) = 2 + k /\ RfcStart(h) = 2 + k
    BY <1>3, <1>4, <1>7
  <2> QED
    BY <1>1, <1>2, <1>7, <2>1 DEF LengthKnown
<1> QED
  BY <1>1, <1>5, <1>6, <1>7

(* The parts of the invariant, for citing.                                 *)
LEMMA Given ==
    ASSUME IInv
    PROVE  /\ Typed /\ Reads /\ InOrder /\ Answers
           /\ inbox \in Seq(Byte) /\ header \in Seq(Byte) /\ payload \in Seq(Byte)
           /\ sent \in Seq(Message) /\ delivered \in Seq(Message)
BY DEF IInv, Typed

(* The header so far and the bytes after it.                               *)
LEMMA HeaderHad ==
    ASSUME IInv, want > 0, into = "header", tcp = "up", want <= Len(inbox),
           NEW h, h = header \o SubSeq(inbox, 1, want),
           NEW after, after = SubSeq(inbox, want + 1, Len(inbox))
    PROVE  /\ h \in Seq(Byte) /\ after \in Seq(Byte) /\ AwaitsHeader(h, 0)
           /\ payload = <<>> /\ block = FALSE
           /\ \E rest \in Seq(Message) : /\ Joins(delivered, rest, sent)
                                         /\ <<h \o after, rest>> \in Streams(ServerFrames)
<1>1. inbox \in Seq(Byte) /\ header \in Seq(Byte)
  BY Given
<1>2. want \in Nat /\ payload = <<>> /\ block = FALSE /\ AwaitsHeader(header, want)
  BY Given DEF Typed, Reads
<1>3. PICK k \in 0..Len(inbox) : k = want
  BY <1>1, <1>2
<1>4. /\ h \in Seq(Byte) /\ after \in Seq(Byte) /\ h \o after = header \o inbox
      /\ Len(h) = Len(header) + k /\ \E w \in Seq(Byte) : Joins(header, w, h)
  <2>1. h = header \o SubSeq(inbox, 1, k) /\ after = SubSeq(inbox, k + 1, Len(inbox))
    BY <1>3
  <2>2. PICK s \in Seq(Byte), t \in Seq(Byte) : s = header /\ t = inbox
    BY <1>1
  <2>3. h = s \o SubSeq(t, 1, k) /\ after = SubSeq(t, k + 1, Len(t)) /\ k \in 0..Len(t)
    BY <2>1, <2>2
  <2>4. Moved(Byte, s, t, k, h, after)
    BY ONLY <2>3, s \in Seq(Byte), t \in Seq(Byte), MoveBytes
  <2> QED
    BY ONLY <2>2, <2>4 DEF Moved
<1>5. AwaitsHeader(h, 0)
  <2>1. PICK w \in Seq(Byte) : Joins(header, w, h)
    BY <1>4
  <2>2. PICK none \in Nat : none = 0
    OBVIOUS
  <2>3. Len(h) + none = Len(header) + want
    BY <1>1, <1>2, <1>3, <1>4, <2>2
  <2>4. AwaitsHeader(h, none)
    BY ONLY <1>1, <1>2, <1>4, <2>1, <2>3, none \in Nat, HeaderGrown
  <2> QED
    BY <2>2, <2>4
<1>6. PICK rest \in Seq(Message) : Joins(delivered, rest, sent) /\ Left(header, payload, inbox, rest)
  BY Given DEF InOrder
<1>7. <<header \o inbox, rest>> \in Streams(ServerFrames)
  BY <1>1, <1>2, <1>6, LeftOf
<1> QED
  BY <1>2, <1>4, <1>5, <1>6, <1>7

(* The ways out that leave cWsHeader as it is or empty it.                 *)
LEMMA Refuses ==
    ASSUME IInv, ClientDisconnect, want' = 0, block' = FALSE, header' \in Seq(Byte), Len(header') <= 14,
           UNCHANGED <<payload, into, delivered>>
    PROVE  IInv'
<1>1. /\ tcp' = "NULL" /\ inbox' \in Seq(Byte) /\ sent' = sent
      /\ trouble' \in 0..MaxTrouble /\ failed' \in BOOLEAN
      /\ InOrder' /\ Answers'
  BY Disconnected
<1>2. Typed'
  BY <1>1, Given DEF Typed
<1>3. Reads'
  BY <1>1 DEF Reads
<1> QED
  BY <1>1, <1>2, <1>3 DEF IInv

(* handleWebsocketCb, when a part of the header is read.                   *)
LEMMA HeaderSteps == ASSUME IInv, HeaderRead PROVE IInv'
<1>1. PICK h, after : /\ h = header \o SubSeq(inbox, 1, want)
                      /\ after = SubSeq(inbox, want + 1, Len(inbox))
  OBVIOUS
<1>2. want > 0 /\ into = "header" /\ tcp = "up" /\ want <= Len(inbox)
  BY DEF HeaderRead
<1>3. /\ h \in Seq(Byte) /\ after \in Seq(Byte) /\ AwaitsHeader(h, 0) /\ payload = <<>> /\ block = FALSE
  BY <1>1, <1>2, HeaderHad
<1>4. PICK rest \in Seq(Message) : /\ Joins(delivered, rest, sent)
                                   /\ <<h \o after, rest>> \in Streams(ServerFrames)
  BY <1>1, <1>2, HeaderHad
<1>5. /\ Len(h) >= 2 /\ Len(h) <= 14
      /\ Len(h) < HeaderLen(h) => AwaitsHeader(h, HeaderLen(h) - Len(h)) /\ HeaderLen(h) - Len(h) \in Nat
      /\ Len(h) = HeaderLen(h) => Len(h) = RfcStart(h) /\ LengthKnown(h)
  BY <1>3, HeaderPartRead
<1>6. Len(h) = HeaderLen(h) => h \in Headers /\ HasWhole(h, after, rest)
  <2>1. PICK all : all = h \o after
    OBVIOUS
  <2>2. Joins(h, after, all) /\ <<all, rest>> \in Streams(ServerFrames)
    BY <1>4, <2>1 DEF Joins
  <2> QED
    BY <1>3, <1>5, <2>2, HeaderComplete
<1>7. \/ /\ Refused(h)
         /\ ClientDisconnect
         /\ want' = 0 /\ header' = h
         /\ UNCHANGED <<payload, block, into, delivered>>
      \/ /\ ~Refused(h) /\ Len(h) < HeaderLen(h)
         /\ header' = h /\ want' = HeaderLen(h) - Len(h) /\ inbox' = after
         /\ UNCHANGED <<tcp, payload, block, into, writing, trouble, sent, delivered>>
      \/ /\ ~Refused(h) /\ Len(h) = HeaderLen(h) /\ PayloadLen(h) = 0
         /\ Dispatch(h, <<>>, after)
      \/ /\ ~Refused(h) /\ Len(h) = HeaderLen(h) /\ PayloadLen(h) > 0
         /\ header' = h /\ block' = TRUE /\ inbox' = after
         /\ want' = PayloadLen(h) /\ into' = "payload"
         /\ UNCHANGED <<tcp, payload, writing, trouble, sent, delivered>>
  BY <1>1, Zenon DEF HeaderRead
<1>8. CASE /\ ClientDisconnect
           /\ want' = 0 /\ header' = h
           /\ UNCHANGED <<payload, block, into, delivered>>
  BY <1>3, <1>5, <1>8, Refuses
<1>9. CASE /\ Len(h) < HeaderLen(h)
           /\ header' = h /\ want' = HeaderLen(h) - Len(h) /\ inbox' = after
           /\ UNCHANGED <<tcp, payload, block, into, writing, trouble, sent, delivered>>
  <2>1. want' \in Nat /\ AwaitsHeader(header', want')
    BY <1>5, <1>9
  <2>2. want' > 0
    <3>1. HeaderLen(h) \in Nat
      BY DEF HeaderLen, LengthBytes
    <3> QED
      BY <1>3, <1>9, <3>1
  <2>3. Typed'
    BY <1>3, <1>5, <1>9, <2>1, Given DEF Typed, writing
  <2>4. Reads'
    BY <1>2, <1>3, <1>9, <2>1, <2>2 DEF Reads
  <2>5. Left(h, <<>>, after, rest)
    BY <1>3, <1>4, LeftOf
  <2>6. InOrder'
    BY <1>3, <1>4, <1>9, <2>5 DEF InOrder
  <2>7. Answers'
    BY <1>9, Given DEF Answers, writing
  <2> QED
    BY <2>3, <2>4, <2>6, <2>7 DEF IInv
<1>10. CASE ~Refused(h) /\ Len(h) = HeaderLen(h)
  <2>1. h \in Headers /\ HasWhole(h, after, rest)
    BY <1>6, <1>10
  <2>2. PICK body \in Seq(0..1), m \in Message, b2 \in Seq(Byte), ms2 \in Seq(Message) :
       /\ Joins(body, b2, after) /\ <<b2, ms2>> \in Streams(ServerFrames) /\ Joins(<<m>>, ms2, rest)
       /\ PayloadLen(h) \in Nat
       /\ PayloadLen(h) <= MaxData => Len(body) = PayloadLen(h) /\ m = Read(h, body)
    BY <2>1 DEF HasWhole
  <2>3. PayloadLen(h) <= MaxData
    <3>1. ~(PayloadLen(h) > MaxData)
      BY <1>5, <1>10 DEF Refused
    <3>2. MaxData \in Nat
      BY FrameAssumption
    <3> QED
      BY <2>2, <3>1, <3>2
  <2>4. CASE PayloadLen(h) = 0 /\ Dispatch(h, <<>>, after)
    <3>1. Len(body) = 0 /\ m = Read(h, body)
      BY <2>2, <2>3, <2>4
    <3>2. body = <<>>
      BY <3>1, EmptySeq
    <3>3. b2 = after
      <4>1. after = body \o b2
        BY <2>2 DEF Joins
      <4>2. <<>> \o b2 = b2
        BY ConcatEmptySeq
      <4> QED
        BY ONLY <3>2, <4>1, <4>2, Zenon
    <3>4. Joins(Append(delivered, m), ms2, sent)
      <4>1. delivered \in Seq(Message)
        BY Given
      <4> QED
        BY ONLY <1>4, <2>2, <4>1, m \in Message, rest \in Seq(Message), ms2 \in Seq(Message), Advance
    <3>5. Dispatch(h, body, after) /\ <<after, ms2>> \in Streams(ServerFrames)
      BY <2>2, <2>4, <3>2, <3>3
    <3> QED
      BY <1>2, <1>3, <2>1, <2>3, <2>4, <3>1, <3>4, <3>5, Dispatched
  <2>5. CASE /\ PayloadLen(h) > 0
             /\ header' = h /\ block' = TRUE /\ inbox' = after
             /\ want' = PayloadLen(h) /\ into' = "payload"
             /\ UNCHANGED <<tcp, payload, writing, trouble, sent, delivered>>
    <3>1. AwaitsPayload(header', payload', want')
      <4>1. Len(<<>>) = 0
        BY EmptySeq
      <4> QED
        BY <1>3, <2>1, <2>2, <2>3, <2>5, <4>1 DEF AwaitsPayload
    <3>2. Typed'
      BY <1>3, <1>5, <2>2, <2>5, Given DEF Typed, writing
    <3>3. Reads'
      BY <1>2, <2>2, <2>5, <3>1 DEF Reads
    <3>4. Left(h, <<>>, after, rest)
      BY <1>3, <1>4, LeftOf
    <3>5. InOrder'
      BY <1>3, <1>4, <2>5, <3>4 DEF InOrder
    <3>6. Answers'
      BY <2>5, Given DEF Answers, writing
    <3> QED
      BY <3>2, <3>3, <3>5, <3>6 DEF IInv
  <2>6. \/ PayloadLen(h) = 0 /\ Dispatch(h, <<>>, after)
        \/ /\ PayloadLen(h) > 0
           /\ header' = h /\ block' = TRUE /\ inbox' = after
           /\ want' = PayloadLen(h) /\ into' = "payload"
           /\ UNCHANGED <<tcp, payload, writing, trouble, sent, delivered>>
        \/ IInv'
    BY <1>7, <1>8, <1>9, Zenon
  <2> QED
    BY <2>4, <2>5, <2>6
<1> QED
  BY <1>7, <1>8, <1>9, <1>10, Zenon

(* The same without memory for the payload.                                *)
LEMMA NoMemorySteps == ASSUME IInv, NoMemory PROVE IInv'
<1>1. PICK h, after : /\ h = header \o SubSeq(inbox, 1, want)
                      /\ after = SubSeq(inbox, want + 1, Len(inbox))
  OBVIOUS
<1>2. want > 0 /\ into = "header" /\ tcp = "up" /\ want <= Len(inbox)
  BY DEF NoMemory
<1>3. h \in Seq(Byte) /\ AwaitsHeader(h, 0) /\ block = FALSE
  BY <1>1, <1>2, HeaderHad
<1>4. Len(h) <= 14
  BY <1>3, HeaderPartRead
<1>5. ClientDisconnect /\ want' = 0 /\ header' = h /\ UNCHANGED <<payload, block, into, delivered>>
  BY <1>1 DEF NoMemory
<1> QED
  BY <1>3, <1>4, <1>5, Refuses

(* readCb gives up.                                                        *)
LEMMA ReadFailsSteps == ASSUME IInv, ReadFails PROVE IInv'
<1>1. header' \in Seq(Byte) /\ Len(header') <= 14
  <2>1. header' = <<>> \/ header' = header
    BY DEF ReadFails
  <2>2. CASE header' = <<>>
    BY <2>2, EmptySeq
  <2>3. CASE header' = header
    BY <2>3, Given DEF Typed
  <2> QED
    BY <2>1, <2>2, <2>3
<1> QED
  BY <1>1, Refuses DEF ReadFails

(* The payload is read: it is the one the header announced.                *)
LEMMA PayloadSteps == ASSUME IInv, PayloadRead PROVE IInv'
<1>1. want > 0 /\ into = "payload" /\ tcp = "up" /\ want <= Len(inbox)
  BY DEF PayloadRead
<1>2. inbox \in Seq(Byte) /\ header \in Seq(Byte) /\ payload \in Seq(Byte)
  BY Given
<1>3. want \in Nat /\ AwaitsPayload(header, payload, want)
  BY <1>1, Given DEF Typed, Reads
<1>4. PICK s \in Seq(Byte), t \in Seq(Byte), k \in 0..Len(inbox) : s = payload /\ t = inbox /\ k = want
  BY <1>1, <1>2, <1>3
<1>5. PICK raw, after : raw = s \o SubSeq(t, 1, k) /\ after = SubSeq(t, k + 1, Len(t))
  OBVIOUS
<1>6. k \in 0..Len(t)
  BY <1>4
<1>7. Moved(Byte, s, t, k, raw, after)
  BY ONLY <1>5, <1>6, s \in Seq(Byte), t \in Seq(Byte), MoveBytes
<1>8. /\ raw \in Seq(Byte) /\ after \in Seq(Byte)
      /\ raw \o after = payload \o inbox /\ Len(raw) = Len(payload) + want
  BY ONLY <1>4, <1>7 DEF Moved
<1>9. Dispatch(header, raw, after)
  BY <1>4, <1>5 DEF PayloadRead
<1>10. PICK rest \in Seq(Message) : Joins(delivered, rest, sent) /\ Left(header, payload, inbox, rest)
  BY <1>1, Given DEF InOrder
<1>11. header \in Headers /\ PayloadLen(header) <= MaxData /\ Len(raw) = PayloadLen(header)
  BY <1>3, <1>8 DEF AwaitsPayload
<1>12. PICK q \in Seq(Byte) : q = payload \o inbox
  BY ONLY <1>2, ConcatProperties
<1>13. HasWhole(header, q, rest)
  <2>1. PICK all : all = header \o q
    OBVIOUS
  <2>2. Joins(header, q, all) /\ <<all, rest>> \in Streams(ServerFrames)
    BY <1>10, <1>12, <2>1 DEF Joins, Left
  <2>3. Len(header) >= 2 /\ Len(header) = RfcStart(header)
    BY <1>11, HeaderParts
  <2> QED
    BY <1>2, <2>2, <2>3, HeaderComplete
<1>14. PICK body \in Seq(0..1), m \in Message, b2 \in Seq(Byte), ms2 \in Seq(Message) :
       /\ Joins(body, b2, q) /\ <<b2, ms2>> \in Streams(ServerFrames) /\ Joins(<<m>>, ms2, rest)
       /\ PayloadLen(header) \in Nat
       /\ PayloadLen(header) <= MaxData => Len(body) = PayloadLen(header) /\ m = Read(header, body)
  BY <1>13 DEF HasWhole
<1>15. raw = body /\ after = b2
  <2>1. PICK c \in Seq(Byte) : c = body
    <3>1. 0..1 \subseteq Byte
      BY DEF Byte
    <3> QED
      BY <3>1, SeqMonotonic
  <2>2. Len(raw) = Len(c)
    BY <1>11, <1>14, <2>1
  <2>3. /\ SubSeq(raw \o after, 1, Len(raw)) = raw
        /\ SubSeq(raw \o after, Len(raw) + 1, Len(raw \o after)) = after
    <3>1. PICK x \in Seq(Byte), y \in Seq(Byte) : x = raw /\ y = after
      BY <1>8
    <3>2. SubSeq(x \o y, 1, Len(x)) = x /\ SubSeq(x \o y, Len(x) + 1, Len(x \o y)) = y
      BY ONLY x \in Seq(Byte), y \in Seq(Byte), Uncut
    <3> QED
      BY ONLY <3>1, <3>2, Zenon
  <2>4. SubSeq(c \o b2, 1, Len(c)) = c /\ SubSeq(c \o b2, Len(c) + 1, Len(c \o b2)) = b2
    BY ONLY c \in Seq(Byte), b2 \in Seq(Byte), Uncut
  <2>5. raw \o after = c \o b2
    BY <1>8, <1>12, <1>14, <2>1 DEF Joins
  <2>6. raw = c /\ after = b2
    BY ONLY <2>2, <2>3, <2>4, <2>5
  <2> QED
    BY <2>1, <2>6
<1>16. Joins(Append(delivered, m), ms2, sent)
  <2>1. delivered \in Seq(Message)
    BY Given
  <2> QED
    BY ONLY <1>10, <1>14, <2>1, m \in Message, rest \in Seq(Message), ms2 \in Seq(Message), Advance
<1>17. Dispatch(header, body, b2) /\ <<b2, ms2>> \in Streams(ServerFrames) /\ Len(body) = PayloadLen(header)
       /\ m = Read(header, body)
  BY <1>9, <1>11, <1>14, <1>15
<1> QED
  BY <1>1, <1>11, <1>16, <1>17, Dispatched

(* A byte is read.                                                         *)
LEMMA ReadSomeSteps == ASSUME IInv, ReadSome PROVE IInv'
<1>1. want > 1 /\ tcp = "up" /\ inbox' = Tail(inbox) /\ want' = want - 1
  BY DEF ReadSome
<1>2. inbox \in Seq(Byte) /\ header \in Seq(Byte) /\ payload \in Seq(Byte)
  BY Given
<1>3. Len(inbox) > 0
  BY <1>2, EmptySeq DEF ReadSome
<1>4. want \in Nat /\ into \in {"header", "payload"}
  BY Given DEF Typed
<1>5. want' \in Nat /\ want' > 0
  BY <1>1, <1>4
<1>6. PICK rest \in Seq(Message) : Joins(delivered, rest, sent) /\ Left(header, payload, inbox, rest)
  BY <1>1, Given DEF InOrder
<1>7. UNCHANGED <<tcp, block, into, writing, trouble, sent, delivered>>
  BY DEF ReadSome
<1>8. Answers'
  BY <1>7, Given DEF Answers, writing
<1>9. CASE into = "header"
  <2>1. header' = Append(header, Head(inbox)) /\ payload' = payload
    BY <1>9 DEF ReadSome
  <2>2. /\ header' \in Seq(Byte) /\ inbox' \in Seq(Byte) /\ header' \o inbox' = header \o inbox
        /\ Len(header') = Len(header) + 1 /\ Joins(header, <<Head(inbox)>>, header') /\ Head(inbox) \in Byte
    <3>1. PICK s \in Seq(Byte), t \in Seq(Byte) : s = header /\ t = inbox
      BY <1>2
    <3>2. Len(t) > 0
      BY <1>3, <3>1
    <3>3. /\ Head(t) \in Byte /\ Tail(t) \in Seq(Byte) /\ Append(s, Head(t)) \in Seq(Byte)
          /\ Append(s, Head(t)) \o Tail(t) = s \o t
          /\ Len(Append(s, Head(t))) = Len(s) + 1 /\ Joins(s, <<Head(t)>>, Append(s, Head(t)))
      BY ONLY <3>2, s \in Seq(Byte), t \in Seq(Byte), MoveByte
    <3>4. header' = Append(s, Head(t)) /\ inbox' = Tail(t)
      BY <1>1, <2>1, <3>1
    <3> QED
      BY ONLY <3>1, <3>3, <3>4, Zenon
  <2>3. block = FALSE /\ payload = <<>> /\ AwaitsHeader(header, want)
    <3>1. want > 0
      BY <1>1, <1>4
    <3> QED
      BY ONLY <1>9, <3>1, Given, IInv, Zenon DEF Reads
  <2>4. AwaitsHeader(header', want')
    <3>1. PICK t \in Seq(Byte) : t = <<Head(inbox)>>
      <4>1. <<Head(inbox)>> \in Seq(Byte)
        BY <2>2
      <4> QED
        BY <4>1
    <3>2. PICK h2 \in Seq(Byte), w2 \in Nat : h2 = header' /\ w2 = want'
      BY <1>5, <2>2
    <3>3. Joins(header, t, h2) /\ Len(h2) + w2 = Len(header) + want
      <4>1. Len(header) \in Nat
        BY <1>2
      <4>2. Len(h2) = Len(header) + 1 /\ w2 = want - 1
        BY <1>1, <2>2, <3>2
      <4>3. Joins(header, t, h2)
        BY ONLY <2>2, <3>1, <3>2, Zenon
      <4>4. Len(h2) + w2 = Len(header) + want
        BY ONLY <1>4, <4>1, <4>2
      <4> QED
        BY <4>3, <4>4
    <3>4. AwaitsHeader(h2, w2)
      BY <1>2, <1>4, <2>3, <3>3, HeaderGrown
    <3> QED
      BY <3>2, <3>4
  <2>5. Len(header') <= 14
    <3>1. Len(header') + want' <= 14
      BY <1>5, <2>2, <2>4, HeaderAwaited
    <3> QED
      BY <1>5, <2>2, <3>1
  <2>6. Typed'
    BY <1>5, <1>7, <2>1, <2>2, <2>5, Given DEF Typed, writing
  <2>7. Reads'
    BY <1>1, <1>5, <1>7, <1>9, <2>1, <2>3, <2>4 DEF Reads
  <2>8. Left(header', <<>>, inbox', rest)
    <3>1. <<header \o inbox, rest>> \in Streams(ServerFrames)
      BY <1>2, <1>6, <2>3, LeftOf
    <3>2. PICK h2 \in Seq(Byte), i2 \in Seq(Byte) : h2 = header' /\ i2 = inbox'
      BY <2>2
    <3>3. <<h2 \o i2, rest>> \in Streams(ServerFrames)
      BY <2>2, <3>1, <3>2
    <3>4. Left(h2, <<>>, i2, rest)
      BY <3>3, LeftOf
    <3> QED
      BY <3>2, <3>4
  <2>9. InOrder'
    BY <1>6, <1>7, <2>1, <2>3, <2>8 DEF InOrder
  <2> QED
    BY <1>8, <2>6, <2>7, <2>9 DEF IInv
<1>10. CASE into = "payload"
  <2>1. payload' = Append(payload, Head(inbox)) /\ header' = header
    BY <1>10 DEF ReadSome
  <2>2. /\ payload' \in Seq(Byte) /\ inbox' \in Seq(Byte) /\ payload' \o inbox' = payload \o inbox
        /\ Len(payload') = Len(payload) + 1
    <3>1. PICK s \in Seq(Byte), t \in Seq(Byte) : s = payload /\ t = inbox
      BY <1>2
    <3>2. Len(t) > 0
      BY <1>3, <3>1
    <3>3. /\ Head(t) \in Byte /\ Tail(t) \in Seq(Byte) /\ Append(s, Head(t)) \in Seq(Byte)
          /\ Append(s, Head(t)) \o Tail(t) = s \o t
          /\ Len(Append(s, Head(t))) = Len(s) + 1 /\ Joins(s, <<Head(t)>>, Append(s, Head(t)))
      BY ONLY <3>2, s \in Seq(Byte), t \in Seq(Byte), MoveByte
    <3>4. payload' = Append(s, Head(t)) /\ inbox' = Tail(t)
      BY <1>1, <2>1, <3>1
    <3> QED
      BY ONLY <3>1, <3>3, <3>4, Zenon
  <2>3. block = TRUE /\ AwaitsPayload(header, payload, want)
    <3>1. want > 0
      BY <1>1, <1>4
    <3> QED
      BY ONLY <1>10, <3>1, Given, IInv, Zenon DEF Reads
  <2>4. AwaitsPayload(header', payload', want')
    <3>1. Len(payload') + want' = Len(payload) + want
      <4>1. Len(payload) \in Nat
        BY <1>2
      <4> QED
        BY <1>1, <1>4, <2>2, <4>1
    <3> QED
      BY <2>1, <2>3, <3>1 DEF AwaitsPayload
  <2>5. Typed'
    BY <1>5, <1>7, <2>1, <2>2, Given DEF Typed, writing
  <2>6. Reads'
    BY <1>1, <1>5, <1>7, <1>10, <2>1, <2>3, <2>4 DEF Reads
  <2>7. Left(header', payload', inbox', rest)
    BY <1>6, <2>1, <2>2 DEF Left
  <2>8. InOrder'
    BY <1>6, <1>7, <2>7 DEF InOrder
  <2> QED
    BY <1>8, <2>5, <2>6, <2>8 DEF IInv
<1> QED
  BY <1>4, <1>9, <1>10

(* A message begins.                                                       *)
LEMMA BeginSteps == ASSUME IInv, Begin PROVE IInv'
<1>1. /\ want = 0 /\ tcp = "up" /\ want' = 2 /\ into' = "header"
      /\ UNCHANGED <<link, header, payload, block, writing, trouble, sent, delivered>>
  BY DEF Begin, Quiet
<1>2. block = FALSE /\ header = <<>> /\ payload = <<>>
  BY <1>1, Given DEF Reads
<1>3. AwaitsHeader(header, 2)
  <2>1. Len(header) = 0
    BY <1>2, EmptySeq
  <2> QED
    BY <2>1 DEF AwaitsHeader
<1>4. Typed'
  BY <1>1, Given DEF Typed, link, writing
<1>5. Reads'
  BY <1>1, <1>2, <1>3 DEF Reads, link
<1>6. InOrder'
  BY <1>1, Given DEF InOrder, link
<1>7. Answers'
  BY <1>1, Given DEF Answers, writing
<1> QED
  BY <1>4, <1>5, <1>6, <1>7 DEF IInv

(* The connection is lost.                                                 *)
LEMMA LostSteps == ASSUME IInv, ConnectionLost PROVE IInv'
<1>1. /\ tcp = "up" /\ trouble >= 1 /\ trouble' = trouble - 1 /\ tcp' = "lost"
      /\ UNCHANGED <<inbox, reading, writing, sent, delivered>>
  BY DEF ConnectionLost, Costs
<1>2. trouble' \in 0..MaxTrouble
  <2>1. MaxTrouble \in Nat /\ trouble \in 0..MaxTrouble
    BY FrameAssumption, Given DEF Typed
  <2> QED
    BY <1>1, <2>1
<1>3. Typed'
  BY <1>1, <1>2, Given DEF Typed, reading, writing
<1>4. Reads'
  BY <1>1, Given DEF Reads, reading
<1>5. InOrder'
  BY <1>1, Given DEF InOrder, reading
<1>6. Answers'
  BY <1>1, Given DEF Answers, writing
<1> QED
  BY <1>3, <1>4, <1>5, <1>6 DEF IInv

(* The server sends.                                                       *)
LEMMA ServerSteps == ASSUME IInv, Server PROVE IInv'
<1>1. CASE \E f \in Incoming : ServerSends(f)
  <2>1. PICK f \in Incoming : ServerSends(f)
    BY <1>1
  <2>2. PICK e, m : e = RfcEncode(f) /\ m = SentOf(f)
    OBVIOUS
  <2>3. <<e, m>> \in ServerFrames
    BY <2>2 DEF ServerFrames
  <2>4. /\ tcp = "up" /\ inbox' = inbox \o e /\ sent' = Append(sent, m)
        /\ UNCHANGED <<tcp, reading, writing, trouble, delivered>>
    BY <2>1, <2>2 DEF ServerSends, SentOf
  <2> QED
    BY <2>3, <2>4, ServerSent
<1>2. CASE ServerSendsHuge
  <2>1. PICK e, m : e = HugeBytes /\ m = HugeMessage
    OBVIOUS
  <2>2. <<e, m>> \in ServerFrames
    BY <2>1 DEF ServerFrames
  <2>3. /\ tcp = "up" /\ inbox' = inbox \o e /\ sent' = Append(sent, m)
        /\ UNCHANGED <<tcp, reading, writing, trouble, delivered>>
    BY <1>2, <2>1 DEF ServerSendsHuge, HugeBytes, HugeMessage
  <2> QED
    BY <2>2, <2>3, ServerSent
<1> QED
  BY <1>1, <1>2 DEF Server

(* The application sends.                                                  *)
LEMMA AppSendSteps == ASSUME IInv, NEW c \in Outgoing, AppSend(c) PROVE IInv'
<1>1. /\ c.op \in Opcodes /\ c.op # "pong" /\ c.len \in Nat /\ c.toPayload \in BOOLEAN
      /\ Shifted(c.len, 4) = 0
  BY FrameAssumption DEF Opcodes, Control
<1>2. /\ SendFrame(c.op, Content(c.len), TRUE, c.toPayload)
      /\ UNCHANGED <<link, reading, sent, delivered>>
  BY DEF AppSend
<1>3. PICK data \in Seq(0..1) : data = Content(c.len) /\ Len(data) = c.len
  BY <1>1, ContentTyped
<1>4. PICK m : m = [fin |-> TRUE, op |-> c.op, data |-> data]
  OBVIOUS
<1>5. m \in Message
  BY <1>1, <1>4 DEF Message
<1>6. trouble \in 0..MaxTrouble /\ failed \in BOOLEAN /\ (~failed => <<wire, said>> \in Streams(RfcFrames))
  BY Given DEF Typed, Answers
<1>7. /\ trouble' \in 0..MaxTrouble /\ failed' \in BOOLEAN
      /\ ~failed' => ~failed /\ said' = Append(said, m) /\ <<wire', said'>> \in Streams(RfcFrames)
  BY <1>1, <1>2, <1>3, <1>4, <1>6, SendFrameSays
<1>8. ASSUME ~failed' PROVE Of("pong", said') = Of("ping", delivered')
  <2>1. said \in Seq(Message) /\ Of("pong", said) = Of("ping", delivered)
    BY <1>6, <1>7, <1>8, Given, StreamTyped DEF Answers
  <2>2. Of("pong", Append(said, m)) = Picked("pong", m, Of("pong", said))
    BY <1>5, <2>1, OfAppend
  <2>3. Picked("pong", m, Of("pong", said)) = Of("pong", said)
    BY <1>1, <1>4 DEF Picked
  <2> QED
    BY <1>2, <1>7, <1>8, <2>1, <2>2, <2>3
<1>9. Answers'
  BY <1>7, <1>8 DEF Answers
<1>10. Typed'
  BY <1>2, <1>7, Given DEF Typed, link, reading
<1>11. Reads'
  BY <1>2, Given DEF Reads, link, reading
<1>12. InOrder'
  BY <1>2, Given DEF InOrder, link, reading
<1> QED
  BY <1>9, <1>10, <1>11, <1>12 DEF IInv

(* The application disconnects, or loop() finds the connection lost.       *)
LEMMA AppLeavesSteps == ASSUME IInv, AppDisconnect \/ LoopLost PROVE IInv'
<1>1. want = 0 /\ ClientDisconnect /\ UNCHANGED <<reading, delivered>>
  BY DEF AppDisconnect, LoopLost, Quiet
<1>2. want' = 0 /\ block' = FALSE /\ header' = header /\ UNCHANGED <<payload, into, delivered>>
  BY <1>1, Given DEF Reads, reading
<1>3. header' \in Seq(Byte) /\ Len(header') <= 14
  BY <1>2, Given DEF Typed
<1> QED
  BY <1>1, <1>2, <1>3, Refuses

(* A new connection starts with empty streams.                             *)
LEMMA ReconnectSteps == ASSUME IInv, Reconnect PROVE IInv'
<1>1. /\ want = 0 /\ tcp' = "up" /\ inbox' = <<>>
      /\ header' = <<>> /\ payload' = <<>> /\ into' = "header"
      /\ wire' = <<>> /\ said' = <<>> /\ failed' = FALSE /\ sent' = <<>> /\ delivered' = <<>>
      /\ UNCHANGED <<block, want, trouble>>
  BY DEF Reconnect
<1>2. PICK none, nothing : none = <<>> /\ nothing = <<>> /\ none \in Seq(Byte) /\ nothing \in Seq(Message)
  BY EmptySeq
<1>3. Typed'
  <2>1. tcp' \in {"up", "lost", "NULL"} /\ into' \in {"header", "payload"} /\ failed' \in BOOLEAN
    BY <1>1
  <2>2. want' \in Nat /\ trouble' \in 0..MaxTrouble /\ block' \in BOOLEAN
    BY <1>1, Given DEF Typed
  <2>3. Len(header') <= 14
    BY <1>1, EmptySeq
  <2>4. inbox' \in Seq(Byte) /\ header' \in Seq(Byte) /\ payload' \in Seq(Byte)
        /\ sent' \in Seq(Message) /\ delivered' \in Seq(Message)
    BY ONLY <1>1, <1>2, Zenon
  <2> QED
    BY ONLY <2>1, <2>2, <2>3, <2>4, Zenon DEF Typed
<1>4. Reads'
  BY <1>1, Given DEF Reads
<1>5. <<none, nothing>> \in Streams(RfcFrames) /\ <<none, nothing>> \in Streams(ServerFrames)
  BY <1>2, StreamsGrow DEF Grows
<1>6. InOrder'
  <2>1. Left(<<>>, <<>>, none, nothing)
    BY <1>2, <1>5, LeftOf
  <2>2. Joins(nothing, nothing, nothing)
    <3>1. nothing \o <<>> = nothing
      BY <1>2, ConcatEmptySeq
    <3> QED
      BY ONLY <1>2, <3>1, Zenon DEF Joins
  <2> QED
    BY <1>1, <1>2, <2>1, <2>2 DEF InOrder
<1>7. Answers'
  <2>1. Of("pong", said') = Of("ping", delivered')
    BY <1>1, OfEmpty
  <2> QED
    BY <1>1, <1>2, <1>5, <2>1 DEF Answers
<1> QED
  BY <1>3, <1>4, <1>6, <1>7 DEF IInv

(* Every step keeps the invariant.                                         *)
LEMMA NextKeeps == IInv /\ [Next]_vars => IInv'
<1> SUFFICES ASSUME IInv, [Next]_vars PROVE IInv'
  OBVIOUS
<1>1. CASE Server
  BY <1>1, ServerSteps
<1>2. CASE ConnectionLost
  BY <1>2, LostSteps
<1>3. CASE App
  BY <1>3, AppSendSteps, AppLeavesSteps DEF App
<1>4. CASE Begin
  BY <1>4, BeginSteps
<1>5. CASE ReadSome
  BY <1>5, ReadSomeSteps
<1>6. CASE HeaderRead
  BY <1>6, HeaderSteps
<1>7. CASE NoMemory
  BY <1>7, NoMemorySteps
<1>8. CASE PayloadRead
  BY <1>8, PayloadSteps
<1>9. CASE ReadFails
  BY <1>9, ReadFailsSteps
<1>10. CASE LoopLost
  BY <1>10, AppLeavesSteps
<1>11. CASE Reconnect
  BY <1>11, ReconnectSteps
<1>12. CASE UNCHANGED vars
  <2>1. UNCHANGED <<tcp, inbox, header, payload, block, want, into, wire, said, failed,
                    trouble, sent, delivered>>
    BY <1>12 DEF vars, link, reading, writing
  <2> QED
    BY <2>1 DEF IInv, Typed, Reads, InOrder, Answers
<1> QED
  BY <1>1, <1>2, <1>3, <1>4, <1>5, <1>6, <1>7, <1>8, <1>9, <1>10, <1>11, <1>12 DEF Next, Receive

(* For any frames, lengths, keys and limits, the invariant holds: the      *)
(* bytes that the client still has before it are the frames it has not     *)
(* delivered, and the bytes it wrote are the frames it said it sent.       *)
THEOREM FramesInvariant == Spec => []IInv
<1>1. Init => IInv
  BY InitHolds
<1>2. IInv /\ [Next]_vars => IInv'
  BY NextKeeps
<1> QED
  BY <1>1, <1>2, PTL DEF Spec

(* The invariant bounds what is read.                                      *)
LEMMA PayloadFollows == IInv => PayloadKept
<1> SUFFICES ASSUME IInv PROVE PayloadKept
  OBVIOUS
<1>1. Typed /\ Reads
  BY Given
<1>2. Len(header) + (IF into = "header" THEN want ELSE 0) <= 14
  <2>1. header \in Seq(Byte) /\ want \in Nat /\ Len(header) <= 14
    BY <1>1 DEF Typed
  <2>2. CASE into = "header" /\ want > 0
    <3>1. AwaitsHeader(header, want)
      BY <1>1, <2>2 DEF Reads
    <3>2. Len(header) + want <= 14
      BY <2>1, <3>1, HeaderAwaited
    <3> QED
      BY <2>2, <3>2
  <2>3. CASE ~(into = "header" /\ want > 0)
    <3>1. (IF into = "header" THEN want ELSE 0) = 0
      BY <2>1, <2>3
    <3> QED
      BY <2>1, <3>1
  <2> QED
    BY <2>2, <2>3
<1>3. into = "payload" /\ want > 0 => Len(payload) + want = PayloadLen(header)
  BY <1>1 DEF Reads, AwaitsPayload
<1>4. TypeOK
  BY <1>1, <1>2, <1>3 DEF Typed, TypeOK
<1>5. block = (want > 0 /\ into = "payload")
  <2>1. CASE want > 0
    BY <1>1, <2>1 DEF Typed, Reads
  <2>2. CASE want = 0
    BY <1>1, <2>2 DEF Typed, Reads
  <2> QED
    BY <1>1, <2>1, <2>2 DEF Typed
<1>6. block => PayloadLen(header) <= MaxData
  BY <1>1, <1>5 DEF Reads, AwaitsPayload
<1> QED
  BY <1>4, <1>5, <1>6 DEF PayloadKept

(* The invariant keeps the order.                                          *)
LEMMA OrderFollows == IInv => ReadInOrder
<1> SUFFICES ASSUME IInv PROVE ReadInOrder
  OBVIOUS
<1>1. sent \in Seq(Message) /\ delivered \in Seq(Message) /\ inbox \in Seq(Byte)
  BY Given
<1>2. PICK rest \in Seq(Message) :
        Joins(delivered, rest, sent) /\ (tcp # "NULL" => Left(header, payload, inbox, rest))
  BY Given DEF InOrder
<1>3. /\ SubSeq(sent, 1, Len(delivered)) = delivered
      /\ SubSeq(sent, Len(delivered) + 1, Len(sent)) = rest
      /\ Len(sent) = Len(delivered) + Len(rest)
  <2>1. PICK d \in Seq(Message) : d = delivered
    BY <1>1
  <2>2. /\ SubSeq(d \o rest, 1, Len(d)) = d
        /\ SubSeq(d \o rest, Len(d) + 1, Len(d \o rest)) = rest
        /\ Len(d \o rest) = Len(d) + Len(rest)
    BY ONLY d \in Seq(Message), rest \in Seq(Message), Uncut
  <2>3. sent = d \o rest
    BY <1>2, <2>1 DEF Joins
  <2> QED
    BY ONLY <2>1, <2>2, <2>3, Zenon
<1>4. Len(delivered) <= Len(sent)
  BY <1>1, <1>3
<1>5. ASSUME Quiet, tcp = "up", ~(\E i \in 1..Len(sent) : sent[i].op = "huge")
      PROVE  RfcDecode(inbox) = SubSeq(sent, Len(delivered) + 1, Len(sent))
  <2>1. header = <<>> /\ payload = <<>>
    BY <1>5, Given DEF Quiet, Reads
  <2>2. <<inbox, rest>> \in Streams(ServerFrames)
    BY <1>1, <1>2, <1>5, <2>1, LeftOf
  <2>3. NoneHuge(rest)
    <3>1. ASSUME NEW i \in 1..Len(rest) PROVE rest[i].op # "huge"
      <4>1. PICK d \in Seq(Message), k \in Nat : d = delivered /\ k = Len(d)
        BY <1>1
      <4>2. (d \o rest)[k + i] = rest[i]
        <5>1. k + i \in 1..(Len(d) + Len(rest)) /\ ~(k + i <= Len(d)) /\ (k + i) - Len(d) = i
          BY <4>1
        <5>2. (d \o rest)[k + i] = IF k + i <= Len(d) THEN d[k + i] ELSE rest[(k + i) - Len(d)]
          BY ONLY <5>1, d \in Seq(Message), rest \in Seq(Message), ConcatProperties
        <5> QED
          BY ONLY <5>1, <5>2
      <4>3. sent[k + i] = rest[i]
        BY <1>2, <4>1, <4>2 DEF Joins
      <4>4. k + i \in 1..Len(sent)
        BY <1>3, <4>1
      <4> QED
        BY <1>5, <4>3, <4>4
    <3> QED
      BY <3>1 DEF NoneHuge
  <2>4. RfcDecode(inbox) = rest
    BY <2>2, <2>3, PlainStream, StreamDecodes
  <2> QED
    BY <1>3, <2>4
<1> QED
  BY <1>3, <1>4, <1>5 DEF ReadInOrder

(* The invariant answers the pings.                                        *)
LEMMA AnswersFollow == IInv => ServerReads
BY StreamDecodes DEF IInv, Answers, ServerReads

(* For any lengths and WEBSOCKETS_MAX_DATA_SIZE, the block for a payload   *)
(* is held exactly while the payload is read, it is never larger than the  *)
(* limit, and cWsHeader is never written past its 14 bytes.                *)
THEOREM PayloadAlwaysKept == Spec => []PayloadKept
BY FramesInvariant, PayloadFollows, PTL

(* For any frames of the server, however they are cut into reads, the      *)
(* application gets exactly their messages, unmasked and in order, and     *)
(* between two messages the client stands at the first byte of a frame.    *)
THEOREM AlwaysReadInOrder == Spec => []ReadInOrder
BY FramesInvariant, OrderFollows, PTL

(* For any frames of the application and keys, the server decodes exactly  *)
(* what sendFrame said it sent, and every delivered ping is answered in    *)
(* order with its own data, until a frame fails.                           *)
THEOREM ServerAlwaysReads == Spec => []ServerReads
BY FramesInvariant, AnswersFollow, PTL
=============================================================================
