------------------------- MODULE UniqueV2SortProofs -------------------------
(***************************************************************************)
(* Proofs about what UniqueV2 computes: when the cores begin to drop the   *)
(* duplicates, the buffer all of them look at holds the sorted tensor, and *)
(* when all return, the output holds its values in increasing order.       *)
(*                                                                         *)
(* Sorted here says two things: the keys do not decrease, and as many of   *)
(* them are at most x as in the tensor, for every x.  Counts are what the  *)
(* code keeps: every round of a merge moves keys from the queues to the    *)
(* output, and the counts of both add up to those of the tensor.           *)
(*                                                                         *)
(* The invariant DataOK says where in the workspace which runs lie: in the *)
(* current buffer those that are not merged yet, in the other one those    *)
(* that are, and for a merge under way what is taken and what is left.  It *)
(* rests on UniqueInv, by which no core writes in the runs of another.     *)
(*                                                                         *)
(* The invariant PackOK goes on from there.  A core drops the duplicates   *)
(* of its block in place, tile by tile, while its neighbours do the same:  *)
(* it has kept each key of its first tiles once, at the front of its       *)
(* block, and what is behind is still sorted.  The place at which a core   *)
(* copies what it kept is added up from the counts of the cores before it, *)
(* less the keys that two blocks share; PackOK makes this the rank of the  *)
(* key among the values of the tensor.                                     *)
(***************************************************************************)
EXTENDS UniqueV2Proofs

-----------------------------------------------------------------------------
(* Sorted sequences *)

\* Ascending(s) holds elements of s, the small ones first.
LEMMA AscendingFacts ==
  ASSUME NEW K \in Nat, NEW s \in Seq(0..K)
  PROVE  /\ Ascending(s) \in Seq(0..K) /\ Len(Ascending(s)) = Len(s)
         /\ \A p \in 1..Len(s) : /\ \E i \in 1..Len(s) : Ascending(s)[p] = s[i]
                                 /\ \A x \in Nat : Ascending(s)[p] <= x <=> p <= Upto(s, x)
<1> DEFINE n == Len(s)
           T(x) == {j \in DOMAIN s : s[j] <= x}
           V(p) == {x \in ToSet(s) : p <= Cardinality(T(x))}
<1>1. n \in Nat /\ DOMAIN s = 1..n /\ \A i \in 1..n : s[i] \in Nat /\ s[i] <= K
  OBVIOUS
<1>2. ToSet(s) = {s[i] : i \in 1..n} /\ ToSet(s) \subseteq 0..K
  BY <1>1 DEF ToSet
<1>3. \A x : Upto(s, x) = Cardinality(T(x))
  <2> SUFFICES ASSUME NEW x PROVE Upto(s, x) = Cardinality(T(x))
    OBVIOUS
  <2>1. T(x) = {e \in 1..((n + 1) - 1) : s[e] <= x}
    BY <1>1
  <2> QED  BY <2>1 DEF Upto, Num
<1>4. Ascending(s) = [p \in 1..n |-> Min(V(p))]
  BY DEF Ascending
<1> HIDE DEF n, T
<1>5. ASSUME NEW p \in 1..n, NEW x \in Nat, p <= Upto(s, x)
      PROVE  \E z \in V(p) : z <= x
  <2> DEFINE W == {z \in Nat : p <= Upto(s, z)}
  <2>1. PICK z \in W : \A y \in W : z <= y
    <3>1. W \subseteq Nat /\ W # {}
      BY <1>5
    <3> HIDE DEF W
    <3> QED  BY <3>1, NatMin
  <2>2. z \in Nat /\ p <= Upto(s, z) /\ z <= x
    BY <1>5, <2>1
  <2>3. z \in ToSet(s)
    <3> SUFFICES ASSUME z \notin ToSet(s) PROVE FALSE
      OBVIOUS
    <3>1. \A i \in 1..n : s[i] # z
      BY <1>2
    <3>2. CASE z = 0
      <4>1. \A i \in 1..n : ~(s[i] <= z)
        BY <1>1, <3>1, <3>2
      <4>2. Num(s, 1, n + 1, z) = 0
        <5>1. \A i \in 1..((n + 1) - 1) : ~(s[i] <= z)
          BY <1>1, <4>1
        <5>2. 1 \in Int /\ n + 1 \in Int /\ 1 <= n + 1
          BY <1>1
        <5> QED  BY <5>1, <5>2, NumZero
      <4> QED  BY <1>1, <2>2, <4>2 DEF Upto, n
    <3>3. CASE z # 0
      <4>1. T(z) = T(z - 1)
        BY <1>1, <2>2, <3>1, <3>3 DEF T
      <4>2. z - 1 \in Nat /\ p <= Upto(s, z - 1)
        BY <1>3, <2>2, <3>3, <4>1
      <4> HIDE DEF W
      <4>3. z - 1 \in W
        BY <4>2 DEF W
      <4> QED  BY <2>1, <2>2, <4>3
    <3> QED  BY <3>2, <3>3
  <2>4. z \in V(p)
    BY <1>3, <2>2, <2>3
  <2> QED  BY <2>2, <2>4
<1>6. \A p \in 1..n : p <= Upto(s, K)
  <2>1. \A i \in 1..((n + 1) - 1) : s[i] <= K
    BY <1>1
  <2>2. 1 \in Int /\ n + 1 \in Int /\ 1 <= n + 1
    BY <1>1
  <2>3. Num(s, 1, n + 1, K) = (n + 1) - 1
    BY <2>1, <2>2, NumAll
  <2> QED  BY <1>1, <2>3 DEF Upto, n
<1>7. ASSUME NEW p \in 1..n
      PROVE  Min(V(p)) \in V(p) /\ \A y \in V(p) : Min(V(p)) <= y
  <2>1. V(p) # {}
    BY <1>5, <1>6
  <2>2. V(p) \subseteq Nat
    BY <1>2
  <2> HIDE DEF V
  <2>3. \E x \in V(p) : \A y \in V(p) : x <= y
    BY <2>1, <2>2, NatMin
  <2> QED  BY <2>3 DEF Min
<1>8. ASSUME NEW p \in 1..n
      PROVE  /\ Ascending(s)[p] \in ToSet(s)
             /\ \A x \in Nat : Ascending(s)[p] <= x <=> p <= Upto(s, x)
  <2>1. PICK a : a = Min(V(p))
    OBVIOUS
  <2>2. Ascending(s)[p] = a
    BY <1>4, <2>1
  <2>3. a \in ToSet(s) /\ p <= Upto(s, a) /\ \A y \in V(p) : a <= y
    BY <1>3, <1>7, <2>1
  <2>4. a \in Nat
    BY <1>2, <2>3
  <2>5. ASSUME NEW x \in Nat PROVE a <= x <=> p <= Upto(s, x)
    <3>1. ASSUME a <= x PROVE p <= Upto(s, x)
      <4>1. s \in Seq(Int)
        OBVIOUS
      <4>2. Upto(s, a) \in 0..n /\ Upto(s, x) \in 0..n /\ Upto(s, a) <= Upto(s, x)
        <5>1. a \in Int /\ x \in Int
          BY <2>4
        <5> QED  BY <3>1, <4>1, <5>1, UptoGrows DEF n
      <4> QED  BY <1>1, <2>3, <4>2
    <3>2. ASSUME p <= Upto(s, x) PROVE a <= x
      <4>1. PICK z \in V(p) : z <= x
        BY <1>5, <3>2
      <4>2. a <= z /\ z \in Nat
        BY <1>2, <2>3, <4>1
      <4> QED  BY <2>4, <4>1, <4>2
    <3> QED  BY <3>1, <3>2
  <2> QED  BY <2>2, <2>3, <2>5
<1>9. ASSUME NEW p \in 1..n PROVE \E i \in 1..n : Ascending(s)[p] = s[i]
  BY <1>2, <1>8
<1>10. Ascending(s) \in [1..n -> 0..K]
  <2>1. \A p \in 1..n : Ascending(s)[p] \in 0..K
    BY <1>2, <1>8
  <2> HIDE DEF V
  <2> QED  BY <1>4, <2>1
<1>11. Ascending(s) \in Seq(0..K) /\ Len(Ascending(s)) = n
  BY <1>1, <1>10, IsSequence
<1> QED  BY <1>8, <1>9, <1>11 DEF n

\* Adding up to four numbers one by one.
LEMMA SumSteps ==
  ASSUME NEW n \in Nat, n <= 4, NEW c, c \in [1..n -> Nat], NEW v, v[0] = 0,
         \A i \in 1..n : v[i] = v[i - 1] + c[i]
  PROVE  v[n] = SumOf(c)
<1>1. c \in Seq(Nat) /\ DOMAIN c = 1..n
  BY IsSequence
<1>2. SumOf(c) = Item(c, 1) + Item(c, 2) + Item(c, 3) + Item(c, 4)
  BY <1>1, Summed
<1>3. \A i \in 1..n : c[i] \in Nat /\ Item(c, i) = c[i]
  BY <1>1 DEF Item
<1>4. \A i \in Nat : i > n => Item(c, i) = 0
  BY <1>1 DEF Item
<1>5. n = 0 \/ n = 1 \/ n = 2 \/ n = 3 \/ n = 4
  OBVIOUS
<1>6. 1 <= n => c[1] \in Nat /\ Item(c, 1) = c[1] /\ v[1] = v[0] + c[1]
  <2>1. 1 <= n => 1 \in 1..n
    OBVIOUS
  <2> QED  BY <1>3, <2>1
<1>7. 2 <= n => c[2] \in Nat /\ Item(c, 2) = c[2] /\ v[2] = v[1] + c[2]
  <2>1. 2 <= n => 2 \in 1..n
    OBVIOUS
  <2> QED  BY <1>3, <2>1
<1>8. 3 <= n => c[3] \in Nat /\ Item(c, 3) = c[3] /\ v[3] = v[2] + c[3]
  <2>1. 3 <= n => 3 \in 1..n
    OBVIOUS
  <2> QED  BY <1>3, <2>1
<1>9. 4 <= n => c[4] \in Nat /\ Item(c, 4) = c[4] /\ v[4] = v[3] + c[4]
  <2>1. 4 <= n => 4 \in 1..n
    OBVIOUS
  <2> QED  BY <1>3, <2>1
<1>10. CASE n = 0
  BY <1>2, <1>4, <1>10
<1>11. CASE n = 1
  BY <1>2, <1>4, <1>6, <1>11
<1>12. CASE n = 2
  BY <1>2, <1>4, <1>6, <1>7, <1>12
<1>13. CASE n = 3
  BY <1>2, <1>4, <1>6, <1>7, <1>8, <1>13
<1>14. CASE n = 4
  BY <1>2, <1>4, <1>6, <1>7, <1>8, <1>9, <1>14
<1> QED  BY <1>5, <1>10, <1>11, <1>12, <1>13, <1>14

\* What up to four sequences hold is what they hold together.
LEMMA FlattenSums ==
  ASSUME NEW S, NEW ss \in Seq(Seq(S)), NEW n \in Nat, n = Len(ss), n <= 4
  PROVE  /\ FlattenSeq(ss) \in Seq(S)
         /\ Len(FlattenSeq(ss)) = SumOf([i \in 1..n |-> Len(ss[i])])
         /\ \A x : Upto(FlattenSeq(ss), x) = SumOf([i \in 1..n |-> Upto(ss[i], x)])
         /\ \A p \in 1..Len(FlattenSeq(ss)) : \E i \in 1..n : \E j \in 1..Len(ss[i]) :
              FlattenSeq(ss)[p] = ss[i][j]
<1>1. PICK flat \in [0..n -> Seq(S)] :
        /\ flat[0] = <<>>
        /\ \A i \in 1..n : flat[i] = flat[i - 1] \o ss[i]
        /\ flat[n] = FlattenSeq(ss)
  BY FlattenSteps
<1>2. \A i \in 1..n : ss[i] \in Seq(S) /\ flat[i - 1] \in Seq(S)
  <2> SUFFICES ASSUME NEW i \in 1..n PROVE ss[i] \in Seq(S) /\ flat[i - 1] \in Seq(S)
    OBVIOUS
  <2>1. i - 1 \in 0..n
    OBVIOUS
  <2>2. flat[i - 1] \in Seq(S)
    BY <2>1
  <2>3. ss[i] \in Seq(S)
    OBVIOUS
  <2> QED  BY <2>2, <2>3
<1>3. FlattenSeq(ss) \in Seq(S)
  BY <1>1
<1>4. Len(FlattenSeq(ss)) = SumOf([i \in 1..n |-> Len(ss[i])])
  <2> DEFINE c == [i \in 1..n |-> Len(ss[i])]
             v == [i \in 0..n |-> Len(flat[i])]
  <2>1. c \in [1..n -> Nat]
    BY <1>2
  <2>2. v[0] = 0
    BY <1>1
  <2>3. ASSUME NEW i \in 1..n PROVE v[i] = v[i - 1] + c[i]
    <3>1. flat[i] = flat[i - 1] \o ss[i] /\ ss[i] \in Seq(S) /\ flat[i - 1] \in Seq(S)
      BY <1>1, <1>2
    <3>2. Len(flat[i]) = Len(flat[i - 1]) + Len(ss[i])
      BY <3>1, Concatenated
    <3>3. i \in 0..n /\ i - 1 \in 0..n
      OBVIOUS
    <3>4. v[i] = Len(flat[i]) /\ v[i - 1] = Len(flat[i - 1]) /\ c[i] = Len(ss[i])
      BY <3>3
    <3> HIDE DEF v, c
    <3> QED  BY <3>2, <3>4
  <2>4. v[n] = Len(FlattenSeq(ss))
    BY <1>1
  <2> HIDE DEF c, v
  <2>5. v[n] = SumOf(c)
    BY <2>1, <2>2, <2>3, SumSteps
  <2> QED  BY <2>4, <2>5 DEF c
<1>5. ASSUME NEW x PROVE Upto(FlattenSeq(ss), x) = SumOf([i \in 1..n |-> Upto(ss[i], x)])
  <2> DEFINE c == [i \in 1..n |-> Upto(ss[i], x)]
             v == [i \in 0..n |-> Upto(flat[i], x)]
  <2>1. c \in [1..n -> Nat]
    <3>1. ASSUME NEW i \in 1..n PROVE Upto(ss[i], x) \in Nat
      <4>1. PICK k \in Nat : k = Len(ss[i])
        BY <1>2
      <4>2. 1 \in Int /\ k + 1 \in Int /\ 1 <= k + 1
        OBVIOUS
      <4>3. Num(ss[i], 1, k + 1, x) \in Nat
        BY <4>2, NumBound
      <4> QED  BY <4>1, <4>3 DEF Upto
    <3> QED  BY <3>1
  <2>2. v[0] = 0
    <3>1. Len(flat[0]) = 0
      BY <1>1
    <3>2. Num(flat[0], 1, 1, x) = 0
      BY NumNone
    <3>3. Upto(flat[0], x) = 0
      BY <3>1, <3>2 DEF Upto
    <3> QED  BY <3>3
  <2>3. ASSUME NEW i \in 1..n PROVE v[i] = v[i - 1] + c[i]
    <3>1. flat[i] = flat[i - 1] \o ss[i] /\ ss[i] \in Seq(S) /\ flat[i - 1] \in Seq(S)
      BY <1>1, <1>2
    <3>2. Upto(flat[i], x) = Upto(flat[i - 1], x) + Upto(ss[i], x)
      BY <3>1, UptoConcat
    <3> QED  BY <3>2
  <2>4. v[n] = Upto(FlattenSeq(ss), x)
    BY <1>1
  <2> HIDE DEF c, v
  <2>5. v[n] = SumOf(c)
    BY <2>1, <2>2, <2>3, SumSteps
  <2> QED  BY <2>4, <2>5 DEF c
<1>6. ASSUME NEW p \in 1..Len(FlattenSeq(ss))
      PROVE  \E i \in 1..n : \E j \in 1..Len(ss[i]) : FlattenSeq(ss)[p] = ss[i][j]
  <2>1. PICK start : Laid(FlattenSeq(ss), start, ss)
    BY FlattenPlaces
  <2>2. p \in 1..start[Len(ss)] /\ Starts(start, ss)
    BY <2>1 DEF Laid
  <2>3. PICK i \in 1..n : \E j \in 1..Len(ss[i]) : p = start[i - 1] + j
    BY <2>2, PlacesReached
  <2>4. PICK j \in 1..Len(ss[i]) : p = start[i - 1] + j
    BY <2>3
  <2>5. FlattenSeq(ss)[p] = ss[i][j]
    BY <2>1, <2>4 DEF Laid
  <2> QED  BY <2>5
<1> QED  BY <1>3, <1>4, <1>5, <1>6

-----------------------------------------------------------------------------
(* Memory *)

\* What is in memory after a write.
LEMMA WriteFacts ==
  ASSUME NEW V, NEW N \in Nat, NEW m \in [1..N -> V], NEW s \in Seq(V),
         NEW n \in Nat, n = Len(s), NEW k \in Nat, k + n <= N
  PROVE  /\ WriteAt(m, k, s) \in [1..N -> V]
         /\ \A p \in 1..N : WriteAt(m, k, s)[p] = IF k < p /\ p <= k + n THEN s[p - k] ELSE m[p]
<1> DEFINE u == SubSeq(m, 1, k)
           v == SubSeq(m, (k + n) + 1, Len(m))
<1>1. m \in Seq(V) /\ Len(m) = N
  BY IsSequence
<1>2. u \in Seq(V) /\ Len(u) = k /\ \A i \in 1..k : u[i] = m[i]
  <2>1. k <= Len(m)
    BY <1>1
  <2> QED  BY <1>1, <2>1, FirstOf
<1>3. v \in Seq(V) /\ Len(v) = N - (k + n) /\ \A i \in 1..(N - (k + n)) : v[i] = m[(k + n) + i]
  <2>1. k + n \in Nat /\ 1 \in Nat \ {0}
    OBVIOUS
  <2>2. /\ SubSeq(m, (k + n) + 1, Len(m)) \in Seq(V)
        /\ Len(SubSeq(m, (k + n) + 1, Len(m))) = IF k + n <= Len(m) THEN Len(m) - (k + n) ELSE 0
        /\ \A i \in 1..(Len(m) - (k + n)) :
              SubSeq(m, (k + n) + 1, Len(m))[i] = m[(k + n) + i]
    BY <1>1, <2>1, RestFacts
  <2> QED  BY <1>1, <2>2
<1>4. WriteAt(m, k, s) = (u \o s) \o v
  BY DEF WriteAt
<1> HIDE DEF u, v
<1>5. PICK w : w = u \o s
  OBVIOUS
<1>6. /\ w \in Seq(V) /\ Len(w) = k + n
      /\ \A i \in 1..k : w[i] = u[i]
      /\ \A i \in 1..n : w[k + i] = s[i]
  <2>1. u \in Seq(V) /\ s \in Seq(V)
    BY <1>2
  <2>2. /\ u \o s \in Seq(V) /\ Len(u \o s) = Len(u) + Len(s)
        /\ \A i \in 1..Len(u) : (u \o s)[i] = u[i]
        /\ \A i \in 1..Len(s) : (u \o s)[Len(u) + i] = s[i]
    BY <2>1, Concatenated
  <2> QED  BY <1>2, <1>5, <2>2
<1>7. PICK z : z = w \o v
  OBVIOUS
<1>8. /\ z \in Seq(V) /\ Len(z) = N
      /\ \A i \in 1..(k + n) : z[i] = w[i]
      /\ \A i \in 1..(N - (k + n)) : z[(k + n) + i] = v[i]
  <2>1. /\ w \o v \in Seq(V) /\ Len(w \o v) = Len(w) + Len(v)
        /\ \A i \in 1..Len(w) : (w \o v)[i] = w[i]
        /\ \A i \in 1..Len(v) : (w \o v)[Len(w) + i] = v[i]
    <3>1. w \in Seq(V) /\ v \in Seq(V)
      BY <1>3, <1>6
    <3> QED  BY <3>1, Concatenated
  <2>2. Len(w) + Len(v) = N
    BY <1>3, <1>6
  <2> QED  BY <1>3, <1>6, <1>7, <2>1, <2>2
<1>9. z = WriteAt(m, k, s)
  BY <1>4, <1>5, <1>7
<1>10. z \in [1..N -> V]
  BY <1>8
<1>11. ASSUME NEW p \in 1..N
       PROVE  z[p] = IF k < p /\ p <= k + n THEN s[p - k] ELSE m[p]
  <2>1. CASE p <= k
    <3>1. p \in 1..k /\ p \in 1..(k + n)
      BY <2>1
    <3>2. z[p] = m[p]
      BY <1>2, <1>6, <1>8, <3>1
    <3> QED  BY <2>1, <3>2
  <2>2. CASE k < p /\ p <= k + n
    <3>1. PICK i \in 1..n : i = p - k /\ p = k + i
      BY <2>2
    <3>2. p \in 1..(k + n)
      BY <2>2
    <3>3. z[p] = s[i]
      BY <1>6, <1>8, <3>1, <3>2
    <3> QED  BY <2>2, <3>1, <3>3
  <2>3. CASE k + n < p
    <3>1. PICK i \in 1..(N - (k + n)) : p = (k + n) + i
      <4>1. p - (k + n) \in 1..(N - (k + n)) /\ p = (k + n) + (p - (k + n))
        BY <2>3
      <4> QED  BY <4>1
    <3>2. z[p] = m[p]
      BY <1>3, <1>8, <3>1
    <3> QED  BY <2>3, <3>2
  <2> QED  BY <2>1, <2>2, <2>3
<1> QED  BY <1>9, <1>10, <1>11

\* The key of an element.
KeysOf(m) == [e \in Nat |-> m[2 * e + 1]]

\* Keys with their indexes.
LEMMA PairsFacts ==
  ASSUME NEW s \in Seq(Keys), NEW n \in Nat, n = Len(s)
  PROVE  /\ Pairs(s) \in Seq(Keys \cup {Index}) /\ Len(Pairs(s)) = 2 * n
         /\ \A j \in 1..n : Pairs(s)[2 * (j - 1) + 1] = s[j] /\ Pairs(s)[2 * j] = Index
<1>1. PICK u : u = Pairs(s)
  OBVIOUS
<1>2. u = [i \in 1..(2 * n) |-> IF i % 2 = 1 THEN s[(i + 1) \div 2] ELSE Index]
  BY <1>1 DEF Pairs
<1>3. ASSUME NEW i \in 1..(2 * n) PROVE u[i] \in Keys \cup {Index}
  <2>1. i % 2 = 1 => (i + 1) \div 2 \in 1..n
    OBVIOUS
  <2>2. u[i] = IF i % 2 = 1 THEN s[(i + 1) \div 2] ELSE Index
    BY <1>2
  <2>3. \A j \in 1..n : s[j] \in Keys
    OBVIOUS
  <2> QED  BY <2>1, <2>2, <2>3
<1>4. u \in Seq(Keys \cup {Index}) /\ Len(u) = 2 * n
  <2>1. u \in [1..(2 * n) -> Keys \cup {Index}] /\ 2 * n \in Nat
    BY <1>2, <1>3
  <2> QED  BY <2>1, IsSequence
<1>5. ASSUME NEW j \in 1..n PROVE u[2 * (j - 1) + 1] = s[j]
  <2>1. PICK i \in 1..(2 * n) : i = 2 * (j - 1) + 1
    OBVIOUS
  <2>2. i % 2 = 1 /\ (i + 1) \div 2 = j
    BY <2>1
  <2>3. u[i] = s[j]
    BY <1>2, <2>2
  <2> QED  BY <2>1, <2>3
<1>6. ASSUME NEW j \in 1..n PROVE u[2 * j] = Index
  <2>1. PICK i \in 1..(2 * n) : i = 2 * j
    OBVIOUS
  <2>2. ~(i % 2 = 1)
    BY <2>1
  <2>3. u[i] = Index
    BY <1>2, <2>2
  <2> QED  BY <2>1, <2>3
<1> QED  BY <1>1, <1>4, <1>5, <1>6

\* The keys s fit from element k on into a memory of T pairs.
Storable(T, m, s, k, n) ==
  /\ T \in Nat /\ m \in [1..(2 * T) -> Keys \cup {Index}]
  /\ s \in Seq(Keys) /\ n \in Nat /\ n = Len(s) /\ k \in Nat /\ k + n <= T

\* The other halves of the first T pairs in memory are indexes.
Indexed(T, m) == \A e \in 0..(T - 1) : m[2 * e + 2] = Index

\* The keys in memory after keys are written with their indexes.
LEMMA PairsWritten ==
  ASSUME NEW T, NEW m, NEW s, NEW k, NEW n, Storable(T, m, s, k, n)
  PROVE  /\ WriteAt(m, 2 * k, Pairs(s)) \in [1..(2 * T) -> Keys \cup {Index}]
         /\ \A e \in 0..(T - 1) : KeysOf(WriteAt(m, 2 * k, Pairs(s)))[e] =
              IF k <= e /\ e < k + n THEN s[(e - k) + 1] ELSE KeysOf(m)[e]
         /\ Indexed(T, m) => Indexed(T, WriteAt(m, 2 * k, Pairs(s)))
<1> SUFFICES ASSUME T \in Nat, m \in [1..(2 * T) -> Keys \cup {Index}],
                    s \in Seq(Keys), n \in Nat, n = Len(s), k \in Nat, k + n <= T
             PROVE  /\ WriteAt(m, 2 * k, Pairs(s)) \in [1..(2 * T) -> Keys \cup {Index}]
                    /\ \A e \in 0..(T - 1) : KeysOf(WriteAt(m, 2 * k, Pairs(s)))[e] =
                         IF k <= e /\ e < k + n THEN s[(e - k) + 1] ELSE KeysOf(m)[e]
                    /\ Indexed(T, m) => Indexed(T, WriteAt(m, 2 * k, Pairs(s)))
  BY DEF Storable
<1> DEFINE V == Keys \cup {Index}
<1>1. PICK N \in Nat : N = 2 * T
  OBVIOUS
<1>2. PICK c \in Nat : c = 2 * k
  OBVIOUS
<1>3. PICK u : u = Pairs(s)
  OBVIOUS
<1>4. PICK l \in Nat : l = 2 * n
  OBVIOUS
<1>5. u \in Seq(V) /\ Len(u) = l /\ \A j \in 1..n : u[2 * (j - 1) + 1] = s[j] /\ u[2 * j] = Index
  BY <1>3, <1>4, PairsFacts
<1>6. c + l <= N /\ m \in [1..N -> V]
  BY <1>1, <1>2, <1>4
<1> HIDE DEF V
<1>7. PICK z : z = WriteAt(m, c, u)
  OBVIOUS
<1>8. z \in [1..N -> V] /\ \A p \in 1..N : z[p] = IF c < p /\ p <= c + l THEN u[p - c] ELSE m[p]
  <2>1. u \in Seq(V) /\ l \in Nat /\ l = Len(u) /\ c \in Nat /\ c + l <= N /\ m \in [1..N -> V]
    BY <1>5, <1>6
  <2>2. /\ WriteAt(m, c, u) \in [1..N -> V]
        /\ \A p \in 1..N : WriteAt(m, c, u)[p] = IF c < p /\ p <= c + l THEN u[p - c] ELSE m[p]
    BY <2>1, WriteFacts
  <2> QED  BY <1>7, <2>2
<1>9. ASSUME NEW e \in 0..(T - 1)
      PROVE  KeysOf(z)[e] = IF k <= e /\ e < k + n THEN s[(e - k) + 1] ELSE KeysOf(m)[e]
  <2>1. PICK p \in 1..N : p = 2 * e + 1
    BY <1>1
  <2>2. KeysOf(z)[e] = z[p] /\ KeysOf(m)[e] = m[p]
    BY <2>1 DEF KeysOf
  <2>3. c < p /\ p <= c + l <=> k <= e /\ e < k + n
    BY <1>2, <1>4, <2>1
  <2>4. ASSUME k <= e, e < k + n PROVE u[p - c] = s[(e - k) + 1]
    <3>1. PICK j \in 1..n : j = (e - k) + 1
      BY <2>4
    <3>2. p - c = 2 * (j - 1) + 1
      BY <1>2, <2>1, <3>1
    <3> QED  BY <1>5, <3>1, <3>2
  <2> QED  BY <1>8, <2>2, <2>3, <2>4
<1>10. z = WriteAt(m, 2 * k, Pairs(s))
  BY <1>2, <1>3, <1>7
<1>11. ASSUME Indexed(T, m), NEW e \in 0..(T - 1) PROVE z[2 * e + 2] = Index
  <2>1. PICK p \in 1..N : p = 2 * e + 2
    BY <1>1
  <2>2. m[p] = Index
    BY <1>11, <2>1 DEF Indexed
  <2>3. ASSUME c < p, p <= c + l PROVE u[p - c] = Index
    <3>1. PICK j \in 1..n : j = (e - k) + 1
      BY <1>2, <1>4, <2>1, <2>3
    <3>2. p - c = 2 * j
      BY <1>2, <2>1, <3>1
    <3> QED  BY <1>5, <3>1, <3>2
  <2> QED  BY <1>8, <2>1, <2>2, <2>3
<1> QED  BY <1>1, <1>8, <1>9, <1>10, <1>11 DEF V, Indexed

\* The keys of elements that lie one behind the other.
KeyRun(S, m, from, n, u) ==
  u \in Seq(S) /\ Len(u) = n /\ \A i \in 1..n : u[i] = KeysOf(m)[(from + i) - 1]

\* The keys that are read are those that lie there.
LEMMA KeysAtFacts ==
  ASSUME NEW S, NEW m, NEW from \in Nat, NEW n \in Nat,
         \A e \in from..(from + n - 1) : KeysOf(m)[e] \in S
  PROVE  KeyRun(S, m, from, n, KeysAt(m, from, n))
<1>1. PICK u : u = KeysAt(m, from, n)
  OBVIOUS
<1>2. u = [i \in 1..n |-> m[2 * (from + i - 1) + 1]]
  BY <1>1 DEF KeysAt
<1>3. ASSUME NEW i \in 1..n PROVE u[i] = KeysOf(m)[(from + i) - 1] /\ u[i] \in S
  <2>1. PICK e \in Nat : e = (from + i) - 1 /\ e \in from..(from + n - 1)
    OBVIOUS
  <2>2. u[i] = m[2 * e + 1]
    BY <1>2, <2>1
  <2>3. KeysOf(m)[e] = m[2 * e + 1]
    BY DEF KeysOf
  <2> QED  BY <2>1, <2>2, <2>3
<1>4. u \in [1..n -> S]
  BY <1>2, <1>3
<1>5. u \in Seq(S) /\ Len(u) = n
  BY <1>4, IsSequence
<1> QED  BY <1>1, <1>3, <1>5 DEF KeyRun

-----------------------------------------------------------------------------
(* Merging *)

\* Keys that do not decrease.
InOrder(f, lo, hi) == (\A e \in lo..(hi - 1) : f[e] \in Keys) /\ Rising(f, lo, hi)

\* The keys f from lo to before hi are those of S, sorted.
Holds(S, f, lo, hi) ==
  /\ InOrder(f, lo, hi)
  /\ \A x \in Nat : Num(f, lo, hi, x) = Num(S, lo, hi, x)

\* A merge of the queues of f into g: what is written and what is left are
\* together the keys of S, and nothing that is left is less than what is written.
Pending(S, f, g, h, r, o, lo, hi) ==
  /\ Within(h, r, o, lo, hi) /\ o + SumOf(r) = hi
  /\ InOrder(g, lo, o)
  /\ \A i \in 1..Len(r) : InOrder(f, h[i], h[i] + r[i])
  /\ \A i \in 1..Len(r), d \in lo..(o - 1) :
       \A e \in h[i]..(h[i] + r[i] - 1) : g[d] <= f[e]
  /\ \A x \in Nat :
       Num(g, lo, o, x) + SumOf([i \in 1..Len(r) |-> Num(f, h[i], h[i] + r[i], x)])
         = Num(S, lo, hi, x)

\* A merge under way: no queue is empty.
Merging(S, f, g, m, lo, hi) ==
  /\ Pending(S, f, g, m.head, m.rest, m.out, lo, hi)
  /\ 1 <= Len(m.rest) /\ \A i \in 1..Len(m.rest) : 1 <= m.rest[i]

\* Behind what g holds from lo to before o, g2 holds s.
Placed(g2, g, lo, o, s) ==
  /\ \A e \in lo..(o - 1) : g2[e] = g[e]
  /\ \A e \in o..(o + Len(s) - 1) : g2[e] = s[(e - o) + 1]

\* A sequence lies in f from o to before z.
Lies(f, o, z, s) ==
  /\ o \in Int /\ z \in Int /\ z - o = Len(s) /\ Len(s) \in Nat
  /\ \A e \in o..(z - 1) : f[e] = s[(e - o) + 1]

\* The keys counted where a sequence lies.
LEMMA NumPlaced ==
  ASSUME NEW f, NEW s, NEW o, NEW z, Lies(f, o, z, s), NEW x
  PROVE  Num(f, o, z, x) = Upto(s, x)
<1>0. /\ o \in Int /\ z \in Int /\ z - o = Len(s) /\ Len(s) \in Nat
      /\ \A e \in o..(z - 1) : f[e] = s[(e - o) + 1]
  BY DEF Lies
<1>1. PICK q \in Int : q = Len(s) + 1
  BY <1>0
<1>2. o \in Int /\ 1 \in Int /\ z \in Int /\ q \in Int /\ o <= z /\ z - o = q - 1
  BY <1>0, <1>1
<1>3. \A i \in Int, j \in Int : o <= i /\ i < z /\ i - o = j - 1 => f[i] = s[j]
  <2>1. ASSUME NEW i \in Int, NEW j \in Int, o <= i, i < z, i - o = j - 1 PROVE f[i] = s[j]
    <3>1. i \in o..(z - 1) /\ j = (i - o) + 1
      BY <1>0, <2>1
    <3> QED  BY <1>0, <3>1
  <2> QED  BY <2>1
<1>4. Shifted(f, o, z, s, 1, q)
  BY <1>2, <1>3 DEF Shifted
<1>5. Num(f, o, z, x) = Num(s, 1, q, x)
  BY <1>4, NumShift
<1> QED  BY <1>1, <1>5 DEF Upto

\* The same entries are counted.
LEMMA NumSame ==
  ASSUME NEW f, NEW g, NEW lo, NEW hi, \A e \in lo..(hi - 1) : g[e] = f[e], NEW x
  PROVE  Num(g, lo, hi, x) = Num(f, lo, hi, x)
<1>1. {e \in lo..(hi - 1) : g[e] <= x} = {e \in lo..(hi - 1) : f[e] <= x}
  OBVIOUS
<1> QED  BY <1>1 DEF Num

\* A sorted sequence written behind sorted keys that are not greater.
LEMMA Extended ==
  ASSUME NEW g, NEW g2, NEW lo \in Nat, NEW o \in Nat, lo <= o, NEW s \in Seq(Keys),
         NEW z, z = o + Len(s), InOrder(g, lo, o), Rising(s, 1, Len(s) + 1),
         \A d \in lo..(o - 1), p \in 1..Len(s) : g[d] <= s[p], Placed(g2, g, lo, o, s)
  PROVE  InOrder(g2, lo, z) /\ \A x : Num(g2, lo, z, x) = Num(g, lo, o, x) + Upto(s, x)
<1>0. PICK n \in Nat : /\ n = Len(s) /\ z = o + n /\ z \in Nat /\ Rising(s, 1, n + 1)
                       /\ \A d \in lo..(o - 1), p \in 1..n : g[d] <= s[p]
                       /\ \A e \in lo..(o - 1) : g2[e] = g[e]
                       /\ \A e \in o..(z - 1) : g2[e] = s[(e - o) + 1]
  BY DEF Placed
<1>1. \A p \in 1..n : s[p] \in Keys
  BY <1>0
<1>2. \A e \in lo..(o - 1) : g[e] \in Keys
  BY DEF InOrder
<1>3. ASSUME NEW e \in lo..(z - 1)
      PROVE  \/ e \in lo..(o - 1) /\ g2[e] = g[e]
             \/ e \in o..(z - 1) /\ (e - o) + 1 \in 1..n /\ g2[e] = s[(e - o) + 1]
  <2>1. CASE e < o
    BY <1>0, <2>1
  <2>2. CASE ~(e < o)
    <3>1. e \in o..(z - 1) /\ (e - o) + 1 \in 1..n
      BY <1>0, <2>2
    <3> QED  BY <1>0, <3>1
  <2> QED  BY <2>1, <2>2
<1>4. \A e \in lo..(z - 1) : g2[e] \in Keys
  BY <1>1, <1>2, <1>3
<1>5. \A e \in lo..(z - 1) : g2[e] \in Int
  BY <1>4 DEF Keys
<1>6. ASSUME NEW d \in lo..(z - 1), NEW e \in lo..(z - 1), d <= e PROVE g2[d] <= g2[e]
  <2>1. CASE e < o
    <3>1. d \in lo..(o - 1) /\ e \in lo..(o - 1)
      BY <1>6, <2>1
    <3>2. g[d] <= g[e]
      BY <1>6, <3>1 DEF InOrder, Rising
    <3> QED  BY <1>0, <3>1, <3>2
  <2>2. CASE d < o /\ o <= e
    <3>1. d \in lo..(o - 1) /\ e \in o..(z - 1)
      BY <2>2
    <3>2. PICK p \in 1..n : p = (e - o) + 1
      BY <1>0, <3>1
    <3>3. g2[d] = g[d] /\ g2[e] = s[p]
      BY <1>0, <3>1, <3>2
    <3> QED  BY <1>0, <3>1, <3>3
  <2>3. CASE o <= d
    <3>1. d \in o..(z - 1) /\ e \in o..(z - 1)
      BY <1>6, <2>3
    <3>2. PICK p \in 1..n : p = (e - o) + 1
      BY <1>0, <3>1
    <3>3. PICK q \in 1..n : q = (d - o) + 1
      BY <1>0, <3>1
    <3>4. q <= p /\ q \in 1..((n + 1) - 1) /\ p \in 1..((n + 1) - 1)
      BY <1>6, <3>2, <3>3
    <3>5. s[q] <= s[p]
      BY <1>0, <3>4 DEF Rising
    <3> QED  BY <1>0, <3>1, <3>2, <3>3, <3>5
  <2> QED  BY <1>6, <2>1, <2>2, <2>3
<1>7. InOrder(g2, lo, z)
  BY <1>4, <1>5, <1>6 DEF InOrder, Rising
<1>8. ASSUME NEW x PROVE Num(g2, lo, z, x) = Num(g, lo, o, x) + Upto(s, x)
  <2>1. lo \in Int /\ o \in Int /\ z \in Int /\ o <= z /\ n + 1 \in Int /\ 1 \in Int
    BY <1>0
  <2>2. Num(g2, lo, z, x) = Num(g2, lo, o, x) + Num(g2, o, z, x)
    BY <2>1, NumJoin
  <2>3. Num(g2, lo, o, x) = Num(g, lo, o, x)
    <3>1. \A e \in lo..(o - 1) : g2[e] = g[e]
      BY <1>0
    <3> QED  BY <3>1, NumSame
  <2>4. Num(g2, o, z, x) = Upto(s, x)
    <3>1. z - o = Len(s) /\ Len(s) \in Nat /\ \A e \in o..(z - 1) : g2[e] = s[(e - o) + 1]
      BY <1>0
    <3>2. Lies(g2, o, z, s)
      BY <2>1, <3>1 DEF Lies
    <3> QED  BY <3>2, NumPlaced
  <2> QED  BY <1>0, <2>2, <2>3, <2>4
<1> QED  BY <1>7, <1>8

\* What holds the elements of a sequence.
LEMMA Retyped ==
  ASSUME NEW A, NEW B, NEW s \in Seq(A), \A i \in 1..Len(s) : s[i] \in B
  PROVE  s \in Seq(B)
<1>1. PICK n \in Nat : n = Len(s)
  OBVIOUS
<1>2. s \in [1..n -> B]
  BY <1>1
<1> QED  BY <1>2, IsSequence

\* Sorting keeps the keys.
LEMMA AscendingCounts ==
  ASSUME UniqueAssumption, NEW s \in Seq(Keys), NEW n \in Nat, n = Len(s)
  PROVE  /\ Ascending(s) \in Seq(Keys) /\ Len(Ascending(s)) = n
         /\ Rising(Ascending(s), 1, n + 1)
         /\ \A x \in Nat : Upto(Ascending(s), x) = Upto(s, x)
         /\ \A p \in 1..n : \E i \in 1..n : Ascending(s)[p] = s[i]
<1>1. Inf \in Nat /\ Keys \subseteq 0..Inf
  BY DEF UniqueAssumption, Keys
<1>2. s \in Seq(0..Inf)
  <2>1. \A i \in 1..Len(s) : s[i] \in 0..Inf
    <3>1. \A i \in 1..Len(s) : s[i] \in Keys
      OBVIOUS
    <3> QED  BY <1>1, <3>1
  <2> QED  BY <2>1, Retyped
<1>3. PICK a : a = Ascending(s)
  OBVIOUS
<1>4. /\ a \in Seq(0..Inf) /\ Len(a) = n
      /\ \A p \in 1..n : /\ \E i \in 1..n : a[p] = s[i]
                         /\ \A x \in Nat : a[p] <= x <=> p <= Upto(s, x)
  BY <1>1, <1>2, <1>3, AscendingFacts
<1>5. \A p \in 1..n : a[p] \in Keys
  BY <1>4
<1>6. a \in Seq(Keys)
  BY <1>4, <1>5, Retyped
<1>7. Rising(a, 1, n + 1)
  <2>1. \A e \in 1..((n + 1) - 1) : a[e] \in Int
    BY <1>5 DEF Keys
  <2>2. ASSUME NEW d \in 1..((n + 1) - 1), NEW e \in 1..((n + 1) - 1), d <= e
        PROVE  a[d] <= a[e]
    <3>1. d \in 1..n /\ e \in 1..n
      OBVIOUS
    <3>2. PICK x \in Nat : x = a[e]
      BY <1>5, <3>1 DEF Keys
    <3>3. a[e] <= x
      BY <3>2
    <3>4. e <= Upto(s, x)
      BY <1>4, <3>1, <3>3
    <3>5. Upto(s, x) \in Nat
      <4>1. 1 \in Int /\ n + 1 \in Int /\ 1 <= n + 1
        OBVIOUS
      <4>2. Num(s, 1, n + 1, x) \in Nat
        BY <4>1, NumBound
      <4> QED  BY <4>2 DEF Upto
    <3>6. d <= Upto(s, x)
      BY <2>2, <3>1, <3>4, <3>5
    <3> QED  BY <1>4, <3>1, <3>2, <3>6
  <2> QED  BY <2>1, <2>2 DEF Rising
<1>8. ASSUME NEW x \in Nat PROVE Upto(a, x) = Upto(s, x)
  <2>1. 1 \in Int /\ n + 1 \in Int /\ 1 <= n + 1
    OBVIOUS
  <2>2. PICK k \in Nat : k = Upto(s, x) /\ k <= n
    <3>1. Num(s, 1, n + 1, x) \in Nat /\ Num(s, 1, n + 1, x) <= (n + 1) - 1
      BY <2>1, NumBound
    <3> QED  BY <3>1 DEF Upto
  <2>3. \A p \in 1..((n + 1) - 1) : a[p] <= x <=> p - 1 < k
    <3>1. SUFFICES ASSUME NEW p \in 1..((n + 1) - 1) PROVE a[p] <= x <=> p - 1 < k
      OBVIOUS
    <3>2. p \in 1..n /\ (p - 1 < k <=> p <= k)
      BY <2>2
    <3> QED  BY <1>4, <2>2, <3>2
  <2>4. 1 + k <= n + 1
    BY <2>2
  <2>5. Num(a, 1, n + 1, x) = k
    BY <2>1, <2>3, <2>4, NumFirst
  <2> QED  BY <1>4, <2>2, <2>5 DEF Upto
<1> QED  BY <1>3, <1>4, <1>6, <1>7, <1>8

\* The offset of the element whose place in the sequence is j.
LEMMA Backwards ==
  ASSUME NEW a \in Nat, NEW u \in Nat, NEW j \in Nat, NEW d \in Int, d < a + u, j = (d - a) + 1
  PROVE  d = (a + j) - 1 /\ ~(j > u)
OBVIOUS

\* The first c[i] keys of each queue h[i], r[i].
Chunked(chunks, f, h, r, c, n) ==
  /\ n \in 2..4 /\ h \in [1..n -> Nat] /\ r \in [1..n -> Nat] /\ c \in [1..n -> Nat]
  /\ \A i \in 1..n : 1 <= c[i] /\ c[i] <= r[i]
  /\ \A i \in 1..n : InOrder(f, h[i], h[i] + r[i])
  /\ DOMAIN chunks = 1..n /\ Len(chunks) = n
  /\ \A i \in 1..n : Len(chunks[i]) = c[i] /\ \A j \in 1..c[i] : chunks[i][j] = f[(h[i] + j) - 1]

\* What MrgSort takes from the queues is not greater than what it leaves, and
\* it exhausts one chunk.
LEMMA RoundSplits ==
  ASSUME NEW n, NEW f, NEW h, NEW r, NEW c, NEW chunks, Chunked(chunks, f, h, r, c, n),
         NEW k \in Taken(chunks)
  PROVE  /\ k \in [1..n -> Nat] /\ \A i \in 1..n : k[i] <= c[i]
         /\ \E e \in 1..n : \A i \in 1..n : i # e => k[i] < r[i]
         /\ \E last \in Nat : \A i \in 1..n : \A d \in h[i]..(h[i] + r[i] - 1) :
              /\ d < h[i] + k[i] => f[d] <= last
              /\ h[i] + k[i] <= d => last <= f[d]
<1> SUFFICES ASSUME n \in 2..4, h \in [1..n -> Nat], r \in [1..n -> Nat], c \in [1..n -> Nat],
                    \A i \in 1..n : 1 <= c[i] /\ c[i] <= r[i],
                    \A i \in 1..n : InOrder(f, h[i], h[i] + r[i]),
                    DOMAIN chunks = 1..n, Len(chunks) = n,
                    \A i \in 1..n : Len(chunks[i]) = c[i] /\ \A j \in 1..c[i] : chunks[i][j] = f[(h[i] + j) - 1]
             PROVE  /\ k \in [1..n -> Nat] /\ \A i \in 1..n : k[i] <= c[i]
                    /\ \E e \in 1..n : \A i \in 1..n : i # e => k[i] < r[i]
                    /\ \E last \in Nat : \A i \in 1..n : \A d \in h[i]..(h[i] + r[i] - 1) :
                         /\ d < h[i] + k[i] => f[d] <= last
                         /\ h[i] + k[i] <= d => last <= f[d]
  BY DEF Chunked
<1>1. k \in [1..n -> Nat] /\ \A i \in 1..n : k[i] <= c[i]
  <2>1. \A i \in 1..n : Len(chunks[i]) = c[i]
    OBVIOUS
  <2> QED  BY <2>1, TakenBounds
<1>2. PICK e \in 1..n :
        LET last == chunks[e][Len(chunks[e])]
        IN /\ k[e] = Len(chunks[e])
           /\ \A i \in (1..n) \ {e} :
               /\ k[i] < Len(chunks[i])
               /\ \A j \in 1..Len(chunks[i]) :
                    /\ chunks[i][j] < last => j <= k[i]
                    /\ chunks[i][j] > last => j > k[i]
  BY DEF Taken
<1>3. PICK last : last = chunks[e][Len(chunks[e])]
  OBVIOUS
<1>4. k[e] = c[e] /\ last = chunks[e][c[e]]
  BY <1>2, <1>3
<1>5. ASSUME NEW i \in 1..n, i # e
      PROVE  /\ k[i] < c[i]
             /\ \A j \in 1..c[i] : /\ chunks[i][j] < last => j <= k[i]
                                   /\ chunks[i][j] > last => j > k[i]
  BY <1>2, <1>3, <1>5
<1>6. PICK q : q = f[(h[e] + c[e]) - 1]
  OBVIOUS
<1>7. last = q
  <2>1. c[e] \in 1..c[e]
    OBVIOUS
  <2> QED  BY <1>4, <1>6, <2>1
<1>8. last \in Nat
  <2>1. InOrder(f, h[e], h[e] + r[e]) /\ h[e] \in Nat /\ r[e] \in Nat /\ c[e] \in Nat
        /\ 1 <= c[e] /\ c[e] <= r[e]
    OBVIOUS
  <2>2. (h[e] + c[e]) - 1 \in h[e]..(h[e] + r[e] - 1)
    BY <2>1
  <2>3. f[(h[e] + c[e]) - 1] \in Keys
    BY <2>1, <2>2 DEF InOrder
  <2> QED  BY <1>6, <1>7, <2>3 DEF Keys
<1>9. ASSUME NEW i \in 1..n, NEW d \in h[i]..(h[i] + r[i] - 1)
      PROVE  /\ d < h[i] + k[i] => f[d] <= last
             /\ h[i] + k[i] <= d => last <= f[d]
  <2>1. PICK a \in Nat, l \in Nat, g \in Nat, u \in Nat : a = h[i] /\ l = r[i] /\ g = c[i] /\ u = k[i]
    BY <1>1
  <2>2. InOrder(f, a, a + l) /\ 1 <= g /\ g <= l /\ u <= g
    BY <1>1, <2>1
  <2>3. /\ \A p \in a..(a + l - 1) : f[p] \in Nat
        /\ \A p \in a..(a + l - 1), s \in a..(a + l - 1) : p <= s => f[p] <= f[s]
    BY <2>2 DEF InOrder, Rising, Keys
  <2>4. \A j \in 1..g : chunks[i][j] = f[(a + j) - 1]
    BY <2>1
  <2>5. d \in a..(a + l - 1)
    BY <2>1
  <2>6. CASE i = e
    <3>1. u = g /\ q = f[(a + g) - 1]
      BY <1>4, <1>6, <2>1, <2>6
    <3>2. PICK p \in a..(a + l - 1) : p = (a + g) - 1
      BY <2>2
    <3>3. last = f[p]
      BY <1>7, <3>1, <3>2
    <3>4. d < a + u => f[d] <= last
      <4>1. d < a + u => d <= p
        BY <2>2, <2>5, <3>1, <3>2
      <4> QED  BY <2>3, <2>5, <3>3, <4>1
    <3>5. a + u <= d => last <= f[d]
      <4>1. a + u <= d => p <= d
        BY <2>2, <2>5, <3>1, <3>2
      <4> QED  BY <2>3, <2>5, <3>3, <4>1
    <3> QED  BY <2>1, <3>4, <3>5
  <2>7. CASE i # e
    <3>1. u < g /\ \A j \in 1..g : /\ chunks[i][j] < last => j <= u
                                   /\ chunks[i][j] > last => j > u
      BY <1>5, <2>1, <2>7
    <3>2. ASSUME d < a + u PROVE f[d] <= last
      <4>1. PICK j \in 1..g : j = (d - a) + 1
        BY <2>2, <2>5, <3>1, <3>2
      <4>2. d = (a + j) - 1 /\ ~(j > u)
        <5>1. d \in Int /\ d < a + u /\ j = (d - a) + 1
          BY <2>5, <3>2, <4>1
        <5>2. a \in Nat /\ u \in Nat /\ j \in Nat
          OBVIOUS
        <5> QED  BY <5>1, <5>2, Backwards
      <4>3. chunks[i][j] = f[d]
        BY <2>4, <4>2
      <4>4. ~(f[d] > last)
        BY <3>1, <4>2, <4>3
      <4>5. f[d] \in Nat
        BY <2>3, <2>5
      <4> QED  BY <1>8, <4>4, <4>5
    <3>3. ASSUME a + u <= d PROVE last <= f[d]
      <4>1. PICK j \in 1..g : j = u + 1
        BY <2>2, <3>1
      <4>2. PICK p \in a..(a + l - 1) : p = (a + j) - 1
        BY <2>2, <4>1
      <4>3. chunks[i][j] = f[p] /\ ~(j <= u)
        BY <2>4, <4>1, <4>2
      <4>4. ~(f[p] < last)
        BY <3>1, <4>3
      <4>5. f[p] \in Nat /\ f[d] \in Nat
        BY <2>3, <2>5, <4>2
      <4>6. p <= d
        BY <2>5, <3>3, <4>1, <4>2
      <4>7. f[p] <= f[d]
        BY <2>3, <2>5, <4>2, <4>6
      <4> QED  BY <1>8, <4>4, <4>5, <4>7
    <3> QED  BY <2>1, <3>2, <3>3
  <2> QED  BY <2>6, <2>7
<1>10. ASSUME NEW i \in 1..n, i # e PROVE k[i] < r[i]
  <2>1. k[i] < c[i] /\ c[i] <= r[i] /\ k[i] \in Nat /\ c[i] \in Nat /\ r[i] \in Nat
    BY <1>1, <1>5, <1>10
  <2> QED  BY <2>1
<1> QED  BY <1>1, <1>8, <1>9, <1>10

\* A key among sorted keys.
LEMMA InOrderKey ==
  ASSUME NEW f, NEW lo, NEW hi, InOrder(f, lo, hi), NEW e \in lo..(hi - 1)
  PROVE  f[e] \in Keys /\ f[e] \in Nat
BY DEF InOrder, Keys

\* A part of sorted keys is sorted.
LEMMA InOrderPart ==
  ASSUME NEW f, NEW lo \in Int, NEW hi \in Int, InOrder(f, lo, hi),
         NEW a \in Int, NEW b \in Int, lo <= a, b <= hi
  PROVE  InOrder(f, a, b)
<1>1. \A e \in a..(b - 1) : e \in lo..(hi - 1)
  OBVIOUS
<1> QED  BY <1>1 DEF InOrder, Rising

\* Of the queues of f, k[i] keys each are taken and none of those left is less.
Splits(f, h, r, k, n) ==
  /\ k \in [1..n -> Nat] /\ \A i \in 1..n : k[i] <= r[i]
  /\ \E last \in Nat : \A i \in 1..n : \A d \in h[i]..(h[i] + r[i] - 1) :
       /\ d < h[i] + k[i] => f[d] <= last
       /\ h[i] + k[i] <= d => last <= f[d]

\* The sequence s holds the keys taken, sorted.
Gathers(s, f, h, k, n) ==
  /\ s \in Seq(Keys) /\ Len(s) = SumOf(k) /\ Rising(s, 1, Len(s) + 1)
  /\ \A x \in Nat : Upto(s, x) = SumOf([i \in 1..n |-> Num(f, h[i], h[i] + k[i], x)])
  /\ \A p \in 1..Len(s) : \E i \in 1..n : \E d \in h[i]..(h[i] + k[i] - 1) : s[p] = f[d]

\* The queues after it.
Moved(h, r, k, n, h2, r2) ==
  h2 = [i \in 1..n |-> h[i] + k[i]] /\ r2 = [i \in 1..n |-> r[i] - k[i]]

\* One round of a merge.
LEMMA RoundPending ==
  ASSUME NEW S, NEW f, NEW g, NEW g2, NEW lo \in Nat, NEW hi \in Nat, NEW n \in Nat,
         NEW h, NEW r, NEW o, n = Len(r), Pending(S, f, g, h, r, o, lo, hi),
         NEW k, Splits(f, h, r, k, n), NEW s, Gathers(s, f, h, k, n), Placed(g2, g, lo, o, s),
         NEW h2, NEW r2, Moved(h, r, k, n, h2, r2), NEW z, z = o + SumOf(k)
  PROVE  Pending(S, f, g2, h2, r2, z, lo, hi)
<1>1. /\ Within(h, r, o, lo, hi) /\ o + SumOf(r) = hi
      /\ InOrder(g, lo, o)
      /\ \A i \in 1..n : InOrder(f, h[i], h[i] + r[i])
      /\ \A i \in 1..n, d \in lo..(o - 1) : \A e \in h[i]..(h[i] + r[i] - 1) : g[d] <= f[e]
      /\ \A x \in Nat : Num(g, lo, o, x) + SumOf([i \in 1..n |-> Num(f, h[i], h[i] + r[i], x)])
                          = Num(S, lo, hi, x)
  BY DEF Pending
<1>2. h \in Seq(Nat) /\ r \in Seq(Nat) /\ o \in Nat /\ Len(h) = n /\ lo <= o /\ n <= 4
  BY <1>1 DEF Within
<1>31. k \in [1..n -> Nat] /\ \A i \in 1..n : k[i] <= r[i]
  BY DEF Splits
<1>3. /\ h \in [1..n -> Nat] /\ r \in [1..n -> Nat] /\ k \in Seq(Nat) /\ Len(k) = n
  <2>1. k \in Seq(Nat) /\ Len(k) = n
    BY <1>31, IsSequence
  <2>2. h \in [1..n -> Nat] /\ r \in [1..n -> Nat]
    BY <1>2
  <2> QED  BY <2>1, <2>2
<1>32. PICK last \in Nat : \A i \in 1..n : \A d \in h[i]..(h[i] + r[i] - 1) :
         /\ d < h[i] + k[i] => f[d] <= last
         /\ h[i] + k[i] <= d => last <= f[d]
  BY DEF Splits
<1>33. /\ s \in Seq(Keys) /\ Len(s) = SumOf(k) /\ Rising(s, 1, Len(s) + 1)
       /\ \A x \in Nat : Upto(s, x) = SumOf([i \in 1..n |-> Num(f, h[i], h[i] + k[i], x)])
       /\ \A p \in 1..Len(s) : \E i \in 1..n : \E d \in h[i]..(h[i] + k[i] - 1) : s[p] = f[d]
  BY DEF Gathers
<1>34. PICK l \in Nat : l = Len(s) /\ l = SumOf(k) /\ z = o + l
  BY <1>33
<1>35. /\ \A e \in lo..(o - 1) : g2[e] = g[e]
       /\ \A e \in o..(z - 1) : g2[e] = s[(e - o) + 1]
       /\ z \in Nat
  BY <1>2, <1>34 DEF Placed
<1>4. Within(h2, r2, z, lo, hi)
  <2>1. Within(h2, r2, o + SumOf(k), lo, hi)
    <3>1. Within(h, r, o, lo, hi)
      BY <1>1
    <3> QED  BY <1>31, <3>1, Shortened DEF Moved
  <2> QED  BY <2>1
<1>5. r2 \in Seq(Nat) /\ Len(r2) = n
  <2>1. ASSUME NEW i \in 1..n PROVE r[i] - k[i] \in Nat
    <3>1. r[i] \in Nat /\ k[i] \in Nat /\ k[i] <= r[i]
      BY <1>3, <1>31
    <3> QED  BY <3>1
  <2>2. r2 \in [1..n -> Nat]
    BY <2>1 DEF Moved
  <2> QED  BY <2>2, IsSequence
<1>6. z + SumOf(r2) = hi
  <2>1. ASSUME NEW i \in 1..n PROVE k[i] + r2[i] = r[i]
    <3>1. r[i] \in Nat /\ k[i] \in Nat /\ r2[i] = r[i] - k[i]
      BY <1>3, <1>31 DEF Moved
    <3> QED  BY <3>1
  <2>2. SumOf(k) + SumOf(r2) = SumOf(r)
    <3>1. \A i \in 1..n : k[i] + r2[i] = r[i]
      BY <2>1
    <3>2. /\ r \in Seq(Nat) /\ k \in Seq(Nat) /\ r2 \in Seq(Nat)
          /\ Len(r) = n /\ Len(k) = n /\ Len(r2) = n
      BY <1>2, <1>3, <1>5
    <3>3. ASSUME NEW a \in Seq(Nat), NEW b \in Seq(Nat), NEW c \in Seq(Nat),
                 Len(a) = n, Len(b) = n, Len(c) = n, \A i \in 1..n : b[i] + c[i] = a[i]
          PROVE  SumOf(b) + SumOf(c) = SumOf(a)
      BY <3>3, SumsAdd
    <3> QED  BY <3>1, <3>2, <3>3
  <2>3. SumOf(k) \in Nat /\ SumOf(r2) \in Nat /\ SumOf(r) \in Nat
    BY <1>2, <1>3, <1>5, Summed
  <2> QED  BY <1>1, <1>2, <2>2, <2>3
<1>7. ASSUME NEW i \in 1..n
      PROVE  /\ h2[i] = h[i] + k[i] /\ r2[i] = r[i] - k[i] /\ h2[i] + r2[i] = h[i] + r[i]
             /\ h[i] \in Nat /\ r[i] \in Nat /\ k[i] \in Nat /\ k[i] <= r[i]
  <2>1. h[i] \in Nat /\ r[i] \in Nat /\ k[i] \in Nat /\ k[i] <= r[i]
    BY <1>3, <1>31
  <2>2. h2[i] = h[i] + k[i] /\ r2[i] = r[i] - k[i]
    BY DEF Moved
  <2> QED  BY <2>1, <2>2
<1>8. ASSUME NEW p \in 1..Len(s)
      PROVE  /\ s[p] <= last /\ s[p] \in Nat
             /\ \A d \in lo..(o - 1) : g[d] <= s[p]
  <2>1. PICK i \in 1..n : \E d \in h[i]..(h[i] + k[i] - 1) : s[p] = f[d]
    BY <1>33
  <2>2. PICK d \in h[i]..(h[i] + k[i] - 1) : s[p] = f[d]
    BY <2>1
  <2>3. d \in h[i]..(h[i] + r[i] - 1) /\ d < h[i] + k[i]
    <3>1. h[i] \in Nat /\ r[i] \in Nat /\ k[i] \in Nat /\ k[i] <= r[i]
      BY <1>7
    <3> QED  BY <3>1
  <2>4. s[p] \in Nat
    <3>1. s[p] \in Keys
      BY <1>33
    <3> QED  BY <3>1 DEF Keys
  <2> QED  BY <1>1, <1>32, <2>2, <2>3, <2>4
<1>9. InOrder(g2, lo, z) /\ \A x : Num(g2, lo, z, x) = Num(g, lo, o, x) + Upto(s, x)
  <2>2. \A d \in lo..(o - 1), p \in 1..Len(s) : g[d] <= s[p]
    BY <1>8
  <2>3. s \in Seq(Keys) /\ InOrder(g, lo, o) /\ o \in Nat /\ lo <= o /\ z = o + Len(s)
    BY <1>1, <1>2, <1>33, <1>34
  <2>4. Rising(s, 1, Len(s) + 1)
    BY <1>33
  <2> QED  BY <2>2, <2>3, <2>4, Extended
<1>10. ASSUME NEW i \in 1..n PROVE InOrder(f, h2[i], h2[i] + r2[i])
  <2>1. PICK a \in Nat, b \in Nat, c \in Nat : a = h[i] /\ b = r[i] /\ c = k[i] /\ c <= b
    BY <1>7
  <2>2. h2[i] = a + c /\ h2[i] + r2[i] = a + b
    BY <1>7, <2>1
  <2>3. InOrder(f, a, a + b)
    BY <1>1, <2>1
  <2>4. a \in Int /\ a + c \in Int /\ a + b \in Int /\ a <= a + c /\ a + b <= a + b
    OBVIOUS
  <2>5. InOrder(f, a + c, a + b)
    BY <2>3, <2>4, InOrderPart
  <2> QED  BY <2>2, <2>5
<1>11. ASSUME NEW i \in 1..n, NEW d \in lo..(z - 1), NEW e \in h2[i]..(h2[i] + r2[i] - 1)
       PROVE  g2[d] <= f[e]
  <2>0. PICK a \in Nat, b \in Nat, c \in Nat : a = h[i] /\ b = r[i] /\ c = k[i]
    BY <1>7
  <2>1. e \in a..((a + b) - 1) /\ a + c <= e
    <3>1. h2[i] = a + c /\ r2[i] = b - c
      BY <1>7, <2>0
    <3>2. e \in (a + c)..((a + b) - 1)
      BY <3>1
    <3> QED  BY <3>2
  <2>2. CASE d < o
    <3>1. d \in lo..(o - 1)
      BY <1>2, <2>2
    <3>2. g[d] <= f[e]
      BY <1>1, <2>0, <2>1, <3>1
    <3> QED  BY <1>35, <3>1, <3>2
  <2>3. CASE ~(d < o)
    <3>1. d \in o..(z - 1)
      BY <1>2, <2>3
    <3>2. PICK p \in 1..Len(s) : p = (d - o) + 1
      BY <1>2, <1>34, <3>1
    <3>3. g2[d] = s[p]
      BY <1>35, <3>1, <3>2
    <3>4. s[p] <= last /\ s[p] \in Nat
      BY <1>8
    <3>5. last <= f[e]
      BY <1>32, <2>0, <2>1
    <3>6. f[e] \in Nat
      <4>1. InOrder(f, a, a + b)
        BY <1>1, <2>0
      <4> QED  BY <2>1, <4>1, InOrderKey
    <3> QED  BY <3>3, <3>4, <3>5, <3>6
  <2> QED  BY <2>2, <2>3
<1>12. ASSUME NEW x \in Nat
       PROVE  Num(g2, lo, z, x) + SumOf([i \in 1..n |-> Num(f, h2[i], h2[i] + r2[i], x)])
                = Num(S, lo, hi, x)
  <2> DEFINE A == [i \in 1..n |-> Num(f, h[i], h[i] + r[i], x)]
             B == [i \in 1..n |-> Num(f, h[i], h[i] + k[i], x)]
             C == [i \in 1..n |-> Num(f, h2[i], h2[i] + r2[i], x)]
  <2>1. ASSUME NEW i \in 1..n
        PROVE  A[i] \in Nat /\ B[i] \in Nat /\ C[i] \in Nat /\ B[i] + C[i] = A[i]
    <3>1. PICK a \in Int, b \in Int, c \in Int : a = h[i] /\ b = h[i] + k[i] /\ c = h[i] + r[i] /\ a <= b /\ b <= c
      <4>1. h[i] \in Nat /\ r[i] \in Nat /\ k[i] \in Nat /\ k[i] <= r[i]
        BY <1>7
      <4>2. /\ h[i] \in Int /\ h[i] + k[i] \in Int /\ h[i] + r[i] \in Int
            /\ h[i] <= h[i] + k[i] /\ h[i] + k[i] <= h[i] + r[i]
        BY <4>1
      <4> QED  BY <4>2
    <3>2. b = h2[i] /\ c = h2[i] + r2[i]
      BY <1>7, <3>1
    <3>3. A[i] = Num(f, a, c, x) /\ B[i] = Num(f, a, b, x) /\ C[i] = Num(f, b, c, x)
      BY <3>1, <3>2
    <3>4. Num(f, a, c, x) = Num(f, a, b, x) + Num(f, b, c, x)
      BY <3>1, NumJoin
    <3>5. a <= c
      BY <3>1
    <3>6. Num(f, a, c, x) \in Nat /\ Num(f, a, b, x) \in Nat /\ Num(f, b, c, x) \in Nat
      BY <3>1, <3>5, NumBound
    <3> HIDE DEF A, B, C
    <3> QED  BY <3>3, <3>4, <3>6
  <2>2. A \in [1..n -> Nat] /\ B \in [1..n -> Nat] /\ C \in [1..n -> Nat]
    BY <2>1
  <2>3. Num(g, lo, o, x) + SumOf(A) = Num(S, lo, hi, x)
    BY <1>1
  <2>4. Num(g2, lo, z, x) = Num(g, lo, o, x) + SumOf(B)
    BY <1>9, <1>33
  <2>5. Num(g, lo, o, x) \in Nat
    <3>1. lo \in Int /\ o \in Int /\ lo <= o
      BY <1>2
    <3> QED  BY <3>1, NumBound
  <2> HIDE DEF A, B, C
  <2>6. A \in Seq(Nat) /\ B \in Seq(Nat) /\ C \in Seq(Nat) /\ Len(A) = n /\ Len(B) = n /\ Len(C) = n
    BY <2>2, IsSequence
  <2>7. SumOf(B) + SumOf(C) = SumOf(A)
    <3>1. \A i \in 1..n : B[i] + C[i] = A[i]
      BY <2>1
    <3> QED  BY <2>6, <3>1, SumsAdd
  <2>8. SumOf(A) \in Nat /\ SumOf(B) \in Nat /\ SumOf(C) \in Nat
    BY <2>6, Summed
  <2>9. Num(g2, lo, z, x) + SumOf(C) = Num(S, lo, hi, x)
    BY <2>3, <2>4, <2>5, <2>7, <2>8
  <2> QED  BY <2>9 DEF C
<1> QED  BY <1>4, <1>5, <1>6, <1>9, <1>10, <1>11, <1>12 DEF Pending

\* A merge without its empty queue is the same merge.
LEMMA RemovedPending ==
  ASSUME NEW S, NEW f, NEW g, NEW lo \in Nat, NEW hi \in Nat, NEW h, NEW r, NEW o,
         Pending(S, f, g, h, r, o, lo, hi), NEW e \in 1..Len(r), r[e] = 0,
         NEW h2, h2 = RemoveAt(h, e), NEW r2, r2 = RemoveAt(r, e)
  PROVE  Pending(S, f, g, h2, r2, o, lo, hi)
<1>1. /\ Within(h, r, o, lo, hi) /\ o + SumOf(r) = hi
      /\ InOrder(g, lo, o)
      /\ \A i \in 1..Len(r) : InOrder(f, h[i], h[i] + r[i])
      /\ \A i \in 1..Len(r), d \in lo..(o - 1) : \A p \in h[i]..(h[i] + r[i] - 1) : g[d] <= f[p]
      /\ \A x \in Nat : Num(g, lo, o, x) + SumOf([i \in 1..Len(r) |-> Num(f, h[i], h[i] + r[i], x)])
                          = Num(S, lo, hi, x)
  BY DEF Pending
<1>2. h \in Seq(Nat) /\ r \in Seq(Nat) /\ o \in Nat /\ Len(h) = Len(r) /\ Len(r) <= 4
  BY <1>1 DEF Within
<1>3. PICK n \in Nat : n = Len(r)
  BY <1>2
<1>4. Within(h2, r2, o, lo, hi)
  BY <1>1, RemovedWithin
<1>5. SumOf(r2) = SumOf(r)
  BY <1>2, SumRemoved
<1>6. r2 \in Seq(Nat) /\ Len(r2) = n - 1
      /\ \A i \in 1..(n - 1) : r2[i] = IF i < e THEN r[i] ELSE r[i + 1]
  BY <1>2, <1>3, Removed
<1>7. h2 \in Seq(Nat) /\ \A i \in 1..(n - 1) : h2[i] = IF i < e THEN h[i] ELSE h[i + 1]
  <2>1. e \in 1..Len(h) /\ h \in Seq(Nat) /\ Len(h) = n
    BY <1>2, <1>3
  <2> QED  BY <2>1, Removed
<1>8. ASSUME NEW i \in 1..(n - 1)
      PROVE  \E j \in 1..n : h2[i] = h[j] /\ r2[i] = r[j] /\ j = IF i < e THEN i ELSE i + 1
  <2>1. i \in 1..n /\ i + 1 \in 1..n
    OBVIOUS
  <2>2. CASE i < e
    BY <1>6, <1>7, <2>1, <2>2
  <2>3. CASE ~(i < e)
    BY <1>6, <1>7, <2>1, <2>3
  <2> QED  BY <2>2, <2>3
<1>9. ASSUME NEW i \in 1..Len(r2)
      PROVE  /\ InOrder(f, h2[i], h2[i] + r2[i])
             /\ \A d \in lo..(o - 1) : \A p \in h2[i]..(h2[i] + r2[i] - 1) : g[d] <= f[p]
  <2>1. i \in 1..(n - 1)
    BY <1>6
  <2>2. PICK j \in 1..n : h2[i] = h[j] /\ r2[i] = r[j]
    BY <1>8, <2>1
  <2>3. /\ InOrder(f, h[j], h[j] + r[j])
        /\ \A d \in lo..(o - 1) : \A p \in h[j]..(h[j] + r[j] - 1) : g[d] <= f[p]
    BY <1>1, <1>3
  <2> QED  BY <2>2, <2>3
<1>10. ASSUME NEW x \in Nat
       PROVE  SumOf([i \in 1..Len(r2) |-> Num(f, h2[i], h2[i] + r2[i], x)])
                = SumOf([i \in 1..Len(r) |-> Num(f, h[i], h[i] + r[i], x)])
  <2> DEFINE A == [i \in 1..Len(r) |-> Num(f, h[i], h[i] + r[i], x)]
             B == [i \in 1..Len(r2) |-> Num(f, h2[i], h2[i] + r2[i], x)]
  <2>1. A \in [1..n -> Nat]
    <3>1. ASSUME NEW i \in 1..n PROVE Num(f, h[i], h[i] + r[i], x) \in Nat
      <4>1. PICK a \in Int, b \in Int : a = h[i] /\ b = h[i] + r[i] /\ a <= b
        <5>1. h[i] \in Nat /\ r[i] \in Nat
          BY <1>2, <1>3
        <5>2. h[i] \in Int /\ h[i] + r[i] \in Int /\ h[i] <= h[i] + r[i]
          BY <5>1
        <5> QED  BY <5>2
      <4>2. Num(f, a, b, x) \in Nat
        BY <4>1, NumBound
      <4> QED  BY <4>1, <4>2
    <3> QED  BY <1>3, <3>1
  <2>2. A[e] = 0
    <3>1. A[e] = Num(f, h[e], h[e] + r[e], x)
      OBVIOUS
    <3>2. h[e] \in Nat /\ r[e] = 0
      BY <1>2
    <3>3. h[e] + r[e] = h[e] /\ h[e] \in Int
      BY <3>2
    <3>4. Num(f, h[e], h[e], x) = 0
      BY <3>3, NumNone
    <3> QED  BY <3>1, <3>3, <3>4
  <2>3. \A i \in 1..(n - 1) : B[i] = Num(f, h2[i], h2[i] + r2[i], x)
    BY <1>6
  <2>4. \A i \in 1..n : A[i] = Num(f, h[i], h[i] + r[i], x)
    BY <1>3
  <2>5. DOMAIN B = 1..(n - 1) /\ B = [i \in 1..(n - 1) |-> B[i]]
    BY <1>6
  <2> HIDE DEF A, B
  <2>6. A \in Seq(Nat) /\ Len(A) = n
    BY <2>1, IsSequence
  <2>7. PICK C : C = RemoveAt(A, e)
    OBVIOUS
  <2>75. e \in 1..Len(A) /\ A \in Seq(Nat) /\ Len(A) = n
    BY <1>3, <2>6
  <2>8. /\ C \in Seq(Nat) /\ Len(C) = n - 1
        /\ \A i \in 1..(n - 1) : C[i] = IF i < e THEN A[i] ELSE A[i + 1]
    BY <2>75, <2>7, Removed
  <2>9. ASSUME NEW i \in 1..(n - 1) PROVE B[i] = C[i]
    <3>1. PICK j \in 1..n : h2[i] = h[j] /\ r2[i] = r[j] /\ j = IF i < e THEN i ELSE i + 1
      BY <1>8
    <3>2. C[i] = A[j]
      BY <2>8, <3>1
    <3>3. A[j] = Num(f, h[j], h[j] + r[j], x)
      BY <2>4
    <3>4. B[i] = Num(f, h2[i], h2[i] + r2[i], x)
      BY <2>3
    <3> QED  BY <3>1, <3>2, <3>3, <3>4
  <2>10. DOMAIN C = 1..(n - 1) /\ C = [i \in 1..(n - 1) |-> C[i]]
    BY <2>8
  <2>11. B = C
    BY <2>5, <2>9, <2>10
  <2>12. SumOf(C) = SumOf(A)
    BY <1>2, <1>3, <2>2, <2>6, <2>7, SumRemoved
  <2> QED  BY <2>11, <2>12 DEF A, B
<1> QED  BY <1>1, <1>4, <1>5, <1>9, <1>10 DEF Pending

\* A merge all of whose queues but one are known to have more.
LEMMA DropMerging ==
  ASSUME NEW S, NEW f, NEW g, NEW lo \in Nat, NEW hi \in Nat, NEW h, NEW r, NEW o,
         Pending(S, f, g, h, r, o, lo, hi), 2 <= Len(r), NEW e \in 1..Len(r),
         \A i \in 1..Len(r) : i # e => 1 <= r[i]
  PROVE  Merging(S, f, g, DropEmpty([head |-> h, rest |-> r, out |-> o]), lo, hi)
<1>1. PICK m : m = [head |-> h, rest |-> r, out |-> o]
  OBVIOUS
<1>2. m.head = h /\ m.rest = r /\ m.out = o
  BY <1>1
<1>3. r \in Seq(Nat) /\ DOMAIN r = 1..Len(r) /\ Len(r) \in Nat
  BY DEF Pending, Within
<1>4. PICK d : d = DropEmpty(m)
  OBVIOUS
<1>5. CASE r[e] # 0
  <2>1. \A i \in 1..Len(r) : 1 <= r[i] /\ r[i] # 0
    BY <1>3, <1>5
  <2>2. d = m
    BY <1>2, <1>3, <1>4, <2>1 DEF DropEmpty
  <2>3. Merging(S, f, g, d, lo, hi)
    BY <1>2, <1>3, <2>1, <2>2 DEF Merging
  <2> QED  BY <1>1, <1>4, <2>3
<1>6. CASE r[e] = 0
  <2>1. \A i \in DOMAIN r : r[i] = 0 => i = e
    BY <1>3
  <2>2. (CHOOSE i \in DOMAIN r : r[i] = 0) = e
    BY <1>3, <1>6, <2>1
  <2>3. d = [m EXCEPT !.head = RemoveAt(@, e), !.rest = RemoveAt(@, e)]
    BY <1>2, <1>3, <1>4, <1>6, <2>2 DEF DropEmpty
  <2>4. d.head = RemoveAt(h, e) /\ d.rest = RemoveAt(r, e) /\ d.out = o
    BY <1>1, <1>2, <2>3
  <2>5. Pending(S, f, g, d.head, d.rest, d.out, lo, hi)
    BY <1>6, <2>4, RemovedPending
  <2>55. PICK n \in Nat : n = Len(r) /\ 2 <= n /\ e \in 1..n
    BY <1>3
  <2>56. r \in Seq(Nat) /\ e \in 1..Len(r)
    BY <1>3
  <2>6. PICK q : /\ q = d.rest /\ Len(q) = n - 1
                 /\ \A i \in 1..(n - 1) : q[i] = IF i < e THEN r[i] ELSE r[i + 1]
    <3>1. PICK q : q = RemoveAt(r, e)
      OBVIOUS
    <3>2. Len(q) = Len(r) - 1 /\ \A i \in 1..(Len(r) - 1) : q[i] = IF i < e THEN r[i] ELSE r[i + 1]
      BY <2>56, <3>1, Removed
    <3> QED  BY <2>4, <2>55, <3>1, <3>2
  <2>7. ASSUME NEW i \in 1..(n - 1) PROVE 1 <= q[i]
    <3>1. i \in 1..n /\ i + 1 \in 1..n
      BY <2>55
    <3>2. \A j \in 1..n : j # e => 1 <= r[j]
      BY <2>55
    <3>3. CASE i < e
      BY <2>6, <3>1, <3>2, <3>3
    <3>4. CASE ~(i < e)
      <4>1. i + 1 # e /\ q[i] = r[i + 1]
        BY <2>6, <3>4
      <4> QED  BY <3>1, <3>2, <4>1
    <3> QED  BY <3>3, <3>4
  <2>8. 1 <= Len(d.rest) /\ \A i \in 1..Len(d.rest) : 1 <= d.rest[i]
    BY <2>55, <2>6, <2>7
  <2>9. Merging(S, f, g, d, lo, hi)
    BY <2>5, <2>8 DEF Merging
  <2> QED  BY <1>1, <1>4, <2>9
<1> QED  BY <1>5, <1>6

\* What is left of the last queue ends the merge.
LEMMA LastQueueEnds ==
  ASSUME NEW S, NEW f, NEW g, NEW g2, NEW lo \in Nat, NEW hi \in Nat, NEW m,
         Merging(S, f, g, m, lo, hi), Len(m.rest) = 1,
         NEW s, s \in Seq(Keys), Lies(f, m.head[1], m.head[1] + m.rest[1], s),
         Placed(g2, g, lo, m.out, s)
  PROVE  Holds(S, g2, lo, hi)
<1>1. PICK h, r, o : h = m.head /\ r = m.rest /\ o = m.out
  OBVIOUS
<1>2. Pending(S, f, g, h, r, o, lo, hi) /\ Len(r) = 1
  BY <1>1 DEF Merging
<1>3. /\ Within(h, r, o, lo, hi) /\ o + SumOf(r) = hi
      /\ InOrder(g, lo, o)
      /\ \A i \in 1..1 : InOrder(f, h[i], h[i] + r[i])
      /\ \A i \in 1..1, d \in lo..(o - 1) : \A p \in h[i]..(h[i] + r[i] - 1) : g[d] <= f[p]
      /\ \A x \in Nat : Num(g, lo, o, x) + SumOf([i \in 1..1 |-> Num(f, h[i], h[i] + r[i], x)])
                          = Num(S, lo, hi, x)
  BY <1>2 DEF Pending
<1>4. h \in Seq(Nat) /\ r \in Seq(Nat) /\ o \in Nat /\ Len(h) = 1 /\ lo <= o
  BY <1>2, <1>3 DEF Within
<1>5. PICK a \in Nat, l \in Nat, z \in Nat : a = h[1] /\ l = r[1] /\ z = a + l
  <2>1. 1 \in 1..Len(h) /\ 1 \in 1..Len(r)
    BY <1>2, <1>4
  <2>2. h[1] \in Nat /\ r[1] \in Nat
    BY <1>4, <2>1
  <2>3. h[1] + r[1] \in Nat
    BY <2>2
  <2> QED  BY <2>2, <2>3
<1>6. 1 \in 1..1
  OBVIOUS
<1>7. InOrder(f, a, z) /\ \A d \in lo..(o - 1) : \A p \in a..(z - 1) : g[d] <= f[p]
  BY <1>3, <1>5, <1>6
<1>8. Lies(f, a, z, s) /\ Placed(g2, g, lo, o, s)
  BY <1>1, <1>5
<1>9. /\ a \in Int /\ z \in Int /\ Len(s) = l /\ Len(s) \in Nat
      /\ \A p \in a..(z - 1) : f[p] = s[(p - a) + 1]
  BY <1>5, <1>8 DEF Lies
<1>10. \A p \in 1..l : (a + p) - 1 \in a..(z - 1) /\ s[p] = f[(a + p) - 1]
  <2> SUFFICES ASSUME NEW p \in 1..l PROVE (a + p) - 1 \in a..(z - 1) /\ s[p] = f[(a + p) - 1]
    OBVIOUS
  <2>1. PICK q \in a..(z - 1) : q = (a + p) - 1
    BY <1>5
  <2>2. (q - a) + 1 = p
    BY <2>1
  <2> QED  BY <1>9, <2>1, <2>2
<1>11. Rising(s, 1, Len(s) + 1)
  <2>1. \A d \in 1..l, e \in 1..l : d <= e => s[d] <= s[e]
    <3> SUFFICES ASSUME NEW d \in 1..l, NEW e \in 1..l, d <= e PROVE s[d] <= s[e]
      OBVIOUS
    <3>1. PICK p \in a..(z - 1) : p = (a + d) - 1 /\ s[d] = f[p]
      BY <1>10
    <3>2. PICK q \in a..(z - 1) : q = (a + e) - 1 /\ s[e] = f[q]
      BY <1>10
    <3>3. p <= q
      BY <3>1, <3>2
    <3>4. f[p] <= f[q]
      BY <1>7, <3>3 DEF InOrder, Rising
    <3> QED  BY <3>1, <3>2, <3>4
  <2>2. \A e \in 1..l : s[e] \in Int
    <3>1. \A e \in 1..l : s[e] \in Keys
      BY <1>9
    <3> QED  BY <3>1 DEF Keys
  <2>3. (Len(s) + 1) - 1 = l
    BY <1>9
  <2> QED  BY <2>1, <2>2, <2>3 DEF Rising
<1>12. \A d \in lo..(o - 1), p \in 1..Len(s) : g[d] <= s[p]
  BY <1>7, <1>9, <1>10
<1>13. SumOf(r) = l
  <2>1. SumOf(r) = Item(r, 1) + Item(r, 2) + Item(r, 3) + Item(r, 4)
    BY <1>4, Summed
  <2>2. DOMAIN r = 1..1
    BY <1>2, <1>4
  <2>3. Item(r, 1) = l /\ Item(r, 2) = 0 /\ Item(r, 3) = 0 /\ Item(r, 4) = 0
    BY <1>5, <2>2 DEF Item
  <2> QED  BY <2>1, <2>3
<1>14. hi = o + Len(s)
  BY <1>3, <1>9, <1>13
<1>15. InOrder(g2, lo, hi) /\ \A x : Num(g2, lo, hi, x) = Num(g, lo, o, x) + Upto(s, x)
  BY <1>3, <1>4, <1>8, <1>11, <1>12, <1>14, Extended
<1>16. ASSUME NEW x \in Nat PROVE Num(g2, lo, hi, x) = Num(S, lo, hi, x)
  <2> DEFINE A == [i \in 1..1 |-> Num(f, h[i], h[i] + r[i], x)]
  <2>1. A[1] = Num(f, a, z, x) /\ DOMAIN A = 1..1
    BY <1>5
  <2>2. Num(f, a, z, x) = Upto(s, x)
    BY <1>8, NumPlaced
  <2>3. Num(f, a, z, x) \in Nat
    <3>1. a \in Int /\ z \in Int /\ a <= z
      BY <1>5
    <3> QED  BY <3>1, NumBound
  <2>4. A \in [1..1 -> Nat]
    BY <2>1, <2>3
  <2>5. Num(g, lo, o, x) + SumOf(A) = Num(S, lo, hi, x)
    BY <1>3
  <2> HIDE DEF A
  <2>6. SumOf(A) = Item(A, 1) + Item(A, 2) + Item(A, 3) + Item(A, 4)
    BY <2>4, IsSequence, Summed
  <2>7. Item(A, 1) = A[1] /\ Item(A, 2) = 0 /\ Item(A, 3) = 0 /\ Item(A, 4) = 0
    BY <2>1 DEF Item
  <2>8. SumOf(A) = Upto(s, x)
    BY <2>1, <2>2, <2>3, <2>6, <2>7
  <2> QED  BY <1>15, <2>5, <2>8
<1> QED  BY <1>15, <1>16 DEF Holds

-----------------------------------------------------------------------------
(* What is in the workspace *)

\* The elements of the tensor and the padding, in the order of the tensor.
Wanted == [e \in Nat |-> IF e < total THEN input[e + 1] ELSE Inf]

\* The keys in buffer i.
Data(i) == KeysOf(buf[i])

\* From element lo to before hi, buffer i holds what the tensor has there, sorted.
Holding(i, lo, hi) == Holds(Wanted, Data(i), lo, hi)

\* The same of the blocks from b to before c, as far as there are blocks.
HoldsBlocks(i, b, c) == Holding(i, Offset(b), Offset(Lesser(c, blockNum)))

\* The merge of core b puts together what the tensor has from lo to before hi.
MergingAt(b, lo, hi) == Merging(Wanted, Data(cur[b]), Data(Other(cur[b])), merge[b], lo, hi)

\* The element with which tile p of block b begins, or the block ends.
TileStart(b, p) == Offset(b) + Lesser(p, tileNum(b)) * TileLength

\* The group a core merges or comes to next.
GroupStart(b) == IF merge[b] = NoMerge THEN group[b] ELSE group[b] - 4 * bind[b]

\* Of the runs of block b, w tiles each, buffer j has those that begin between tiles
\* lo and hi.
HeldRuns(j, b, w, lo, hi) ==
  \A p \in Nat : Rounds(p, w) /\ lo <= p /\ p < hi /\ p < tileNum(b) =>
    Holding(j, TileStart(b, p), TileStart(b, p + w))

\* The runs of a block that are merged are in the other buffer, those that are not
\* in the current one.
BlockData(b) ==
  /\ GroupStart(b) \in Nat /\ Rounds(GroupStart(b), 4 * bind[b])
  /\ HeldRuns(cur[b], b, bind[b], group[b], tileNum(b))
  /\ HeldRuns(Other(cur[b]), b, 4 * bind[b], 0, GroupStart(b))
  /\ merge[b] # NoMerge =>
       /\ bind[b] < tileNum(b) /\ GroupStart(b) < tileNum(b)
       /\ MergingAt(b, TileStart(b, GroupStart(b)), TileStart(b, GroupStart(b) + 4 * bind[b]))
  /\ bind[b] >= tileNum(b) => group[b] = 0

\* A core that has not come to its block yet, sorts it, or has sorted it.
SortingAt(b) ==
  /\ pc[b] # "block" => cur[b] = 1
  /\ pc[b] = "tiles" => group[b] = 0
  /\ pc[b] = "block" => BlockData(b)
  /\ pc[b] = "sync1" => Holding(1, Offset(b), Offset(b + 1))

\* While the cores sort their blocks.
SortingData == \A b \in Cores : pc[b] \in Sorting => SortingAt(b)

\* The buffer that holds the runs of each level.
CurOf(e) == 1 + (e % 2)

\* Of the runs from block b on, w blocks each, buffer j has the first x.
RunsWaited(j, b, w, x) ==
  \A i \in 1..x : b + w * (i - 1) < blockNum =>
    HoldsBlocks(j, b + w * (i - 1), b + w * (i - 1) + w)

\* No core from b on, k of them, has a flag up.
NoFlags(b, k) == \A f \in flags : ~(b <= f[1] /\ f[1] < b + k)

\* A core that is active has, in its current buffer, the run it leads and those it has
\* waited for, or merges them.
LevelData(b) ==
  /\ cur[b] = CurOf(eventID[b])
  /\ Active(b) /\ merge[b] = NoMerge => RunsWaited(cur[b], b, bind[b], waits[b])
  /\ merge[b] # NoMerge => MergingAt(b, Offset(b), Offset(GroupEnd(b)))
  /\ Active(b) => NoFlags(b, waits[b] * bind[b])

\* So has the core that reads what a flag announces.
FlagData(c, e) ==
  /\ HoldsBlocks(CurOf(e), c, c + Width[e + 1])
  /\ \A g \in flags : c <= g[1] /\ g[1] < c + Width[e + 1] => g = <<c, e>>

\* What the cores hold while they merge the blocks.
GatheringData ==
  \A b \in Cores : pc[b] \in Gathering =>
    /\ LevelData(b)
    /\ \A f \in flags : FlagData(f[1], f[2])

\* The workspace has its size and holds keys with their indexes.
WorkspaceOK ==
  /\ buf \in [1..2 -> [1..(2 * padded) -> Keys \cup {Index}]]
  /\ \A i \in 1..2 : Indexed(padded, buf[i])

\* The inductive invariant: where the workspace holds which sorted runs of the tensor.
DataOK ==
  /\ (\A b \in Cores : pc[b] \in Sorting \cup Gathering) => WorkspaceOK
  /\ SortingData /\ GatheringData
  /\ SortedTogether

\* Keys that are not written stay what they are.
LEMMA HoldsKept ==
  ASSUME NEW S, NEW f, NEW g, NEW lo, NEW hi, Holds(S, f, lo, hi),
         \A e \in lo..(hi - 1) : g[e] = f[e]
  PROVE  Holds(S, g, lo, hi)
<1>1. InOrder(g, lo, hi)
  BY DEF Holds, InOrder, Rising
<1>2. \A x \in Nat : Num(g, lo, hi, x) = Num(f, lo, hi, x)
  BY NumSame
<1> QED  BY <1>1, <1>2 DEF Holds

\* A merge under way does not see what is written elsewhere.
LEMMA MergingKept ==
  ASSUME NEW S, NEW f, NEW g, NEW f2, NEW g2, NEW m, NEW lo \in Nat, NEW hi \in Nat,
         Merging(S, f, g, m, lo, hi), \A e \in lo..(hi - 1) : f2[e] = f[e] /\ g2[e] = g[e]
  PROVE  Merging(S, f2, g2, m, lo, hi)
<1>1. PICK h, r, o : h = m.head /\ r = m.rest /\ o = m.out
  OBVIOUS
<1>2. Pending(S, f, g, h, r, o, lo, hi)
  BY <1>1 DEF Merging
<1>3. /\ Within(h, r, o, lo, hi) /\ o + SumOf(r) = hi
      /\ InOrder(g, lo, o)
      /\ \A i \in 1..Len(r) : InOrder(f, h[i], h[i] + r[i])
      /\ \A i \in 1..Len(r), d \in lo..(o - 1) : \A e \in h[i]..(h[i] + r[i] - 1) : g[d] <= f[e]
      /\ \A x \in Nat : Num(g, lo, o, x) + SumOf([i \in 1..Len(r) |-> Num(f, h[i], h[i] + r[i], x)])
                          = Num(S, lo, hi, x)
  BY <1>2 DEF Pending
<1>4. /\ h \in Seq(Nat) /\ r \in Seq(Nat) /\ o \in Nat /\ Len(r) = Len(h) /\ SumOf(r) \in Nat
      /\ lo <= o /\ Len(r) <= 4 /\ \A i \in 1..Len(r) : lo <= h[i] /\ h[i] + r[i] <= hi
  <2>1. Within(h, r, o, lo, hi)
    BY <1>3
  <2>2. r \in Seq(Nat) /\ Len(r) <= 4
    BY <2>1 DEF Within
  <2>3. SumOf(r) \in Nat
    BY <2>2, Summed
  <2> QED  BY <2>1, <2>3 DEF Within
<1>5. \A d \in lo..(o - 1) : g2[d] = g[d]
  <2>1. \A d \in lo..(o - 1) : d \in lo..(hi - 1)
    BY <1>3, <1>4
  <2> QED  BY <2>1
<1>6. \A i \in 1..Len(r) : \A e \in h[i]..(h[i] + r[i] - 1) : f2[e] = f[e]
  <2> SUFFICES ASSUME NEW i \in 1..Len(r), NEW e \in h[i]..(h[i] + r[i] - 1) PROVE f2[e] = f[e]
    OBVIOUS
  <2>1. PICK a \in Nat, l \in Nat : a = h[i] /\ l = r[i] /\ lo <= a /\ a + l <= hi
    BY <1>4
  <2>2. e \in a..((a + l) - 1)
    BY <2>1
  <2>3. e \in lo..(hi - 1)
    BY <2>1, <2>2
  <2> QED  BY <2>3
<1>7. InOrder(g2, lo, o)
  BY <1>3, <1>5 DEF InOrder, Rising
<1>8. ASSUME NEW i \in 1..Len(r) PROVE InOrder(f2, h[i], h[i] + r[i])
  <2>1. PICK a \in Nat, z \in Nat : a = h[i] /\ z = h[i] + r[i] /\ lo <= a /\ z <= hi
    BY <1>4
  <2>2. \A e \in a..(z - 1) : f2[e] = f[e]
    BY <2>1
  <2>3. InOrder(f, a, z)
    BY <1>3, <2>1
  <2>4. InOrder(f2, a, z)
    BY <2>2, <2>3 DEF InOrder, Rising
  <2> QED  BY <2>1, <2>4
<1>9. \A i \in 1..Len(r), d \in lo..(o - 1) : \A e \in h[i]..(h[i] + r[i] - 1) : g2[d] <= f2[e]
  BY <1>3, <1>5, <1>6
<1>10. ASSUME NEW x \in Nat
       PROVE  Num(g2, lo, o, x) + SumOf([i \in 1..Len(r) |-> Num(f2, h[i], h[i] + r[i], x)])
                = Num(S, lo, hi, x)
  <2>1. Num(g2, lo, o, x) = Num(g, lo, o, x)
    BY <1>5, NumSame
  <2>2. ASSUME NEW i \in 1..Len(r)
        PROVE  Num(f2, h[i], h[i] + r[i], x) = Num(f, h[i], h[i] + r[i], x)
    <3>1. PICK a \in Nat, z \in Nat : a = h[i] /\ z = h[i] + r[i] /\ lo <= a /\ z <= hi
      BY <1>4
    <3>2. \A e \in a..(z - 1) : f2[e] = f[e]
      BY <3>1
    <3>3. Num(f2, a, z, x) = Num(f, a, z, x)
      BY <3>2, NumSame
    <3> QED  BY <3>1, <3>3
  <2>3. [i \in 1..Len(r) |-> Num(f2, h[i], h[i] + r[i], x)]
          = [i \in 1..Len(r) |-> Num(f, h[i], h[i] + r[i], x)]
    BY <2>2
  <2> QED  BY <1>3, <2>1, <2>3
<1>11. Pending(S, f2, g2, h, r, o, lo, hi)
  BY <1>3, <1>7, <1>8, <1>9, <1>10 DEF Pending
<1> QED  BY <1>1, <1>11 DEF Merging

\* Runs that follow each other from p[1] to before p[n + 1].
Adjacent(h, r, p, n) ==
  /\ h \in [1..n -> Nat] /\ r \in [1..n -> Nat] /\ p \in [1..(n + 1) -> Nat]
  /\ \A i \in 1..n : h[i] = p[i] /\ h[i] + r[i] = p[i + 1] /\ 1 <= r[i]

\* A merge that begins.
LEMMA MergeBegins ==
  ASSUME NEW S, NEW f, NEW g, NEW n \in 1..4, NEW h, NEW r, NEW p, Adjacent(h, r, p, n),
         \A i \in 1..n : Holds(S, f, p[i], p[i + 1]),
         NEW lo, lo = p[1], NEW hi, hi = p[n + 1]
  PROVE  Merging(S, f, g, [head |-> h, rest |-> r, out |-> lo], lo, hi)
<1>1. /\ h \in [1..n -> Nat] /\ r \in [1..n -> Nat] /\ p \in [1..(n + 1) -> Nat]
      /\ \A i \in 1..n : h[i] = p[i] /\ h[i] + r[i] = p[i + 1] /\ 1 <= r[i]
  BY DEF Adjacent
<1>2. h \in Seq(Nat) /\ r \in Seq(Nat) /\ Len(h) = n /\ Len(r) = n /\ DOMAIN r = 1..n /\ n \in Nat
  <2>1. n \in Nat
    OBVIOUS
  <2> QED  BY <1>1, <2>1, IsSequence
<1>3. lo \in Nat /\ hi \in Nat /\ 1 \in 1..n /\ 1 <= n /\ n <= 4
  BY <1>1
<1>4. \A i \in 1..n : /\ p[i] \in Nat /\ p[i + 1] \in Nat /\ r[i] \in Nat /\ p[i + 1] = p[i] + r[i]
                      /\ p[i] <= p[i + 1] /\ i + 1 \in 1..(n + 1)
  <2> SUFFICES ASSUME NEW i \in 1..n
               PROVE  /\ p[i] \in Nat /\ p[i + 1] \in Nat /\ r[i] \in Nat /\ p[i + 1] = p[i] + r[i]
                      /\ p[i] <= p[i + 1] /\ i + 1 \in 1..(n + 1)
    OBVIOUS
  <2>1. i \in 1..(n + 1) /\ i + 1 \in 1..(n + 1)
    BY <1>2
  <2>2. p[i] \in Nat /\ p[i + 1] \in Nat /\ r[i] \in Nat
    BY <1>1, <2>1
  <2>3. p[i + 1] = p[i] + r[i]
    BY <1>1
  <2> QED  BY <2>1, <2>2, <2>3
<1>5. \A i \in 1..n : lo <= p[i] /\ p[i + 1] <= hi
  <2>1. n = 1 \/ n = 2 \/ n = 3 \/ n = 4
    OBVIOUS
  <2>2. CASE n = 1
    <3>1. \A i \in 1..n : i = 1
      BY <2>2
    <3> QED  BY <1>3, <1>4, <2>2, <3>1
  <2>3. CASE n = 2
    <3>1. 1 \in 1..n /\ 2 \in 1..n /\ \A i \in 1..n : i = 1 \/ i = 2
      BY <2>3
    <3>2. p[1] <= p[2] /\ p[2] <= p[3] /\ p[1] \in Nat /\ p[2] \in Nat /\ p[3] \in Nat
      BY <1>4, <3>1
    <3> QED  BY <1>3, <2>3, <3>1, <3>2
  <2>4. CASE n = 3
    <3>1. 1 \in 1..n /\ 2 \in 1..n /\ 3 \in 1..n /\ \A i \in 1..n : i = 1 \/ i = 2 \/ i = 3
      BY <2>4
    <3>2. /\ p[1] <= p[2] /\ p[2] <= p[3] /\ p[3] <= p[4]
          /\ p[1] \in Nat /\ p[2] \in Nat /\ p[3] \in Nat /\ p[4] \in Nat
      BY <1>4, <3>1
    <3> QED  BY <1>3, <2>4, <3>1, <3>2
  <2>5. CASE n = 4
    <3>1. 1 \in 1..n /\ 2 \in 1..n /\ 3 \in 1..n /\ 4 \in 1..n
          /\ \A i \in 1..n : i = 1 \/ i = 2 \/ i = 3 \/ i = 4
      BY <2>5
    <3>2. /\ p[1] <= p[2] /\ p[2] <= p[3] /\ p[3] <= p[4] /\ p[4] <= p[5]
          /\ p[1] \in Nat /\ p[2] \in Nat /\ p[3] \in Nat /\ p[4] \in Nat /\ p[5] \in Nat
      BY <1>4, <3>1
    <3> QED  BY <1>3, <2>5, <3>1, <3>2
  <2> QED  BY <2>1, <2>2, <2>3, <2>4, <2>5
<1>6. lo + SumOf(r) = hi
  <2> DEFINE v == [i \in 0..n |-> p[i + 1] - lo]
  <2>1. \A i \in 0..n : v[i] = p[i + 1] - lo
    OBVIOUS
  <2> HIDE DEF v
  <2>2. v[0] = 0
    BY <1>3, <2>1
  <2>3. \A i \in 1..n : v[i] = v[i - 1] + r[i]
    <3> SUFFICES ASSUME NEW i \in 1..n PROVE v[i] = v[i - 1] + r[i]
      OBVIOUS
    <3>1. i \in 0..n /\ i - 1 \in 0..n /\ (i - 1) + 1 = i
      OBVIOUS
    <3>2. v[i] = p[i + 1] - lo /\ v[i - 1] = p[i] - lo
      <4>1. v[i - 1] = p[(i - 1) + 1] - lo
        BY <2>1, <3>1
      <4> QED  BY <2>1, <3>1, <4>1
    <3> QED  BY <1>3, <1>4, <3>2
  <2>4. v[n] = SumOf(r)
    BY <1>1, <1>2, <1>3, <2>2, <2>3, SumSteps
  <2>5. v[n] = hi - lo
    BY <1>2, <2>1
  <2> QED  BY <1>3, <2>4, <2>5
<1>7. Within(h, r, lo, lo, hi)
  <2>1. \A i \in 1..n : lo <= h[i] /\ h[i] + r[i] <= hi
    BY <1>1, <1>5
  <2>2. lo <= lo /\ lo + SumOf(r) <= hi
    BY <1>3, <1>6
  <2> QED  BY <1>2, <1>3, <2>1, <2>2 DEF Within
<1>8. InOrder(g, lo, lo)
  <2>1. lo..(lo - 1) = {}
    BY <1>3
  <2> QED  BY <2>1 DEF InOrder, Rising
<1>9. \A i \in 1..n : InOrder(f, h[i], h[i] + r[i])
  BY <1>1 DEF Holds
<1>10. \A d \in lo..(lo - 1) : FALSE
  BY <1>3
<1>11. ASSUME NEW x \in Nat
       PROVE  Num(g, lo, lo, x) + SumOf([i \in 1..n |-> Num(f, h[i], h[i] + r[i], x)])
                = Num(S, lo, hi, x)
  <2> DEFINE v == [i \in 0..n |-> Num(S, lo, p[i + 1], x)]
             c == [i \in 1..n |-> Num(f, h[i], h[i] + r[i], x)]
  <2>1. \A i \in 0..n : v[i] = Num(S, lo, p[i + 1], x)
    OBVIOUS
  <2>2. ASSUME NEW i \in 1..n PROVE c[i] = Num(S, p[i], p[i + 1], x)
    <3>1. c[i] = Num(f, p[i], p[i + 1], x)
      BY <1>1
    <3>2. Holds(S, f, p[i], p[i + 1])
      OBVIOUS
    <3> QED  BY <3>1, <3>2 DEF Holds
  <2>3. DOMAIN c = 1..n /\ c = [i \in 1..n |-> c[i]]
    OBVIOUS
  <2> HIDE DEF v, c
  <2>4. v[0] = 0
    <3>1. v[0] = Num(S, lo, lo, x)
      BY <1>3, <2>1
    <3> QED  BY <1>3, <3>1, NumNone
  <2>5. ASSUME NEW i \in 1..n PROVE c[i] \in Nat /\ v[i] = v[i - 1] + c[i]
    <3>1. i \in 0..n /\ i - 1 \in 0..n /\ (i - 1) + 1 = i
      OBVIOUS
    <3>2. v[i] = Num(S, lo, p[i + 1], x) /\ v[i - 1] = Num(S, lo, p[i], x)
      <4>1. v[i - 1] = Num(S, lo, p[(i - 1) + 1], x)
        BY <2>1, <3>1
      <4> QED  BY <2>1, <3>1, <4>1
    <3>3. PICK a \in Int, b \in Int : a = p[i] /\ b = p[i + 1] /\ lo <= a /\ a <= b
      <4>1. p[i] \in Int /\ p[i + 1] \in Int /\ lo <= p[i] /\ p[i] <= p[i + 1]
        BY <1>4, <1>5
      <4> QED  BY <4>1
    <3>4. lo \in Int
      BY <1>3
    <3>5. Num(S, lo, b, x) = Num(S, lo, a, x) + Num(S, a, b, x)
      BY <3>3, <3>4, NumJoin
    <3>6. Num(S, a, b, x) \in Nat
      BY <3>3, NumBound
    <3> QED  BY <2>2, <3>2, <3>3, <3>5, <3>6
  <2>6. c \in [1..n -> Nat]
    BY <2>3, <2>5
  <2>7. v[n] = SumOf(c)
    BY <1>2, <1>3, <2>4, <2>5, <2>6, SumSteps
  <2>8. v[n] = Num(S, lo, hi, x)
    BY <1>2, <2>1
  <2>9. Num(g, lo, lo, x) = 0
    <3>1. lo \in Int
      BY <1>3
    <3> QED  BY <3>1, NumNone
  <2>10. SumOf(c) \in Nat
    BY <1>2, <1>3, <2>6, IsSequence, Summed
  <2> QED  BY <2>7, <2>8, <2>9, <2>10 DEF c
<1>12. Pending(S, f, g, h, r, lo, lo, hi)
  BY <1>2, <1>6, <1>7, <1>8, <1>9, <1>10, <1>11 DEF Pending
<1>13. \A i \in 1..Len(r) : 1 <= r[i]
  BY <1>1, <1>2
<1> QED  BY <1>2, <1>3, <1>12, <1>13 DEF Merging

\* A queue of l keys from element a of a memory, c and k keys of it.
PartOf(mf, a, l, c, k) ==
  /\ a \in Nat /\ l \in Nat /\ c \in Nat /\ k \in Nat /\ c <= l /\ k <= c
  /\ InOrder(KeysOf(mf), a, a + l)

\* The first keys of a queue.
LEMMA QueueChunk ==
  ASSUME NEW mf, NEW a, NEW l, NEW c, NEW k, PartOf(mf, a, l, c, k)
  PROVE  /\ Len(KeysAt(mf, a, c)) = c
         /\ \A j \in 1..c : KeysAt(mf, a, c)[j] = KeysOf(mf)[(a + j) - 1]
         /\ SubSeq(KeysAt(mf, a, c), 1, k) \in Seq(Keys)
         /\ Len(SubSeq(KeysAt(mf, a, c), 1, k)) = k
         /\ Lies(KeysOf(mf), a, a + k, SubSeq(KeysAt(mf, a, c), 1, k))
<1>0. a \in Nat /\ l \in Nat /\ c \in Nat /\ k \in Nat /\ c <= l /\ k <= c /\ InOrder(KeysOf(mf), a, a + l)
  BY DEF PartOf
<1>1. \A e \in a..(a + c - 1) : KeysOf(mf)[e] \in Keys
  <2>1. \A e \in a..(a + c - 1) : e \in a..((a + l) - 1)
    BY <1>0
  <2> QED  BY <1>0, <2>1 DEF InOrder
<1>2. /\ KeysAt(mf, a, c) \in Seq(Keys) /\ Len(KeysAt(mf, a, c)) = c
      /\ \A j \in 1..c : KeysAt(mf, a, c)[j] = KeysOf(mf)[(a + j) - 1]
  <2>1. a \in Nat /\ c \in Nat
    BY <1>0
  <2>2. KeyRun(Keys, mf, a, c, KeysAt(mf, a, c))
    BY <1>1, <2>1, KeysAtFacts
  <2> QED  BY <2>2 DEF KeyRun
<1>3. PICK chunk, t, f : chunk = KeysAt(mf, a, c) /\ t = SubSeq(chunk, 1, k) /\ f = KeysOf(mf)
  OBVIOUS
<1>4. chunk \in Seq(Keys) /\ Len(chunk) = c /\ \A j \in 1..c : chunk[j] = f[(a + j) - 1]
  BY <1>2, <1>3
<1>5. t \in Seq(Keys) /\ Len(t) = k /\ \A j \in 1..k : t[j] = chunk[j]
  BY <1>0, <1>3, <1>4
<1>6. \A e \in a..((a + k) - 1) : f[e] = t[(e - a) + 1]
  <2> SUFFICES ASSUME NEW e \in a..((a + k) - 1) PROVE f[e] = t[(e - a) + 1]
    OBVIOUS
  <2>1. PICK j \in 1..k : j = (e - a) + 1 /\ e = (a + j) - 1
    BY <1>0
  <2>2. j \in 1..c
    BY <1>0
  <2> QED  BY <1>4, <1>5, <2>1, <2>2
<1>7. Lies(f, a, a + k, t)
  BY <1>0, <1>5, <1>6 DEF Lies
<1> QED  BY <1>3, <1>4, <1>5, <1>7

\* The y-th element from v on is v + y - 1.
LEMMA PlaceBack ==
  ASSUME NEW v \in Nat, NEW y \in Nat, NEW z \in Int, z = (v + y) - 1
  PROVE  (z - v) + 1 = y
OBVIOUS

\* In ts are the first k[i] keys of each queue.
TakenParts(ts, f, h, k, n) ==
  \A i \in 1..n : ts[i] \in Seq(Keys) /\ Len(ts[i]) = k[i] /\ Lies(f, h[i], h[i] + k[i], ts[i])

\* The keys that one round takes, put together and sorted.
LEMMA RoundGathers ==
  ASSUME UniqueAssumption, NEW n \in 2..4, NEW f, NEW h \in [1..n -> Nat], NEW k \in [1..n -> Nat],
         NEW ts, ts = [i \in 1..n |-> ts[i]], TakenParts(ts, f, h, k, n)
  PROVE  Gathers(Ascending(FlattenSeq(ts)), f, h, k, n)
<1>0. /\ n \in Nat /\ n <= 4
      /\ \A i \in 1..n : ts[i] \in Seq(Keys) /\ Len(ts[i]) = k[i] /\ Lies(f, h[i], h[i] + k[i], ts[i])
  BY DEF TakenParts
<1>1. ts \in Seq(Seq(Keys)) /\ Len(ts) = n
  <2>1. ts \in [1..n -> Seq(Keys)]
    BY <1>0
  <2> QED  BY <1>0, <2>1, IsSequence
<1>2. PICK u : u = FlattenSeq(ts)
  OBVIOUS
<1>3. /\ u \in Seq(Keys) /\ Len(u) = SumOf([i \in 1..n |-> Len(ts[i])])
      /\ \A x : Upto(u, x) = SumOf([i \in 1..n |-> Upto(ts[i], x)])
      /\ \A p \in 1..Len(u) : \E i \in 1..n : \E j \in 1..Len(ts[i]) : u[p] = ts[i][j]
  <2>1. n \in Nat /\ n = Len(ts) /\ n <= 4 /\ ts \in Seq(Seq(Keys))
    BY <1>0, <1>1
  <2>2. /\ FlattenSeq(ts) \in Seq(Keys)
        /\ Len(FlattenSeq(ts)) = SumOf([i \in 1..n |-> Len(ts[i])])
        /\ \A x : Upto(FlattenSeq(ts), x) = SumOf([i \in 1..n |-> Upto(ts[i], x)])
        /\ \A p \in 1..Len(FlattenSeq(ts)) : \E i \in 1..n : \E j \in 1..Len(ts[i]) :
             FlattenSeq(ts)[p] = ts[i][j]
    BY <2>1, FlattenSums
  <2> QED  BY <1>2, <2>2, Zenon
<1>4. Len(u) = SumOf(k)
  <2>1. [i \in 1..n |-> Len(ts[i])] = k
    <3>1. \A i \in 1..n : Len(ts[i]) = k[i]
      BY <1>0
    <3>2. k = [i \in 1..n |-> k[i]]
      OBVIOUS
    <3> QED  BY <3>1, <3>2
  <2> QED  BY <1>3, <2>1
<1>5. PICK l \in Nat : l = Len(u)
  <2>1. u \in Seq(Keys)
    BY <1>3
  <2>2. Len(u) \in Nat
    BY <2>1
  <2> QED  BY <2>2
<1>6. PICK s : s = Ascending(u)
  OBVIOUS
<1>7. /\ s \in Seq(Keys) /\ Len(s) = l /\ Rising(s, 1, l + 1)
      /\ \A x \in Nat : Upto(s, x) = Upto(u, x)
      /\ \A p \in 1..l : \E i \in 1..l : s[p] = u[i]
  <2>1. u \in Seq(Keys) /\ l \in Nat /\ l = Len(u)
    BY <1>3, <1>5
  <2>2. /\ Ascending(u) \in Seq(Keys) /\ Len(Ascending(u)) = l
        /\ Rising(Ascending(u), 1, l + 1)
        /\ \A x \in Nat : Upto(Ascending(u), x) = Upto(u, x)
        /\ \A p \in 1..l : \E i \in 1..l : Ascending(u)[p] = u[i]
    BY <2>1, AscendingCounts
  <2> QED  BY <1>6, <2>2
<1>8. ASSUME NEW x \in Nat
      PROVE  Upto(s, x) = SumOf([i \in 1..n |-> Num(f, h[i], h[i] + k[i], x)])
  <2>1. \A i \in 1..n : Upto(ts[i], x) = Num(f, h[i], h[i] + k[i], x)
    <3> SUFFICES ASSUME NEW i \in 1..n PROVE Upto(ts[i], x) = Num(f, h[i], h[i] + k[i], x)
      OBVIOUS
    <3>1. Lies(f, h[i], h[i] + k[i], ts[i])
      BY <1>0
    <3> QED  BY <3>1, NumPlaced
  <2>2. [i \in 1..n |-> Upto(ts[i], x)] = [i \in 1..n |-> Num(f, h[i], h[i] + k[i], x)]
    BY <2>1
  <2>3. Upto(s, x) = Upto(u, x)
    BY <1>7
  <2>4. Upto(u, x) = SumOf([i \in 1..n |-> Upto(ts[i], x)])
    BY <1>3
  <2> QED  BY <2>2, <2>3, <2>4
<1>9. ASSUME NEW p \in 1..Len(s)
      PROVE  \E i \in 1..n : \E d \in h[i]..(h[i] + k[i] - 1) : s[p] = f[d]
  <2>1. PICK q \in 1..Len(u) : s[p] = u[q]
    BY <1>5, <1>7
  <2>2. PICK i \in 1..n : \E j \in 1..Len(ts[i]) : u[q] = ts[i][j]
    BY <1>3
  <2>4. PICK a \in Nat, c \in Nat : a = h[i] /\ c = k[i] /\ Len(ts[i]) = c
    BY <1>0
  <2>3. PICK j \in 1..c : u[q] = ts[i][j]
    BY <2>2, <2>4
  <2>5. PICK d \in a..((a + c) - 1) : d = (a + j) - 1
    BY <2>4
  <2>6. Lies(f, a, a + c, ts[i])
    BY <1>0, <2>4
  <2>7. f[d] = ts[i][(d - a) + 1]
    BY <2>6 DEF Lies
  <2>8. (d - a) + 1 = j
    <3>1. a \in Nat /\ j \in Nat /\ d \in Int /\ d = (a + j) - 1
      BY <2>5
    <3> QED  BY <3>1, PlaceBack
  <2>9. s[p] = f[d]
    BY <2>1, <2>3, <2>7, <2>8
  <2>10. d \in h[i]..(h[i] + k[i] - 1)
    BY <2>4
  <2> QED  BY <2>9, <2>10
<1>10. Len(s) = SumOf(k) /\ Rising(s, 1, Len(s) + 1) /\ s \in Seq(Keys)
  BY <1>4, <1>5, <1>7
<1>11. Gathers(s, f, h, k, n)
  BY <1>8, <1>9, <1>10 DEF Gathers
<1> QED  BY <1>2, <1>6, <1>11

\* The memory mg2 is mg but for what lies from lo to before hi.
Changed(T, mg, mg2, lo, hi) ==
  /\ mg2 \in [1..(2 * T) -> Keys \cup {Index}]
  /\ \A e \in 0..(T - 1) : e < lo \/ hi <= e => KeysOf(mg2)[e] = KeysOf(mg)[e]
  /\ Indexed(T, mg) => Indexed(T, mg2)

\* What is written in a round or at the end of a merge, and what is not.
LEMMA MergeWritten ==
  ASSUME NEW T, NEW mg, NEW s, NEW o, NEW n, Storable(T, mg, s, o, n),
         NEW lo \in Nat, NEW hi \in Nat, hi <= T, lo <= o, o + n <= hi
  PROVE  /\ Changed(T, mg, WriteAt(mg, 2 * o, Pairs(s)), lo, hi)
         /\ Placed(KeysOf(WriteAt(mg, 2 * o, Pairs(s))), KeysOf(mg), lo, o, s)
<1>1. T \in Nat /\ s \in Seq(Keys) /\ n \in Nat /\ n = Len(s) /\ o \in Nat /\ o + n <= T
  BY DEF Storable
<1>2. /\ WriteAt(mg, 2 * o, Pairs(s)) \in [1..(2 * T) -> Keys \cup {Index}]
      /\ Indexed(T, mg) => Indexed(T, WriteAt(mg, 2 * o, Pairs(s)))
  BY PairsWritten, Zenon
<1>3. \A e \in 0..(T - 1) : KeysOf(WriteAt(mg, 2 * o, Pairs(s)))[e] =
              IF o <= e /\ e < o + n THEN s[(e - o) + 1] ELSE KeysOf(mg)[e]
  BY PairsWritten
<1>4. PICK g, g2 : g = KeysOf(mg) /\ g2 = KeysOf(WriteAt(mg, 2 * o, Pairs(s)))
  OBVIOUS
<1>5. \A e \in 0..(T - 1) : g2[e] = IF o <= e /\ e < o + n THEN s[(e - o) + 1] ELSE g[e]
  BY <1>3, <1>4
<1>6. \A e \in lo..(o - 1) : g2[e] = g[e]
  <2> SUFFICES ASSUME NEW e \in lo..(o - 1) PROVE g2[e] = g[e]
    OBVIOUS
  <2>1. e \in 0..(T - 1) /\ ~(o <= e /\ e < o + n)
    BY <1>1
  <2> QED  BY <1>5, <2>1
<1>7. \A e \in o..(o + n - 1) : g2[e] = s[(e - o) + 1]
  <2> SUFFICES ASSUME NEW e \in o..(o + n - 1) PROVE g2[e] = s[(e - o) + 1]
    OBVIOUS
  <2>1. e \in 0..(T - 1) /\ o <= e /\ e < o + n
    BY <1>1
  <2> QED  BY <1>5, <2>1
<1>8. Placed(g2, g, lo, o, s)
  BY <1>1, <1>6, <1>7 DEF Placed
<1>9. \A e \in 0..(T - 1) : e < lo \/ hi <= e => g2[e] = g[e]
  <2> SUFFICES ASSUME NEW e \in 0..(T - 1), e < lo \/ hi <= e PROVE g2[e] = g[e]
    OBVIOUS
  <2>1. ~(o <= e /\ e < o + n)
    BY <1>1
  <2> QED  BY <1>5, <2>1
<1> QED  BY <1>2, <1>4, <1>8, <1>9 DEF Changed

\* The chunks of a round, taken from the queues h, r of a memory.
ChunksOf(mf, h, r, n) == [i \in 1..n |-> KeysAt(mf, h[i], Lesser(r[i], BufferLen[n]))]

\* A merge with more than one queue, by its parts.
ShapeOf(S, f, g, m, lo, hi, n, h, r, o) ==
  /\ n \in 2..4 /\ h \in [1..n -> Nat] /\ r \in [1..n -> Nat] /\ o \in Nat
  /\ h = m.head /\ r = m.rest /\ o = m.out /\ n = Len(r)
  /\ Pending(S, f, g, h, r, o, lo, hi) /\ Within(h, r, o, lo, hi) /\ lo <= o
  /\ \A i \in 1..n : 1 <= r[i] /\ InOrder(f, h[i], h[i] + r[i])

\* The parts of a merge under way, named.
LEMMA MergingShape ==
  ASSUME NEW S, NEW f, NEW g, NEW m, NEW lo, NEW hi,
         Merging(S, f, g, m, lo, hi), Len(m.rest) > 1
  PROVE  \E n, h, r, o : ShapeOf(S, f, g, m, lo, hi, n, h, r, o)
<1>1. PICK h, r, o : h = m.head /\ r = m.rest /\ o = m.out
  OBVIOUS
<1>2. Pending(S, f, g, h, r, o, lo, hi) /\ Len(r) > 1 /\ \A i \in 1..Len(r) : 1 <= r[i]
  BY <1>1 DEF Merging
<1>3. Within(h, r, o, lo, hi) /\ o + SumOf(r) = hi /\ \A i \in 1..Len(r) : InOrder(f, h[i], h[i] + r[i])
  BY <1>2 DEF Pending
<1>4. h \in Seq(Nat) /\ r \in Seq(Nat) /\ o \in Nat /\ Len(r) = Len(h) /\ Len(r) <= 4 /\ lo <= o
  BY <1>3 DEF Within
<1>6. PICK n \in Nat : n = Len(r)
  BY <1>4
<1>7. n \in 2..4
  <2>1. n > 1 /\ n <= 4
    BY <1>2, <1>4, <1>6
  <2> QED  BY <2>1
<1>8. h \in [1..n -> Nat] /\ r \in [1..n -> Nat] /\ DOMAIN r = 1..n /\ Len(h) = n
  BY <1>4, <1>6
<1> QED  BY <1>1, <1>2, <1>3, <1>4, <1>6, <1>7, <1>8 DEF ShapeOf

\* The queues h, r of a memory.
QueuesOf(mf, h, r, n) ==
  /\ n \in 2..4 /\ h \in [1..n -> Nat] /\ r \in [1..n -> Nat]
  /\ \A i \in 1..n : 1 <= r[i] /\ InOrder(KeysOf(mf), h[i], h[i] + r[i])

\* At most one queue runs empty.
OneEmptied(r, k, n) == \E e \in 1..n : \A i \in 1..n : i # e => k[i] < r[i]

\* What a round takes.
LEMMA RoundTakes ==
  ASSUME UniqueAssumption, NEW n, NEW mf, NEW h, NEW r, QueuesOf(mf, h, r, n),
         NEW k, k \in Taken(ChunksOf(mf, h, r, n)), NEW s,
         s = Ascending(FlattenSeq([i \in 1..n |-> SubSeq(ChunksOf(mf, h, r, n)[i], 1, k[i])]))
  PROVE  /\ Splits(KeysOf(mf), h, r, k, n) /\ OneEmptied(r, k, n)
         /\ Gathers(s, KeysOf(mf), h, k, n)
<1>0. /\ n \in 2..4 /\ n \in Nat /\ h \in [1..n -> Nat] /\ r \in [1..n -> Nat]
      /\ \A i \in 1..n : 1 <= r[i] /\ InOrder(KeysOf(mf), h[i], h[i] + r[i])
  BY DEF QueuesOf
<1>1. PICK f : f = KeysOf(mf)
  OBVIOUS
<1>2. PICK chunks : chunks = ChunksOf(mf, h, r, n)
  OBVIOUS
<1>3. PICK u \in Nat : u = BufferLen[n] /\ 1 <= u
  <2>1. BufferLen \in [2..4 -> Nat \ {0}]
    BY DEF UniqueAssumption
  <2>2. BufferLen[n] \in Nat \ {0}
    BY <1>0, <2>1
  <2>3. BufferLen[n] \in Nat /\ 1 <= BufferLen[n]
    BY <2>2
  <2> QED  BY <2>3
<1>4. PICK c : c = [i \in 1..n |-> Lesser(r[i], u)]
  OBVIOUS
<1>5. \A i \in 1..n : c[i] \in Nat /\ 1 <= c[i] /\ c[i] <= r[i] /\ r[i] \in Nat /\ h[i] \in Nat
  BY <1>0, <1>3, <1>4 DEF Lesser
<1>6. c \in [1..n -> Nat]
  BY <1>4, <1>5
<1>7. \A i \in 1..n : chunks[i] = KeysAt(mf, h[i], c[i])
  BY <1>2, <1>3, <1>4 DEF ChunksOf
<1>8. DOMAIN chunks = 1..n /\ Len(chunks) = n
  <2>1. chunks = [i \in 1..n |-> KeysAt(mf, h[i], Lesser(r[i], BufferLen[n]))]
    BY <1>2 DEF ChunksOf
  <2> QED  BY <1>0, <2>1
<1>9. \A i \in 1..n : PartOf(mf, h[i], r[i], c[i], 0)
  BY <1>0, <1>5 DEF PartOf
<1>10. ASSUME NEW i \in 1..n
       PROVE  Len(chunks[i]) = c[i] /\ \A j \in 1..c[i] : chunks[i][j] = f[(h[i] + j) - 1]
  <2>1. PICK a, l, v : a = h[i] /\ l = r[i] /\ v = c[i] /\ PartOf(mf, a, l, v, 0)
    BY <1>9
  <2>2. /\ Len(KeysAt(mf, a, v)) = v
        /\ \A j \in 1..v : KeysAt(mf, a, v)[j] = KeysOf(mf)[(a + j) - 1]
    BY <2>1, QueueChunk
  <2> QED  BY <1>1, <1>7, <2>1, <2>2
<1>11. Chunked(chunks, f, h, r, c, n)
  BY <1>0, <1>1, <1>5, <1>6, <1>8, <1>10 DEF Chunked
<1>12. /\ k \in [1..n -> Nat] /\ \A i \in 1..n : k[i] <= c[i]
       /\ \E e \in 1..n : \A i \in 1..n : i # e => k[i] < r[i]
       /\ \E last \in Nat : \A i \in 1..n : \A d \in h[i]..(h[i] + r[i] - 1) :
            /\ d < h[i] + k[i] => f[d] <= last
            /\ h[i] + k[i] <= d => last <= f[d]
  <2>1. k \in Taken(chunks)
    BY <1>2
  <2> QED  BY <1>11, <2>1, RoundSplits
<1>13. \A i \in 1..n : k[i] \in Nat /\ k[i] <= c[i] /\ k[i] <= r[i]
  BY <1>5, <1>12
<1>14. Splits(f, h, r, k, n)
  BY <1>12, <1>13 DEF Splits
<1>15. PICK ts : ts = [i \in 1..n |-> SubSeq(chunks[i], 1, k[i])]
  OBVIOUS
<1>16. \A i \in 1..n : PartOf(mf, h[i], r[i], c[i], k[i])
  BY <1>0, <1>5, <1>13 DEF PartOf
<1>17. TakenParts(ts, f, h, k, n)
  <2> SUFFICES ASSUME NEW i \in 1..n
               PROVE  ts[i] \in Seq(Keys) /\ Len(ts[i]) = k[i] /\ Lies(f, h[i], h[i] + k[i], ts[i])
    BY DEF TakenParts
  <2>1. PICK a, l, v, y : a = h[i] /\ l = r[i] /\ v = c[i] /\ y = k[i] /\ PartOf(mf, a, l, v, y)
    BY <1>16
  <2>2. /\ SubSeq(KeysAt(mf, a, v), 1, y) \in Seq(Keys)
        /\ Len(SubSeq(KeysAt(mf, a, v), 1, y)) = y
        /\ Lies(KeysOf(mf), a, a + y, SubSeq(KeysAt(mf, a, v), 1, y))
    BY <2>1, QueueChunk
  <2>3. ts[i] = SubSeq(KeysAt(mf, a, v), 1, y)
    BY <1>7, <1>15, <2>1
  <2> QED  BY <1>1, <2>1, <2>2, <2>3
<1>18. ts = [i \in 1..n |-> ts[i]]
  BY <1>15
<1>19. Gathers(Ascending(FlattenSeq(ts)), f, h, k, n)
  BY <1>0, <1>12, <1>17, <1>18, RoundGathers
<1> QED  BY <1>1, <1>2, <1>12, <1>14, <1>15, <1>19 DEF OneEmptied

\* How far a round writes.
LEMMA RoundFits ==
  ASSUME NEW n \in 2..4, NEW h, NEW r, NEW o, NEW lo \in Nat, NEW hi \in Nat, Within(h, r, o, lo, hi), Len(r) = n,
         NEW f, NEW k, Splits(f, h, r, k, n), NEW h2, NEW r2, Moved(h, r, k, n, h2, r2)
  PROVE  /\ r2 \in Seq(Nat) /\ Len(r2) = n /\ \A i \in 1..n : k[i] < r[i] => 1 <= r2[i]
         /\ SumOf(k) \in Nat /\ o + SumOf(k) \in Nat /\ o + SumOf(k) <= hi
<1>1. /\ h \in Seq(Nat) /\ r \in Seq(Nat) /\ o \in Nat /\ n \in Nat /\ n <= 4 /\ Len(h) = n
  BY DEF Within
<1>2. k \in [1..n -> Nat] /\ \A i \in 1..n : k[i] <= r[i]
  BY DEF Splits
<1>3. h2 = [i \in 1..n |-> h[i] + k[i]] /\ r2 = [i \in 1..n |-> r[i] - k[i]]
  BY DEF Moved
<1>4. \A i \in 1..n : r[i] \in Nat /\ k[i] \in Nat /\ k[i] <= r[i] /\ r2[i] = r[i] - k[i]
  BY <1>1, <1>2, <1>3
<1>5. \A i \in 1..n : r2[i] \in Nat /\ (k[i] < r[i] => 1 <= r2[i])
  BY <1>4
<1>6. r2 \in Seq(Nat) /\ Len(r2) = n
  <2>1. r2 \in [1..n -> Nat]
    BY <1>3, <1>5
  <2> QED  BY <1>1, <2>1, IsSequence
<1>7. SumOf(k) \in Nat
  <2>1. k \in Seq(Nat) /\ Len(k) = n
    BY <1>1, <1>2, IsSequence
  <2> QED  BY <1>1, <2>1, Summed
<1>8. SumOf(r2) \in Nat
  BY <1>1, <1>6, Summed
<1>9. Within(h2, r2, o + SumOf(k), lo, hi)
  BY <1>1, <1>2, <1>3, Shortened
<1>10. (o + SumOf(k)) + SumOf(r2) <= hi
  BY <1>9 DEF Within
<1>11. o + SumOf(k) \in Nat /\ o + SumOf(k) <= hi
  BY <1>1, <1>7, <1>8, <1>10
<1> QED  BY <1>5, <1>6, <1>7, <1>11

\* A merge from mf to mg, a memory of T pairs, of what lies from lo to before hi.
RoundFrom(S, T, mf, mg, m, lo, hi) ==
  /\ T \in Nat /\ mg \in [1..(2 * T) -> Keys \cup {Index}]
  /\ lo \in Nat /\ hi \in Nat /\ hi <= T
  /\ Merging(S, KeysOf(mf), KeysOf(mg), m, lo, hi)

\* What a round takes from the queues of m in mf: k[i] keys each, which are s when sorted.
RoundTaken(mf, m, n, k, s) ==
  /\ Len(m.rest) > 1 /\ n = Len(m.rest) /\ k \in Taken(ChunksOf(mf, m.head, m.rest, n))
  /\ s = Ascending(FlattenSeq([i \in 1..n |-> SubSeq(ChunksOf(mf, m.head, m.rest, n)[i], 1, k[i])]))

\* What it leaves.
RoundLeft(mg, m, n, k, s, mg2, m2) ==
  /\ mg2 = WriteAt(mg, 2 * m.out, Pairs(s))
  /\ m2 = DropEmpty([head |-> [i \in 1..n |-> m.head[i] + k[i]],
                     rest |-> [i \in 1..n |-> m.rest[i] - k[i]],
                     out |-> m.out + SumOf(k)])

\* A round keeps the merge.
LEMMA RoundData ==
  ASSUME UniqueAssumption, NEW S, NEW T, NEW mf, NEW mg, NEW m, NEW lo, NEW hi,
         RoundFrom(S, T, mf, mg, m, lo, hi), NEW n, NEW k, NEW s, RoundTaken(mf, m, n, k, s),
         NEW mg2, NEW m2, RoundLeft(mg, m, n, k, s, mg2, m2)
  PROVE  Changed(T, mg, mg2, lo, hi) /\ Merging(S, KeysOf(mf), KeysOf(mg2), m2, lo, hi)
<1>0. /\ Len(m.rest) > 1 /\ n = Len(m.rest) /\ k \in Taken(ChunksOf(mf, m.head, m.rest, n))
      /\ s = Ascending(FlattenSeq([i \in 1..n |-> SubSeq(ChunksOf(mf, m.head, m.rest, n)[i], 1, k[i])]))
  BY DEF RoundTaken
<1>1. /\ T \in Nat /\ mg \in [1..(2 * T) -> Keys \cup {Index}]
      /\ lo \in Nat /\ hi \in Nat /\ hi <= T
      /\ Merging(S, KeysOf(mf), KeysOf(mg), m, lo, hi)
  BY DEF RoundFrom
<1>2. PICK f, g : f = KeysOf(mf) /\ g = KeysOf(mg)
  OBVIOUS
<1>3. PICK N, h, r, o : ShapeOf(S, f, g, m, lo, hi, N, h, r, o)
  <2>1. Merging(S, f, g, m, lo, hi) /\ Len(m.rest) > 1
    BY <1>0, <1>1, <1>2
  <2> QED  BY <2>1, MergingShape
<1>4. /\ h \in [1..N -> Nat] /\ r \in [1..N -> Nat] /\ o \in Nat /\ N \in 2..4
      /\ h = m.head /\ r = m.rest /\ o = m.out /\ N = Len(r)
      /\ Pending(S, f, g, h, r, o, lo, hi) /\ lo <= o
      /\ Within(h, r, o, lo, hi)
      /\ \A i \in 1..N : 1 <= r[i] /\ InOrder(f, h[i], h[i] + r[i])
  BY <1>3 DEF ShapeOf
<1>5. n = N /\ n \in 2..4 /\ n \in Nat /\ n = Len(r)
  BY <1>0, <1>4
<1>6. QueuesOf(mf, h, r, n)
  BY <1>2, <1>4, <1>5 DEF QueuesOf
<1>7. /\ Splits(f, h, r, k, n)
      /\ OneEmptied(r, k, n) /\ Gathers(s, f, h, k, n)
  <2>1. k \in Taken(ChunksOf(mf, h, r, n))
    BY <1>0, <1>4
  <2>2. s = Ascending(FlattenSeq([i \in 1..n |-> SubSeq(ChunksOf(mf, h, r, n)[i], 1, k[i])]))
    BY <1>0, <1>4
  <2> QED  BY <1>2, <1>6, <2>1, <2>2, RoundTakes
<1>8. PICK h2, r2 : Moved(h, r, k, n, h2, r2)
  BY DEF Moved
<1>9. /\ r2 \in Seq(Nat) /\ Len(r2) = n /\ \A i \in 1..n : k[i] < r[i] => 1 <= r2[i]
      /\ SumOf(k) \in Nat /\ o + SumOf(k) \in Nat /\ o + SumOf(k) <= hi
  <2>1. lo \in Nat /\ hi \in Nat /\ Within(h, r, o, lo, hi) /\ Len(r) = n
    BY <1>1, <1>4, <1>5
  <2>2. n \in 2..4 /\ Splits(f, h, r, k, n) /\ Moved(h, r, k, n, h2, r2)
    BY <1>5, <1>7, <1>8
  <2> QED  BY <2>1, <2>2, RoundFits
<1>10. PICK l \in Nat : l = SumOf(k) /\ l = Len(s) /\ s \in Seq(Keys)
  BY <1>7, <1>9 DEF Gathers
<1>11. PICK z \in Nat : z = o + SumOf(k) /\ z = o + l /\ z <= hi
  BY <1>9, <1>10
<1>12. Storable(T, mg, s, o, l)
  <2>1. o \in Nat /\ o + l <= T
    BY <1>1, <1>4, <1>11
  <2> QED  BY <1>1, <1>10, <2>1 DEF Storable
<1>13. mg2 = WriteAt(mg, 2 * o, Pairs(s))
  BY <1>4 DEF RoundLeft
<1>14. Changed(T, mg, mg2, lo, hi) /\ Placed(KeysOf(mg2), KeysOf(mg), lo, o, s)
  <2>1. lo \in Nat /\ hi \in Nat /\ hi <= T /\ lo <= o /\ o + l <= hi
    BY <1>1, <1>4, <1>11
  <2> QED  BY <1>12, <1>13, <2>1, MergeWritten
<1>15. PICK g2 : g2 = KeysOf(mg2)
  OBVIOUS
<1>16. Pending(S, f, g2, h2, r2, z, lo, hi)
  <2>1. Pending(S, f, g, h, r, o, lo, hi) /\ Placed(g2, g, lo, o, s)
    BY <1>2, <1>4, <1>14, <1>15
  <2> QED  BY <1>1, <1>5, <1>7, <1>8, <1>11, <2>1, RoundPending
<1>17. Merging(S, f, g2, DropEmpty([head |-> h2, rest |-> r2, out |-> z]), lo, hi)
  <2>1. PICK e \in 1..n : \A i \in 1..n : i # e => k[i] < r[i]
    BY <1>7 DEF OneEmptied
  <2>2. \A i \in 1..n : i # e => 1 <= r2[i]
    BY <1>9, <2>1
  <2>3. e \in 1..Len(r2) /\ \A i \in 1..Len(r2) : i # e => 1 <= r2[i]
    BY <1>9, <2>2
  <2>4. 2 <= Len(r2)
    BY <1>5, <1>9
  <2> QED  BY <1>1, <1>16, <2>3, <2>4, DropMerging
<1>18. [head |-> h2, rest |-> r2, out |-> z]
         = [head |-> [i \in 1..n |-> m.head[i] + k[i]],
            rest |-> [i \in 1..n |-> m.rest[i] - k[i]], out |-> m.out + SumOf(k)]
  <2>1. h2 = [i \in 1..n |-> m.head[i] + k[i]] /\ r2 = [i \in 1..n |-> m.rest[i] - k[i]]
    BY <1>4, <1>8 DEF Moved
  <2>2. z = m.out + SumOf(k)
    BY <1>4, <1>11
  <2> QED  BY <2>1, <2>2
<1>20. m2 = DropEmpty([head |-> h2, rest |-> r2, out |-> z])
  BY <1>18 DEF RoundLeft
<1> QED  BY <1>2, <1>14, <1>15, <1>17, <1>20

\* The end of a merge.
LEMMA CopyData ==
  ASSUME NEW S, NEW T, NEW mf, NEW mg, NEW m, NEW lo, NEW hi,
         RoundFrom(S, T, mf, mg, m, lo, hi), Len(m.rest) = 1,
         NEW s, s = KeysAt(mf, m.head[1], m.rest[1])
  PROVE  /\ Changed(T, mg, WriteAt(mg, 2 * m.out, Pairs(s)), lo, hi)
         /\ Holds(S, KeysOf(WriteAt(mg, 2 * m.out, Pairs(s))), lo, hi)
<1>1. /\ T \in Nat /\ mg \in [1..(2 * T) -> Keys \cup {Index}]
      /\ lo \in Nat /\ hi \in Nat /\ hi <= T
      /\ Merging(S, KeysOf(mf), KeysOf(mg), m, lo, hi)
  BY DEF RoundFrom
<1>2. PICK f, g : f = KeysOf(mf) /\ g = KeysOf(mg)
  OBVIOUS
<1>3. PICK h, r, o : h = m.head /\ r = m.rest /\ o = m.out
  OBVIOUS
<1>4. Pending(S, f, g, h, r, o, lo, hi) /\ Len(r) = 1
  BY <1>1, <1>2, <1>3 DEF Merging
<1>5. /\ Within(h, r, o, lo, hi) /\ o + SumOf(r) = hi
      /\ \A i \in 1..1 : InOrder(f, h[i], h[i] + r[i])
  BY <1>4 DEF Pending
<1>6. h \in Seq(Nat) /\ r \in Seq(Nat) /\ o \in Nat /\ lo <= o /\ Len(h) = 1
  BY <1>4, <1>5 DEF Within
<1>7. PICK a \in Nat, l \in Nat : a = h[1] /\ l = r[1]
  <2>1. 1 \in 1..Len(h) /\ 1 \in 1..Len(r)
    BY <1>4, <1>6
  <2> QED  BY <1>6, <2>1
<1>8. InOrder(f, a, a + l)
  <2>1. 1 \in 1..1
    OBVIOUS
  <2> QED  BY <1>5, <1>7, <2>1
<1>9. SumOf(r) = l
  <2>1. SumOf(r) = Item(r, 1) + Item(r, 2) + Item(r, 3) + Item(r, 4)
    BY <1>4, <1>6, Summed
  <2>2. DOMAIN r = 1..1
    BY <1>4, <1>6
  <2>3. Item(r, 1) = l /\ Item(r, 2) = 0 /\ Item(r, 3) = 0 /\ Item(r, 4) = 0
    BY <1>7, <2>2 DEF Item
  <2> QED  BY <2>1, <2>3
<1>10. o + l <= hi /\ o + l <= T
  BY <1>1, <1>5, <1>6, <1>9
<1>11. KeyRun(Keys, mf, a, l, s)
  <2>1. \A e \in a..(a + l - 1) : KeysOf(mf)[e] \in Keys
    BY <1>2, <1>8 DEF InOrder
  <2>2. KeyRun(Keys, mf, a, l, KeysAt(mf, a, l))
    BY <2>1, KeysAtFacts
  <2> QED  BY <1>3, <1>7, <2>2
<1>12. s \in Seq(Keys) /\ Len(s) = l /\ \A i \in 1..l : s[i] = f[(a + i) - 1]
  BY <1>2, <1>11 DEF KeyRun
<1>13. Storable(T, mg, s, o, l)
  BY <1>1, <1>6, <1>10, <1>12 DEF Storable
<1>14. PICK mg2 : mg2 = WriteAt(mg, 2 * o, Pairs(s))
  OBVIOUS
<1>15. Changed(T, mg, mg2, lo, hi) /\ Placed(KeysOf(mg2), KeysOf(mg), lo, o, s)
  BY <1>1, <1>6, <1>10, <1>13, <1>14, MergeWritten
<1>16. PICK z \in Nat : z = a + l
  OBVIOUS
<1>17. Lies(f, a, z, s)
  <2>1. \A e \in a..(z - 1) : f[e] = s[(e - a) + 1]
    <3> SUFFICES ASSUME NEW e \in a..(z - 1) PROVE f[e] = s[(e - a) + 1]
      OBVIOUS
    <3>1. PICK i \in 1..l : i = (e - a) + 1 /\ e = (a + i) - 1
      BY <1>16
    <3> QED  BY <1>12, <3>1
  <2>2. z - a = Len(s) /\ Len(s) \in Nat /\ a \in Int /\ z \in Int
    BY <1>12, <1>16
  <2> QED  BY <2>1, <2>2 DEF Lies
<1>18. Holds(S, KeysOf(mg2), lo, hi)
  <2>1. Lies(f, m.head[1], m.head[1] + m.rest[1], s)
    BY <1>3, <1>7, <1>16, <1>17
  <2>2. Placed(KeysOf(mg2), g, lo, m.out, s)
    BY <1>2, <1>3, <1>15
  <2>3. Merging(S, f, g, m, lo, hi) /\ lo \in Nat /\ hi \in Nat /\ s \in Seq(Keys)
    BY <1>1, <1>2, <1>12
  <2> QED  BY <2>1, <2>2, <2>3, LastQueueEnds
<1>19. mg2 = WriteAt(mg, 2 * m.out, Pairs(s))
  BY <1>3, <1>14
<1> QED  BY <1>15, <1>18, <1>19

-----------------------------------------------------------------------------
(* Writing in the workspace *)

\* The padded tensor ends where the last block does.
LEMMA PaddedFacts ==
  ASSUME Called
  PROVE  padded \in Nat \ {0} /\ padded = Offset(blockNum) /\ total <= padded
<1>1. TilingAssumption /\ total \in Nat \ {0} /\ aivNum \in Nat \ {0} /\ TileLength \in Nat \ {0}
  BY CallFacts DEF TilingAssumption
<1>2. /\ GetGlobalOffset(total, aivNum, BlockNum(total, aivNum)) = TileNum(total) * TileLength
      /\ total \in (((TileNum(total) - 1) * TileLength) + 1)..(TileNum(total) * TileLength)
  BY <1>1, BlocksPartition
<1>3. PICK x : x = TileNum(total) * TileLength
  OBVIOUS
<1>4. TileNum(total) \in Int
  <2>1. total + TileLength - 1 \in Nat
    BY <1>1
  <2> QED  BY <1>1, <2>1 DEF TileNum
<1>5. x \in Int
  BY <1>1, <1>3, <1>4
<1>6. total <= x
  BY <1>2, <1>3
<1>7. x \in Nat \ {0}
  BY <1>1, <1>5, <1>6
<1>8. padded = x /\ Offset(blockNum) = x
  BY <1>2, <1>3 DEF padded, Offset, blockNum
<1> QED  BY <1>6, <1>7, <1>8

\* What is wanted does not change.
LEMMA WantedKept ==
  ASSUME UNCHANGED call
  PROVE  Wanted' = Wanted /\ padded' = padded
<1>1. input' = input
  BY CallKept
<1>2. total' = total
  BY <1>1 DEF total
<1> QED  BY <1>1, <1>2 DEF Wanted, padded

\* A step writes in buffer i from element lo to before hi and nowhere else.
Rewrites(i, lo, hi) ==
  /\ buf' = [buf EXCEPT ![i] = buf'[i]]
  /\ Changed(padded, buf[i], buf'[i], lo, hi)

\* Rewriting a part leaves the size of the workspace.
LEMMA WorkspaceKept ==
  ASSUME UNCHANGED call, WorkspaceOK, NEW i \in 1..2, NEW lo, NEW hi, Rewrites(i, lo, hi)
  PROVE  WorkspaceOK'
<1>1. buf \in [1..2 -> [1..(2 * padded) -> Keys \cup {Index}]]
  BY DEF WorkspaceOK
<1>2. /\ buf' = [buf EXCEPT ![i] = buf'[i]]
      /\ buf'[i] \in [1..(2 * padded) -> Keys \cup {Index}]
  BY DEF Rewrites, Changed
<1>3. PICK V : V = [1..(2 * padded) -> Keys \cup {Index}]
  OBVIOUS
<1>4. PICK x : x = buf'[i]
  OBVIOUS
<1>5. [buf EXCEPT ![i] = x] \in [1..2 -> V]
  BY <1>1, <1>2, <1>3, <1>4
<1>6. buf' \in [1..2 -> V]
  BY <1>2, <1>4, <1>5
<1>7. ASSUME NEW j \in 1..2 PROVE Indexed(padded, buf'[j])
  <2>1. Indexed(padded, buf[j])
    BY DEF WorkspaceOK
  <2>2. j # i => buf'[j] = buf[j]
    BY <1>1, <1>2
  <2>3. Indexed(padded, buf[i]) => Indexed(padded, buf'[i])
    BY DEF Rewrites, Changed
  <2> QED  BY <2>1, <2>2, <2>3
<1>8. \A j \in 1..2 : Indexed(padded, buf[j])'
  BY <1>7, WantedKept DEF Indexed
<1> QED  BY <1>3, <1>6, <1>8, WantedKept DEF WorkspaceOK

\* From element l to before h nothing is written in buffer j.
Spared(j, l, h, i, lo, hi) ==
  l \in Nat /\ h \in Nat /\ h <= padded /\ lo \in Nat /\ hi \in Nat /\ (j # i \/ h <= lo \/ hi <= l)

\* What is not rewritten stays.
LEMMA SparedKept ==
  ASSUME Called, WorkspaceOK, NEW i \in 1..2, NEW lo, NEW hi, Rewrites(i, lo, hi),
         NEW j \in 1..2, NEW l, NEW h, Spared(j, l, h, i, lo, hi)
  PROVE  \A e \in l..(h - 1) : Data(j)'[e] = Data(j)[e]
<1>1. buf \in [1..2 -> [1..(2 * padded) -> Keys \cup {Index}]]
  BY DEF WorkspaceOK
<1>2. /\ buf' = [buf EXCEPT ![i] = buf'[i]]
      /\ \A e \in 0..(padded - 1) : e < lo \/ hi <= e => KeysOf(buf'[i])[e] = KeysOf(buf[i])[e]
  BY DEF Rewrites, Changed
<1>3. CASE j # i
  <2>1. buf'[j] = buf[j]
    BY <1>1, <1>2, <1>3
  <2> QED  BY <2>1 DEF Data
<1>4. CASE j = i
  <2>1. l \in Nat /\ h \in Nat /\ h <= padded /\ lo \in Nat /\ hi \in Nat /\ (h <= lo \/ hi <= l)
    BY <1>4 DEF Spared
  <2>2. padded \in Nat
    BY PaddedFacts
  <2>3. ASSUME NEW e \in l..(h - 1) PROVE KeysOf(buf'[i])[e] = KeysOf(buf[i])[e]
    <3>1. e \in 0..(padded - 1) /\ (e < lo \/ hi <= e)
      BY <2>1, <2>2
    <3> QED  BY <1>2, <3>1
  <2>4. Data(j)' = KeysOf(buf'[i]) /\ Data(j) = KeysOf(buf[i])
    BY <1>4 DEF Data
  <2> QED  BY <2>3, <2>4
<1> QED  BY <1>3, <1>4

\* What lies elsewhere is kept.
LEMMA HoldingKept ==
  ASSUME Called, UNCHANGED call, WorkspaceOK, NEW i \in 1..2, NEW lo, NEW hi, Rewrites(i, lo, hi),
         NEW j \in 1..2, NEW l, NEW h, Spared(j, l, h, i, lo, hi), Holding(j, l, h)
  PROVE  Holding(j, l, h)'
<1>1. \A e \in l..(h - 1) : Data(j)'[e] = Data(j)[e]
  BY SparedKept
<1>2. Holds(Wanted, Data(j), l, h)
  BY DEF Holding
<1>3. Holds(Wanted, Data(j)', l, h)
  BY <1>1, <1>2, HoldsKept
<1>4. Wanted' = Wanted
  BY WantedKept
<1> QED  BY <1>3, <1>4 DEF Holding

\* A merge of core b that is kept.
LEMMA MergingAtKept ==
  ASSUME Called, UNCHANGED call, WorkspaceOK, NEW i \in 1..2, NEW lo, NEW hi, Rewrites(i, lo, hi),
         NEW b, cur[b] \in 1..2, cur'[b] = cur[b], merge'[b] = merge[b],
         NEW l, NEW h, Spared(i, l, h, i, lo, hi), MergingAt(b, l, h)
  PROVE  MergingAt(b, l, h)'
<1>1. PICK j \in 1..2 : j = cur[b]
  OBVIOUS
<1>2. PICK k \in 1..2 : k = Other(j)
  BY DEF Other
<1>3. l \in Nat /\ h \in Nat /\ Spared(j, l, h, i, lo, hi) /\ Spared(k, l, h, i, lo, hi)
  BY DEF Spared
<1>4. \A e \in l..(h - 1) : Data(j)'[e] = Data(j)[e]
  BY <1>3, SparedKept
<1>5. \A e \in l..(h - 1) : Data(k)'[e] = Data(k)[e]
  BY <1>3, SparedKept
<1>6. Merging(Wanted, Data(j), Data(k), merge[b], l, h)
  BY <1>1, <1>2 DEF MergingAt
<1>7. Merging(Wanted, Data(j)', Data(k)', merge[b], l, h)
  BY <1>3, <1>4, <1>5, <1>6, MergingKept
<1>8. Wanted' = Wanted
  BY WantedKept
<1>9. Data(cur[b])' = Data(j)' /\ Data(Other(cur[b]))' = Data(k)'
  BY <1>1, <1>2 DEF Data, Other
<1> QED  BY <1>7, <1>8, <1>9 DEF MergingAt

-----------------------------------------------------------------------------
(* The steps of a merge *)

\* A merge that a core has under way, between l and h.
Underway(b, l, h) ==
  /\ Called /\ WorkspaceOK /\ cur[b] \in 1..2 /\ b \in DOMAIN merge
  /\ l \in Nat /\ h \in Nat /\ h <= padded /\ MergingAt(b, l, h)

\* A round of it.
LEMMA RoundStep ==
  ASSUME UniqueAssumption, NEW b, NEW l, NEW h, Underway(b, l, h), MergeRound(b)
  PROVE  /\ Rewrites(Other(cur[b]), l, h) /\ MergingAt(b, l, h)'
         /\ merge' = [merge EXCEPT ![b] = merge'[b]] /\ merge'[b] # NoMerge
<1>1. /\ Called /\ WorkspaceOK /\ cur[b] \in 1..2 /\ b \in DOMAIN merge
      /\ l \in Nat /\ h \in Nat /\ h <= padded /\ MergingAt(b, l, h)
  BY DEF Underway
<1>2. PICK i \in 1..2, j \in 1..2 : i = cur[b] /\ j = Other(cur[b]) /\ i # j
  <2>1. cur[b] \in 1..2 /\ Other(cur[b]) \in 1..2 /\ cur[b] # Other(cur[b])
    BY <1>1 DEF Other
  <2> QED  BY <2>1
<1>3. PICK m, mf, mg, n : m = merge[b] /\ mf = buf[i] /\ mg = buf[j] /\ n = Len(m.rest)
  OBVIOUS
<1>4. RoundFrom(Wanted, padded, mf, mg, m, l, h)
  <2>1. mg \in [1..(2 * padded) -> Keys \cup {Index}]
    BY <1>1, <1>3 DEF WorkspaceOK
  <2>2. padded \in Nat
    BY <1>1, PaddedFacts
  <2>3. Merging(Wanted, KeysOf(mf), KeysOf(mg), m, l, h)
    BY <1>1, <1>2, <1>3 DEF MergingAt, Data
  <2> QED  BY <1>1, <2>1, <2>2, <2>3 DEF RoundFrom
<1>5. Len(m.rest) > 1 /\ UNCHANGED <<call, cur>>
  BY <1>3 DEF MergeRound
<1>6. DOMAIN m.rest = 1..n
  <2>1. Merging(Wanted, KeysOf(mf), KeysOf(mg), m, l, h)
    BY <1>4 DEF RoundFrom
  <2>2. m.rest \in Seq(Nat)
    BY <2>1 DEF Merging, Pending, Within
  <2> QED  BY <1>3, <2>2
<1>7. PICK chunks : chunks = [q \in DOMAIN merge[b].rest |->
                     KeysAt(buf[cur[b]], merge[b].head[q],
                            Lesser(merge[b].rest[q], BufferLen[Len(merge[b].rest)]))]
  OBVIOUS
<1>8. PICK k, s :
        /\ k \in Taken(chunks)
        /\ s = Ascending(FlattenSeq([q \in DOMAIN merge[b].rest |-> SubSeq(chunks[q], 1, k[q])]))
        /\ buf' = [buf EXCEPT ![Other(cur[b])] = WriteAt(@, 2 * merge[b].out, Pairs(s))]
        /\ merge' = [merge EXCEPT ![b] =
                     DropEmpty([head |-> [q \in DOMAIN merge[b].rest |-> merge[b].head[q] + k[q]],
                                rest |-> [q \in DOMAIN merge[b].rest |-> merge[b].rest[q] - k[q]],
                                out |-> merge[b].out + SumOf(k)])]
  BY <1>7, Zenon DEF MergeRound
<1>9. chunks = ChunksOf(mf, m.head, m.rest, n)
  BY <1>2, <1>3, <1>6, <1>7 DEF ChunksOf
<1>10. s = Ascending(FlattenSeq([q \in 1..n |-> SubSeq(ChunksOf(mf, m.head, m.rest, n)[q], 1, k[q])]))
  BY <1>3, <1>6, <1>8, <1>9
<1>11. PICK mg2, m2 : /\ mg2 = WriteAt(mg, 2 * m.out, Pairs(s))
                      /\ m2 = DropEmpty([head |-> [q \in 1..n |-> m.head[q] + k[q]],
                                         rest |-> [q \in 1..n |-> m.rest[q] - k[q]],
                                         out |-> m.out + SumOf(k)])
  OBVIOUS
<1>12. Changed(padded, mg, mg2, l, h) /\ Merging(Wanted, KeysOf(mf), KeysOf(mg2), m2, l, h)
  <2>1. RoundTaken(mf, m, n, k, s)
    <3>1. k \in Taken(ChunksOf(mf, m.head, m.rest, n))
      BY <1>8, <1>9
    <3> QED  BY <1>3, <1>5, <1>10, <3>1 DEF RoundTaken
  <2>2. RoundLeft(mg, m, n, k, s, mg2, m2)
    BY <1>11 DEF RoundLeft
  <2> QED  BY <1>4, <2>1, <2>2, RoundData
<1>13. buf' = [buf EXCEPT ![j] = mg2]
  <2>1. buf' = [buf EXCEPT ![j] = WriteAt(buf[j], 2 * m.out, Pairs(s))]
    BY <1>2, <1>3, <1>8
  <2> QED  BY <1>3, <1>11, <2>1
<1>14. buf'[j] = mg2 /\ buf'[i] = mf
  <2>1. DOMAIN buf = 1..2
    BY <1>1 DEF WorkspaceOK
  <2> QED  BY <1>2, <1>3, <1>13, <2>1
<1>15. merge' = [merge EXCEPT ![b] = m2]
  <2>1. /\ [q \in DOMAIN merge[b].rest |-> merge[b].head[q] + k[q]] = [q \in 1..n |-> m.head[q] + k[q]]
        /\ [q \in DOMAIN merge[b].rest |-> merge[b].rest[q] - k[q]] = [q \in 1..n |-> m.rest[q] - k[q]]
    BY <1>3, <1>6
  <2> QED  BY <1>3, <1>8, <1>11, <2>1
<1>16. merge'[b] = m2
  BY <1>1, <1>15
<1>17. m2 # NoMerge
  <2>1. 1 <= Len(m2.rest)
    BY <1>12 DEF Merging
  <2> QED  BY <2>1 DEF NoMerge
<1>18. Rewrites(j, l, h)
  BY <1>3, <1>12, <1>13, <1>14 DEF Rewrites
<1>19. MergingAt(b, l, h)'
  <2>1. Wanted' = Wanted
    BY <1>5, WantedKept
  <2>2. Data(cur[b])' = KeysOf(mf) /\ Data(Other(cur[b]))' = KeysOf(mg2)
    BY <1>2, <1>5, <1>14 DEF Data, Other
  <2> QED  BY <1>12, <1>16, <2>1, <2>2 DEF MergingAt
<1> QED  BY <1>2, <1>15, <1>16, <1>17, <1>18, <1>19

\* Its end.
LEMMA CopyStep ==
  ASSUME UNCHANGED call, NEW b, NEW l, NEW h, Underway(b, l, h), CopyRest(b), NEW j, j = Other(cur[b])
  PROVE  Rewrites(j, l, h) /\ Holding(j, l, h)' /\ merge' = [merge EXCEPT ![b] = NoMerge]
<1>1. /\ Called /\ WorkspaceOK /\ cur[b] \in 1..2 /\ b \in DOMAIN merge
      /\ l \in Nat /\ h \in Nat /\ h <= padded /\ MergingAt(b, l, h)
  BY DEF Underway
<1>2. PICK i \in 1..2 : i = cur[b] /\ i # j /\ j \in 1..2
  BY <1>1 DEF Other
<1>3. PICK m, mf, mg, s : /\ m = merge[b] /\ mf = buf[i] /\ mg = buf[j]
                          /\ s = KeysAt(mf, m.head[1], m.rest[1])
  OBVIOUS
<1>4. RoundFrom(Wanted, padded, mf, mg, m, l, h)
  <2>1. mg \in [1..(2 * padded) -> Keys \cup {Index}]
    BY <1>1, <1>2, <1>3 DEF WorkspaceOK
  <2>2. padded \in Nat
    BY <1>1, PaddedFacts
  <2>3. Merging(Wanted, KeysOf(mf), KeysOf(mg), m, l, h)
    BY <1>1, <1>2, <1>3 DEF MergingAt, Data
  <2> QED  BY <1>1, <2>1, <2>2, <2>3 DEF RoundFrom
<1>5. /\ Len(m.rest) = 1
      /\ buf' = [buf EXCEPT ![j] = WriteAt(mg, 2 * m.out, Pairs(s))]
      /\ merge' = [merge EXCEPT ![b] = NoMerge]
  BY <1>2, <1>3 DEF CopyRest
<1>6. PICK mg2 : mg2 = WriteAt(mg, 2 * m.out, Pairs(s))
  OBVIOUS
<1>7. Changed(padded, mg, mg2, l, h) /\ Holds(Wanted, KeysOf(mg2), l, h)
  BY <1>3, <1>4, <1>5, <1>6, CopyData
<1>8. buf' = [buf EXCEPT ![j] = mg2] /\ buf'[j] = mg2
  <2>1. DOMAIN buf = 1..2
    BY <1>1 DEF WorkspaceOK
  <2> QED  BY <1>2, <1>5, <1>6, <2>1
<1>9. Rewrites(j, l, h)
  BY <1>3, <1>7, <1>8 DEF Rewrites
<1>10. Holding(j, l, h)'
  <2>1. Wanted' = Wanted
    BY WantedKept
  <2> QED  BY <1>7, <1>8, <2>1 DEF Holding, Data
<1> QED  BY <1>5, <1>9, <1>10

-----------------------------------------------------------------------------
(* The runs of a merge *)

\* The runs from first on, w parts each, of t parts; n of them make a group.
RunsOf(t, first, w, n) ==
  /\ t \in Nat /\ first \in Nat /\ first < t /\ w \in Nat \ {0} /\ w < ByteRange
  /\ n = QueueNum(t, w, first)

\* Part p, or the end.
UpToPart(t, p) == Lesser(p, t)

\* Where they begin and end.
RunsBounded(t, first, w, n) ==
  /\ n \in 1..4
  /\ \A i \in 1..n : /\ QueueParts(t, w, first, i) \in 1..w /\ w * (i - 1) \in Nat
                     /\ first + w * (i - 1) < t
                     /\ first + w * (i - 1) + QueueParts(t, w, first, i)
                          = UpToPart(t, first + w * (i - 1) + w)
  /\ UpToPart(t, first + w * n) = UpToPart(t, first + 4 * w)
  /\ first + GroupSize(t, w, first) = UpToPart(t, first + 4 * w)

\* Each run ends where the next one begins, the last one where the group ends.
LEMMA RunBounds ==
  ASSUME TilingAssumption, NEW t, NEW first, NEW w, NEW n, RunsOf(t, first, w, n)
  PROVE  RunsBounded(t, first, w, n)
<1>1. /\ t \in Nat /\ first \in Nat /\ first < t /\ w \in Nat \ {0} /\ w < ByteRange
      /\ n = QueueNum(t, w, first)
  BY DEF RunsOf
<1>2. PICK l : l = LastQueue(t, w, first)
  OBVIOUS
<1>3. PICK g : g = GroupSize(t, w, first)
  OBVIOUS
<1>4. n \in 1..4 /\ l \in 1..w /\ w * (n - 1) + l = g
  BY <1>1, <1>2, <1>3, RunsInside
<1>5. g = IF t - first > 4 * w THEN 4 * w ELSE t - first
  BY <1>3 DEF GroupSize, Lesser
<1>6. n = 1 \/ n = 2 \/ n = 3 \/ n = 4
  BY <1>4
<1>7. \A i \in 1..n : QueueParts(t, w, first, i) = IF i < n THEN w ELSE l
  BY <1>1, <1>2 DEF QueueParts
<1>8. ASSUME NEW i \in 1..n
      PROVE  /\ QueueParts(t, w, first, i) \in 1..w /\ w * (i - 1) \in Nat
             /\ first + w * (i - 1) < t
             /\ first + w * (i - 1) + QueueParts(t, w, first, i)
                  = UpToPart(t, first + w * (i - 1) + w)
  <2>1. PICK q : q = QueueParts(t, w, first, i)
    OBVIOUS
  <2>2. q = IF i < n THEN w ELSE l
    BY <1>7, <2>1
  <2>3. i = 1 \/ i = 2 \/ i = 3 \/ i = 4
    BY <1>4
  <2>4. PICK x : x = w * (i - 1)
    OBVIOUS
  <2>5. x = IF i = 1 THEN 0 ELSE IF i = 2 THEN w ELSE IF i = 3 THEN 2 * w ELSE 3 * w
    BY <1>1, <2>3, <2>4
  <2>6. w * (n - 1) = IF n = 1 THEN 0 ELSE IF n = 2 THEN w ELSE IF n = 3 THEN 2 * w ELSE 3 * w
    BY <1>1, <1>6
  <2>7. q \in 1..w /\ x \in Nat /\ first + x < t
    BY <1>1, <1>4, <1>5, <1>6, <2>2, <2>3, <2>5, <2>6
  <2>8. first + x + q = IF first + x + w > t THEN t ELSE first + x + w
    BY <1>1, <1>4, <1>5, <1>6, <2>2, <2>3, <2>5, <2>6
  <2> QED  BY <2>1, <2>4, <2>7, <2>8 DEF UpToPart, Lesser
<1>9. first + g = UpToPart(t, first + 4 * w)
  BY <1>1, <1>5 DEF UpToPart, Lesser
<1>10. UpToPart(t, first + w * n) = UpToPart(t, first + 4 * w)
  <2>1. w * (n - 1) = IF n = 1 THEN 0 ELSE IF n = 2 THEN w ELSE IF n = 3 THEN 2 * w ELSE 3 * w
    BY <1>1, <1>6
  <2>2. PICK x : x = w * n
    OBVIOUS
  <2>3. x = IF n = 1 THEN w ELSE IF n = 2 THEN 2 * w ELSE IF n = 3 THEN 3 * w ELSE 4 * w
    BY <1>1, <1>6, <2>2
  <2>4. x = 4 * w \/ (first + x >= t /\ first + 4 * w >= t /\ x \in Nat)
    BY <1>1, <1>4, <1>5, <1>6, <2>1, <2>3
  <2>5. UpToPart(t, first + x) = UpToPart(t, first + 4 * w)
    BY <1>1, <2>4 DEF UpToPart, Lesser
  <2> QED  BY <2>2, <2>5
<1> QED  BY <1>3, <1>4, <1>8, <1>9, <1>10 DEF RunsBounded

\* Blocks that follow another begin behind it.
LEMMA OffsetMore ==
  ASSUME Called, NEW b \in 0..blockNum, NEW c \in 0..blockNum, b < c
  PROVE  Offset(b) \in Nat /\ Offset(c) \in Nat /\ Offset(b) < Offset(c)
<1>1. blockNum \in Nat /\ b \in Cores /\ b + 1 \in 0..blockNum /\ c \in (b + 1)..blockNum
      /\ c \in b..blockNum
  BY CallFacts
<1>2. Offset(b + 1) <= Offset(c) /\ Offset(b + 1) \in Nat
  BY <1>1, OffsetGrows
<1>3. Offset(b) \in Nat /\ Offset(c) \in Nat
  BY <1>1, OffsetGrows
<1>4. PICK z \in Nat \ {0} : z = tileNum(b) * TileLength
  BY <1>1, BlockFacts
<1>5. Offset(b + 1) = Offset(b) + z
  BY <1>1, <1>4, BlockFacts
<1> QED  BY <1>2, <1>3, <1>4, <1>5

\* A place between the blocks.
LEMMA OffsetIn ==
  ASSUME Called, NEW b \in 0..blockNum
  PROVE  Offset(b) \in Nat /\ Offset(b) <= padded
<1>1. blockNum \in b..blockNum /\ blockNum \in Nat
  BY CallFacts
<1>2. Offset(b) \in Nat /\ Offset(b) <= Offset(blockNum)
  BY <1>1, OffsetGrows
<1> QED  BY <1>2, PaddedFacts

\* The merge of n runs, w parts each, of the t parts from first on, when P(p) is the
\* element with which part p begins.
Beginning(P, t, first, w, n, h, r) ==
  /\ RunsOf(t, first, w, n)
  /\ \A p \in 0..t : P[p] \in Nat
  /\ \A p \in 0..t, q \in 0..t : p < q => P[p] < P[q]
  /\ h = [i \in 1..n |-> P[first + w * (i - 1)]]
  /\ r = [i \in 1..n |-> P[first + w * (i - 1) + QueueParts(t, w, first, i)]
                            - P[first + w * (i - 1)]]

\* In f are the runs, each sorted.
RunsHeld(S, f, P, t, first, w, n) ==
  \A i \in 1..n : Holds(S, f, P[first + w * (i - 1)], P[UpToPart(t, first + w * (i - 1) + w)])

\* It begins with nothing written.
LEMMA RunsMerging ==
  ASSUME TilingAssumption, NEW S, NEW f, NEW g, NEW P, NEW t, NEW first, NEW w, NEW n, NEW h, NEW r,
         Beginning(P, t, first, w, n, h, r), RunsHeld(S, f, P, t, first, w, n),
         NEW lo, lo = P[first], NEW hi, hi = P[UpToPart(t, first + 4 * w)]
  PROVE  Merging(S, f, g, [head |-> h, rest |-> r, out |-> lo], lo, hi)
<1>1. /\ RunsOf(t, first, w, n)
      /\ \A p \in 0..t : P[p] \in Nat
      /\ \A p \in 0..t, q \in 0..t : p < q => P[p] < P[q]
      /\ h = [i \in 1..n |-> P[first + w * (i - 1)]]
      /\ r = [i \in 1..n |-> P[first + w * (i - 1) + QueueParts(t, w, first, i)]
                               - P[first + w * (i - 1)]]
  BY DEF Beginning
<1>2. t \in Nat /\ first \in Nat /\ first < t /\ w \in Nat \ {0}
  BY <1>1 DEF RunsOf
<1>3. /\ n \in 1..4
      /\ \A i \in 1..n : /\ QueueParts(t, w, first, i) \in 1..w /\ w * (i - 1) \in Nat
                         /\ first + w * (i - 1) < t
                         /\ first + w * (i - 1) + QueueParts(t, w, first, i)
                              = UpToPart(t, first + w * (i - 1) + w)
      /\ UpToPart(t, first + w * n) = UpToPart(t, first + 4 * w)
  BY <1>1, RunBounds DEF RunsBounded
<1> DEFINE p == [i \in 1..(n + 1) |-> P[UpToPart(t, first + w * (i - 1))]]
<1>4. \A i \in 1..(n + 1) : p[i] = P[UpToPart(t, first + w * (i - 1))]
  OBVIOUS
<1>5. p \in [1..(n + 1) -> Nat]
  <2> SUFFICES ASSUME NEW i \in 1..(n + 1) PROVE P[UpToPart(t, first + w * (i - 1))] \in Nat
    OBVIOUS
  <2>1. PICK x : x = w * (i - 1)
    OBVIOUS
  <2>2. i - 1 \in Nat
    BY <1>3
  <2>3. x \in Nat
    BY <1>2, <2>1, <2>2
  <2>4. UpToPart(t, first + x) \in 0..t
    BY <1>2, <2>3 DEF UpToPart, Lesser
  <2> QED  BY <1>1, <2>1, <2>4
<1> HIDE DEF p
<1>6. ASSUME NEW i \in 1..n
      PROVE  /\ h[i] \in Nat /\ r[i] \in Nat /\ h[i] = p[i] /\ h[i] + r[i] = p[i + 1] /\ 1 <= r[i]
             /\ Holds(S, f, p[i], p[i + 1])
  <2>1. PICK x, q : x = w * (i - 1) /\ q = QueueParts(t, w, first, i)
    OBVIOUS
  <2>2. q \in 1..w /\ x \in Nat /\ first + x < t /\ first + x + q = UpToPart(t, first + x + w)
    BY <1>3, <2>1
  <2>3. PICK a, b : a = first + x /\ b = first + x + q
    OBVIOUS
  <2>4. a \in 0..t /\ b \in 0..t /\ a < b /\ UpToPart(t, a) = a /\ b = UpToPart(t, a + w)
    BY <1>2, <2>2, <2>3 DEF UpToPart, Lesser
  <2>5. P[a] \in Nat /\ P[b] \in Nat /\ P[a] < P[b]
    BY <1>1, <2>4
  <2>6. h[i] = P[a] /\ r[i] = P[b] - P[a]
    BY <1>1, <2>1, <2>3
  <2>7. p[i] = P[a]
    <3>1. i \in 1..(n + 1)
      BY <1>3
    <3> QED  BY <1>4, <2>1, <2>3, <2>4, <3>1
  <2>8. p[i + 1] = P[b]
    <3>1. i + 1 \in 1..(n + 1) /\ (i + 1) - 1 = i /\ i \in Nat
      BY <1>3
    <3>2. p[i + 1] = P[UpToPart(t, first + w * ((i + 1) - 1))]
      BY <1>4, <3>1
    <3>3. w * i = x + w
      BY <1>2, <2>1, <3>1
    <3>4. first + w * ((i + 1) - 1) = a + w
      BY <1>2, <2>2, <2>3, <3>1, <3>3
    <3> QED  BY <2>4, <3>2, <3>4
  <2>9. Holds(S, f, P[a], P[b])
    <3>1. Holds(S, f, P[first + w * (i - 1)], P[UpToPart(t, first + w * (i - 1) + w)])
      BY DEF RunsHeld
    <3> QED  BY <2>1, <2>3, <2>4, <3>1
  <2> QED  BY <2>5, <2>6, <2>7, <2>8, <2>9
<1>7. Adjacent(h, r, p, n)
  <2>1. h = [i \in 1..n |-> h[i]] /\ r = [i \in 1..n |-> r[i]]
    BY <1>1
  <2>2. h \in [1..n -> Nat] /\ r \in [1..n -> Nat]
    BY <1>6, <2>1
  <2> QED  BY <1>5, <1>6, <2>2 DEF Adjacent
<1>8. lo = p[1]
  <2>1. w * (1 - 1) = 0 /\ 1 \in 1..(n + 1)
    BY <1>2, <1>3
  <2>2. UpToPart(t, first + 0) = first
    BY <1>2 DEF UpToPart, Lesser
  <2> QED  BY <1>4, <2>1, <2>2
<1>9. hi = p[n + 1]
  <2>1. n + 1 \in 1..(n + 1) /\ (n + 1) - 1 = n
    BY <1>3
  <2> QED  BY <1>3, <1>4, <2>1
<1>10. \A i \in 1..n : Holds(S, f, p[i], p[i + 1])
  BY <1>6
<1> QED  BY <1>3, <1>7, <1>8, <1>9, <1>10, MergeBegins

\* Where the tiles of a block begin.
LEMMA TileStarts ==
  ASSUME Called, NEW b \in Cores, NEW p \in Nat
  PROVE  /\ TileStart(b, p) \in Nat /\ TileStart(b, p) <= Offset(b + 1)
         /\ Offset(b) <= TileStart(b, p) /\ TileStart(b, 0) = Offset(b)
         /\ p >= tileNum(b) => TileStart(b, p) = Offset(b + 1)
         /\ p < tileNum(b) => TileStart(b, p) = Offset(b) + p * TileLength
         /\ \A q \in Nat : /\ p <= q => TileStart(b, p) <= TileStart(b, q)
                           /\ p < q /\ p < tileNum(b) => TileStart(b, p) < TileStart(b, q)
<1>1. PICK t \in Nat \ {0}, L \in Nat \ {0}, o \in Nat :
        /\ t = tileNum(b) /\ L = TileLength /\ o = Offset(b) /\ Offset(b + 1) = o + t * L
  <2>1. tileNum(b) \in Nat \ {0} /\ Offset(b + 1) = Offset(b) + tileNum(b) * TileLength
    BY BlockFacts
  <2>2. TileLength \in Nat \ {0}
    BY CallFacts DEF TilingAssumption
  <2>3. Offset(b) \in Nat
    <3>1. b \in 0..blockNum
      BY CallFacts
    <3> QED  BY <3>1, OffsetIn
  <2> QED  BY <2>1, <2>2, <2>3
<1>2. \A q \in Nat : TileStart(b, q) = o + Lesser(q, t) * L
  BY <1>1 DEF TileStart
<1>3. \A q \in Nat : Lesser(q, t) \in 0..t /\ (q >= t => Lesser(q, t) = t) /\ (q < t => Lesser(q, t) = q)
  BY DEF Lesser
<1>4. \A x \in Nat, y \in Nat : /\ x * L \in Nat /\ (x <= y => x * L <= y * L)
                                /\ (x < y => x * L < y * L)
  <2> SUFFICES ASSUME NEW x \in Nat, NEW y \in Nat
               PROVE  x * L \in Nat /\ (x <= y => x * L <= y * L) /\ (x < y => x * L < y * L)
    OBVIOUS
  <2>1. x * L \in Nat
    OBVIOUS
  <2>2. ASSUME x < y PROVE x * L < y * L
    <3>1. PICK d \in Nat \ {0} : y = x + d
      BY <2>2
    <3>2. y * L = x * L + d * L /\ d * L \in Nat \ {0}
      BY <3>1
    <3> QED  BY <2>1, <3>2
  <2>3. y * L \in Nat /\ (x = y => x * L <= y * L)
    OBVIOUS
  <2> QED  BY <2>1, <2>2, <2>3
<1>5. TileStart(b, 0) = o
  <2>1. Lesser(0, t) = 0 /\ 0 * L = 0
    BY DEF Lesser
  <2> QED  BY <1>2, <2>1
<1>6. PICK u \in 0..t : u = Lesser(p, t)
  BY <1>3
<1>7. TileStart(b, p) = o + u * L /\ u * L \in Nat /\ t * L \in Nat /\ u * L <= t * L
  BY <1>2, <1>4, <1>6
<1>8. ASSUME NEW q \in Nat
      PROVE  /\ p <= q => TileStart(b, p) <= TileStart(b, q)
             /\ p < q /\ p < t => TileStart(b, p) < TileStart(b, q)
  <2>1. PICK v \in 0..t : v = Lesser(q, t)
    BY <1>3
  <2>2. TileStart(b, q) = o + v * L /\ v * L \in Nat
    BY <1>2, <1>4, <2>1
  <2>3. (p <= q => u <= v) /\ (p < q /\ p < t => u < v)
    BY <1>6, <2>1 DEF Lesser
  <2>4. (u <= v => u * L <= v * L) /\ (u < v => u * L < v * L)
    BY <1>4
  <2> QED  BY <1>7, <2>2, <2>3, <2>4
<1>9. (p >= t => u = t) /\ (p < t => u = p)
  BY <1>3, <1>6
<1> QED  BY <1>1, <1>5, <1>7, <1>8, <1>9

\* A core begins to merge a group of runs of its tiles.
LEMMA BlockBegins ==
  ASSUME Called, NEW b \in Cores, NEW w \in Nat \ {0}, w < ByteRange,
         NEW first \in Nat, first < tileNum(b),
         NEW n, n = QueueNum(tileNum(b), w, first),
         NEW base, base = Offset(b) + first * TileLength,
         NEW h, h = [i \in 1..n |-> base + w * (i - 1) * TileLength],
         NEW r, r = [i \in 1..n |-> QueueParts(tileNum(b), w, first, i) * TileLength],
         NEW f, NEW g,
         \A i \in 1..n : Holds(Wanted, f, TileStart(b, first + w * (i - 1)),
                                         TileStart(b, first + w * (i - 1) + w))
  PROVE  Merging(Wanted, f, g, [head |-> h, rest |-> r, out |-> base],
                 TileStart(b, first), TileStart(b, first + 4 * w))
<1>1. TilingAssumption /\ TileLength \in Nat \ {0} /\ tileNum(b) \in Nat \ {0} /\ Offset(b) \in Nat
  <2>1. TilingAssumption /\ b \in 0..blockNum
    BY CallFacts
  <2> QED  BY <2>1, BlockFacts, OffsetIn DEF TilingAssumption
<1>2. PICK t, L, o : t = tileNum(b) /\ L = TileLength /\ o = Offset(b)
  OBVIOUS
<1>3. t \in Nat \ {0} /\ L \in Nat \ {0} /\ o \in Nat
  BY <1>1, <1>2
<1>4. RunsOf(t, first, w, n)
  BY <1>2, <1>3 DEF RunsOf
<1>5. /\ n \in 1..4
      /\ \A i \in 1..n : /\ QueueParts(t, w, first, i) \in 1..w /\ w * (i - 1) \in Nat
                         /\ first + w * (i - 1) < t
                         /\ first + w * (i - 1) + QueueParts(t, w, first, i)
                              = UpToPart(t, first + w * (i - 1) + w)
  <2>1. RunsBounded(t, first, w, n)
    BY <1>1, <1>4, RunBounds
  <2> QED  BY <2>1 DEF RunsBounded
<1> DEFINE P == [p \in 0..t |-> TileStart(b, p)]
<1>6. \A p \in 0..t : P[p] = TileStart(b, p) /\ P[p] \in Nat /\ P[p] = o + p * L
  <2>1. \A p \in 0..t : TileStart(b, p) = o + p * L /\ o + p * L \in Nat
    BY <1>2, <1>3 DEF TileStart, Lesser
  <2> QED  BY <2>1
<1>7. \A p \in Nat : UpToPart(t, p) \in 0..t /\ P[UpToPart(t, p)] = TileStart(b, p)
  <2> SUFFICES ASSUME NEW p \in Nat PROVE UpToPart(t, p) \in 0..t /\ P[UpToPart(t, p)] = TileStart(b, p)
    OBVIOUS
  <2>1. UpToPart(t, p) \in 0..t /\ UpToPart(t, p) = Lesser(p, t)
    BY <1>3 DEF UpToPart, Lesser
  <2>2. P[UpToPart(t, p)] = o + Lesser(p, t) * L
    BY <1>6, <2>1
  <2> QED  BY <1>2, <2>1, <2>2 DEF TileStart
<1> HIDE DEF P
<1>8. \A p \in 0..t, q \in 0..t : p < q => P[p] < P[q]
  <2> SUFFICES ASSUME NEW p \in 0..t, NEW q \in 0..t, p < q PROVE P[p] < P[q]
    OBVIOUS
  <2>1. p \in Nat /\ q \in Nat /\ p < t
    BY <1>3
  <2>2. TileStart(b, p) < TileStart(b, q)
    BY <1>2, <2>1, TileStarts
  <2> QED  BY <1>6, <2>2
<1>9. ASSUME NEW i \in 1..n
      PROVE  /\ base + w * (i - 1) * TileLength = P[first + w * (i - 1)]
             /\ QueueParts(tileNum(b), w, first, i) * TileLength
                  = P[first + w * (i - 1) + QueueParts(t, w, first, i)] - P[first + w * (i - 1)]
             /\ Holds(Wanted, f, P[first + w * (i - 1)], P[UpToPart(t, first + w * (i - 1) + w)])
  <2>1. PICK x, q : x = w * (i - 1) /\ q = QueueParts(t, w, first, i)
    OBVIOUS
  <2>2. q \in 1..w /\ x \in Nat /\ first + x < t /\ first + x + q = UpToPart(t, first + x + w)
    BY <1>5, <2>1
  <2>3. first + x \in 0..t /\ first + x + q \in 0..t /\ q \in Nat
    BY <1>3, <2>2 DEF UpToPart, Lesser
  <2>4. P[first + x] = o + (first + x) * L /\ P[first + x + q] = o + (first + x + q) * L
    BY <1>6, <2>3
  <2>5. first * L \in Nat /\ x * L \in Nat /\ q * L \in Nat
    BY <1>3, <2>2, <2>3
  <2>6. (first + x) * L = first * L + x * L /\ (first + x + q) * L = first * L + x * L + q * L
    BY <1>3, <2>2, <2>3
  <2>7. base + x * L = P[first + x] /\ q * L = P[first + x + q] - P[first + x]
    <3>1. PICK u, v, z : u = first * L /\ v = x * L /\ z = q * L
      OBVIOUS
    <3>2. u \in Nat /\ v \in Nat /\ z \in Nat
      BY <2>5, <3>1
    <3>3. base = o + u
      BY <1>2, <3>1
    <3>4. P[first + x] = o + (u + v) /\ P[first + x + q] = o + (u + v + z)
      BY <2>4, <2>6, <3>1
    <3>5. base + v = P[first + x] /\ z = P[first + x + q] - P[first + x]
      BY <1>3, <3>2, <3>3, <3>4
    <3> QED  BY <3>1, <3>5
  <2>8. P[UpToPart(t, first + x + w)] = TileStart(b, first + x + w) /\ P[first + x] = TileStart(b, first + x)
    <3>1. first + x + w \in Nat
      BY <2>2
    <3> QED  BY <1>6, <1>7, <2>3, <3>1
  <2>9. Holds(Wanted, f, P[first + x], P[UpToPart(t, first + x + w)])
    BY <2>1, <2>8
  <2> QED  BY <1>2, <2>1, <2>7, <2>9
<1>10. Beginning(P, t, first, w, n, h, r)
  <2>1. h = [i \in 1..n |-> P[first + w * (i - 1)]]
    BY <1>9
  <2>2. r = [i \in 1..n |-> P[first + w * (i - 1) + QueueParts(t, w, first, i)]
                              - P[first + w * (i - 1)]]
    BY <1>9
  <2> QED  BY <1>4, <1>6, <1>8, <2>1, <2>2 DEF Beginning
<1>11. RunsHeld(Wanted, f, P, t, first, w, n)
  BY <1>9 DEF RunsHeld
<1>12. base = P[first] /\ base = TileStart(b, first)
  <2>1. first \in 0..t
    BY <1>2, <1>3
  <2> QED  BY <1>2, <1>6, <2>1
<1>13. TileStart(b, first + 4 * w) = P[UpToPart(t, first + 4 * w)]
  <2>1. first + 4 * w \in Nat
    OBVIOUS
  <2> QED  BY <1>7, <2>1
<1> QED  BY <1>1, <1>10, <1>11, <1>12, <1>13, RunsMerging

\* A core begins to merge the runs of blocks it leads.
LEMMA GlobalBegins ==
  ASSUME Called, NEW b \in Cores, NEW w \in Nat \ {0}, w < ByteRange,
         NEW n, n = QueueNum(blockNum, w, b),
         NEW h, h = [i \in 1..n |-> Offset(b + w * (i - 1))],
         NEW r, r = [i \in 1..n |-> Offset(b + w * (i - 1) + QueueParts(blockNum, w, b, i))
                                      - Offset(b + w * (i - 1))],
         NEW f, NEW g,
         \A i \in 1..n : Holds(Wanted, f, Offset(b + w * (i - 1)),
                                         Offset(Lesser(b + w * (i - 1) + w, blockNum)))
  PROVE  Merging(Wanted, f, g, [head |-> h, rest |-> r, out |-> Offset(b)],
                 Offset(b), Offset(Lesser(b + 4 * w, blockNum)))
<1>1. TilingAssumption /\ blockNum \in Nat \ {0} /\ b \in Nat /\ b < blockNum
  BY CallFacts
<1>2. PICK t : t = blockNum
  OBVIOUS
<1>3. RunsOf(t, b, w, n)
  BY <1>1, <1>2 DEF RunsOf
<1>4. /\ n \in 1..4
      /\ \A i \in 1..n : /\ QueueParts(t, w, b, i) \in 1..w /\ w * (i - 1) \in Nat
                         /\ b + w * (i - 1) < t
                         /\ b + w * (i - 1) + QueueParts(t, w, b, i)
                              = UpToPart(t, b + w * (i - 1) + w)
  <2>1. RunsBounded(t, b, w, n)
    BY <1>1, <1>3, RunBounds
  <2> QED  BY <2>1 DEF RunsBounded
<1> DEFINE P == [p \in 0..t |-> Offset(p)]
<1>5. \A p \in 0..t : P[p] = Offset(p) /\ P[p] \in Nat
  <2>1. \A p \in 0..t : Offset(p) \in Nat
    BY <1>2, OffsetIn
  <2> QED  BY <2>1
<1> HIDE DEF P
<1>6. \A p \in 0..t, q \in 0..t : p < q => P[p] < P[q]
  <2> SUFFICES ASSUME NEW p \in 0..t, NEW q \in 0..t, p < q PROVE P[p] < P[q]
    OBVIOUS
  <2>1. Offset(p) < Offset(q)
    BY <1>2, OffsetMore
  <2> QED  BY <1>5, <2>1
<1>7. \A p \in Nat : UpToPart(t, p) \in 0..t /\ UpToPart(t, p) = Lesser(p, t)
  BY <1>1, <1>2 DEF UpToPart, Lesser
<1>8. ASSUME NEW i \in 1..n
      PROVE  /\ Offset(b + w * (i - 1)) = P[b + w * (i - 1)]
             /\ Offset(b + w * (i - 1) + QueueParts(blockNum, w, b, i))
                  = P[b + w * (i - 1) + QueueParts(t, w, b, i)]
             /\ Holds(Wanted, f, P[b + w * (i - 1)], P[UpToPart(t, b + w * (i - 1) + w)])
  <2>1. PICK x, q : x = w * (i - 1) /\ q = QueueParts(t, w, b, i)
    OBVIOUS
  <2>2. q \in 1..w /\ x \in Nat /\ b + x < t /\ b + x + q = UpToPart(t, b + x + w)
    BY <1>4, <2>1
  <2>3. b + x \in 0..t /\ b + x + q \in 0..t
    BY <1>1, <1>2, <2>2 DEF UpToPart, Lesser
  <2>4. P[UpToPart(t, b + x + w)] = Offset(Lesser(b + x + w, blockNum)) /\ P[b + x] = Offset(b + x)
    <3>1. b + x + w \in Nat
      BY <1>1, <2>2
    <3> QED  BY <1>2, <1>5, <1>7, <2>3, <3>1
  <2>5. Holds(Wanted, f, P[b + x], P[UpToPart(t, b + x + w)])
    BY <2>1, <2>4
  <2> QED  BY <1>2, <1>5, <2>1, <2>3, <2>5
<1>9. Beginning(P, t, b, w, n, h, r)
  <2>1. h = [i \in 1..n |-> P[b + w * (i - 1)]]
    BY <1>8
  <2>2. r = [i \in 1..n |-> P[b + w * (i - 1) + QueueParts(t, w, b, i)] - P[b + w * (i - 1)]]
    BY <1>8
  <2> QED  BY <1>3, <1>5, <1>6, <2>1, <2>2 DEF Beginning
<1>10. RunsHeld(Wanted, f, P, t, b, w, n)
  BY <1>8 DEF RunsHeld
<1>11. Offset(b) = P[b]
  BY <1>1, <1>2, <1>5
<1>12. Offset(Lesser(b + 4 * w, blockNum)) = P[UpToPart(t, b + 4 * w)]
  <2>1. b + 4 * w \in Nat
    BY <1>1
  <2> QED  BY <1>2, <1>5, <1>7, <2>1
<1> QED  BY <1>1, <1>9, <1>10, <1>11, <1>12, RunsMerging

-----------------------------------------------------------------------------
(* Sorting the tiles *)

\* A tile is what the tensor, or the padding, has there.
TileOf(b, t, s) ==
  s \in Seq(Keys) /\ Len(s) = TileLength /\ Lies(Wanted, TileStart(b, t), TileStart(b, t + 1), s)

\* CopyIn reads a tile of the tensor, filled up with the padding.
LEMMA CopyInFacts ==
  ASSUME UniqueAssumption, Called, NEW b \in Cores, NEW t \in Nat, t < tileNum(b)
  PROVE  TileOf(b, t, CopyIn(b, t))
<1>1. PICK L \in Nat \ {0}, T \in Nat \ {0}, n \in Nat \ {0}, bn \in Nat \ {0}, o \in Nat, q \in Nat \ {0} :
        L = TileLength /\ T = TileNum(total) /\ n = total /\ bn = blockNum /\ o = Offset(b) /\ q = tileNum(b)
  <2>1. /\ TileLength \in Nat \ {0} /\ total \in Nat \ {0} /\ blockNum \in Nat \ {0}
        /\ b \in 0..blockNum /\ aivNum \in Nat \ {0} /\ TilingAssumption
    BY CallFacts DEF TilingAssumption
  <2>2. Offset(b) \in Nat /\ tileNum(b) \in Nat \ {0}
    BY <2>1, OffsetIn, BlockFacts
  <2>3. TileNum(total) \in Nat \ {0}
    <3>1. total \in (((TileNum(total) - 1) * TileLength) + 1)..(TileNum(total) * TileLength)
      BY <2>1, BlocksPartition
    <3>2. PICK l \in Nat \ {0}, m \in Nat \ {0} : l = TileLength /\ m = total
      BY <2>1
    <3>3. (m + l - 1) \div l \in Nat
      OBVIOUS
    <3>4. TileNum(total) \in Nat
      BY <3>2, <3>3 DEF TileNum
    <3>5. TileNum(total) # 0
      <4>1. SUFFICES ASSUME TileNum(total) = 0 PROVE FALSE
        OBVIOUS
      <4>2. total <= TileNum(total) * TileLength
        BY <2>1, <3>1, <3>2, <3>4
      <4>3. 0 * TileLength = 0
        BY <2>1
      <4> QED  BY <2>1, <4>1, <4>2, <4>3
    <3> QED  BY <3>4, <3>5
  <2> QED  BY <2>1, <2>2, <2>3
<1>2. /\ n \in (((T - 1) * L) + 1)..(T * L) /\ padded = T * L
  <2>1. TilingAssumption /\ total \in Nat \ {0} /\ aivNum \in Nat \ {0}
    BY CallFacts
  <2>2. total \in (((TileNum(total) - 1) * TileLength) + 1)..(TileNum(total) * TileLength)
    BY <2>1, BlocksPartition
  <2> QED  BY <1>1, <2>2 DEF padded
<1>3. PICK v \in Nat : v = (T - 1) * L
  <2>1. PICK u \in Nat : u = T - 1
    OBVIOUS
  <2>2. u * L \in Nat
    OBVIOUS
  <2> QED  BY <2>1, <2>2
<1>4. T * L = v + L /\ n \in (v + 1)..(v + L) /\ padded = v + L
  <2>1. T * L = (T - 1) * L + L
    BY <1>1
  <2> QED  BY <1>2, <1>3, <2>1
<1>5. PICK tail \in 0..(L - 1) : tail = TailLength(total)
  <2>1. n % L \in 0..(L - 1)
    BY <1>1, Division
  <2> QED  BY <1>1, <2>1 DEF TailLength
<1>6. n = IF tail = 0 THEN v + L ELSE v + tail
  <2>1. n = L * (n \div L) + tail /\ n \div L \in Nat
    BY <1>1, <1>5, Division DEF TailLength
  <2>2. PICK d \in Nat : d = n \div L
    BY <2>1
  <2>3. n = d * L + tail
    BY <1>1, <2>1, <2>2
  <2>4. CASE n = v + L
    <3>1. n = T * L + 0
      BY <1>4, <2>4
    <3>2. (T * L + 0) \div L = T
      <4>1. T \in Nat /\ 0 \in 0..(L - 1)
        OBVIOUS
      <4> QED  BY <4>1, Rounded
    <3>3. d = T
      BY <2>2, <3>1, <3>2
    <3>4. T * L = T * L + tail /\ T * L \in Nat
      BY <2>3, <3>1, <3>3
    <3> QED  BY <2>4, <3>4
  <2>5. CASE n # v + L
    <3>1. PICK m \in 1..(L - 1) : n = v + m
      <4>1. n - v \in 1..(L - 1) /\ n = v + (n - v)
        BY <1>1, <1>4, <2>5
      <4> QED  BY <4>1
    <3>2. ((T - 1) * L + m) \div L = T - 1
      <4>1. T - 1 \in Nat /\ m \in 0..(L - 1)
        OBVIOUS
      <4> QED  BY <4>1, Rounded
    <3>3. d = T - 1
      BY <1>1, <1>3, <2>2, <3>1, <3>2
    <3>4. tail = m
      BY <1>3, <2>3, <3>1, <3>3
    <3> QED  BY <3>1, <3>4
  <2> QED  BY <2>4, <2>5
<1>7. PICK a \in Nat : a = o + t * L
  <2>1. t * L \in Nat
    BY <1>1
  <2> QED  BY <2>1
<1>8. TileStart(b, t) = a /\ TileStart(b, t + 1) = a + L
  <2>1. Lesser(t, q) = t /\ Lesser(t + 1, q) = t + 1
    BY <1>1 DEF Lesser
  <2>2. (t + 1) * L = t * L + L /\ t * L \in Nat
    BY <1>1
  <2> QED  BY <1>1, <1>7, <2>1, <2>2 DEF TileStart
<1>9. a + L <= v + L /\ (t # q - 1 \/ b # bn - 1 => a + L <= v) /\ (t = q - 1 /\ b = bn - 1 => a = v)
  <2>1. Offset(b + 1) = o + q * L
    BY <1>1, BlockFacts
  <2>0. PICK y0 \in Nat : y0 = q - 1 - t /\ q = y0 + t + 1
    <3>1. q - 1 - t \in Nat /\ q = (q - 1 - t) + t + 1
      BY <1>1
    <3> QED  BY <3>1
  <2>2. PICK z \in Nat : z = y0 * L
    <3>1. y0 * L \in Nat
      OBVIOUS
    <3> QED  BY <3>1
  <2>3. q * L = z + t * L + L /\ t * L \in Nat
    <3>1. (y0 + t + 1) * L = y0 * L + t * L + L
      OBVIOUS
    <3>2. t * L \in Nat
      OBVIOUS
    <3> QED  BY <2>0, <2>2, <3>1, <3>2
  <2>4. Offset(b + 1) = a + L + z
    BY <1>7, <2>1, <2>3
  <2>5. t # q - 1 => z >= L
    <3> HAVE t # q - 1
    <3>1. PICK y \in Nat : y0 = y + 1
      <4>1. y0 - 1 \in Nat /\ y0 = (y0 - 1) + 1
        BY <2>0
      <4> QED  BY <4>1
    <3>2. z = y * L + L /\ y * L \in Nat
      <4>1. (y + 1) * L = y * L + L /\ y * L \in Nat
        OBVIOUS
      <4> QED  BY <2>2, <3>1, <4>1
    <3> QED  BY <1>1, <3>2
  <2>6. t = q - 1 => z = 0
    <3>1. 0 * L = 0
      OBVIOUS
    <3> QED  BY <2>0, <2>2, <3>1
  <2>7. b \in Nat /\ b < bn /\ b + 1 \in 0..blockNum /\ b + 1 <= bn
    BY <1>1, CallFacts
  <2>8. padded = Offset(blockNum)
    BY PaddedFacts
  <2>9. b = bn - 1 => a + L + z = v + L
    BY <1>1, <1>4, <2>4, <2>7, <2>8
  <2>10. b # bn - 1 => a + L + z <= v
    <3> HAVE b # bn - 1
    <3>1. bn - 1 \in Cores /\ bn - 1 \in (b + 1)..blockNum /\ (bn - 1) + 1 = blockNum
      BY <1>1, <2>7, CallFacts
    <3>2. Offset(b + 1) <= Offset(bn - 1) /\ Offset(bn - 1) \in Nat
      BY <2>7, <3>1, OffsetGrows
    <3>3. PICK y \in Nat \ {0} : y = tileNum(bn - 1)
      BY <3>1, BlockFacts
    <3>4. Offset(blockNum) = Offset(bn - 1) + y * L
      <4>1. Offset((bn - 1) + 1) = Offset(bn - 1) + tileNum(bn - 1) * TileLength
        BY <3>1, BlockFacts
      <4> QED  BY <1>1, <3>1, <3>3, <4>1
    <3>5. y * L >= L /\ y * L \in Nat
      <4>1. y * L = (y - 1) * L + L /\ (y - 1) * L \in Nat
        BY <1>1
      <4> QED  BY <1>1, <4>1
    <3> QED  BY <1>4, <2>4, <2>8, <3>2, <3>4, <3>5
  <2>11. CASE b = bn - 1
    BY <2>5, <2>6, <2>9, <2>11
  <2>12. CASE b # bn - 1
    BY <2>10, <2>12
  <2> QED  BY <2>11, <2>12
<1>10. input \in Seq(Keys) /\ Len(input) = n /\ Inf \in Keys
  BY <1>1 DEF UniqueAssumption, Called, Keys, total
<1>11. PICK c : c = IF t # tileNum(b) - 1 \/ b # blockNum - 1 \/ TailLength(total) = 0
                    THEN TileLength ELSE TailLength(total)
  OBVIOUS
<1>12. c \in 1..L /\ a + c <= n /\ (c < L => a + c = n)
  <2>1. c = IF t # q - 1 \/ b # bn - 1 \/ tail = 0 THEN L ELSE tail
    BY <1>1, <1>5, <1>11
  <2>2. CASE t # q - 1 \/ b # bn - 1
    BY <1>4, <1>9, <2>1, <2>2
  <2>3. CASE ~(t # q - 1 \/ b # bn - 1) /\ tail = 0
    BY <1>4, <1>6, <1>9, <2>1, <2>3
  <2>4. CASE ~(t # q - 1 \/ b # bn - 1) /\ tail # 0
    BY <1>4, <1>6, <1>9, <2>1, <2>4
  <2> QED  BY <2>2, <2>3, <2>4
<1>13. PICK s : s = CopyIn(b, t)
  OBVIOUS
<1>14. s = [k \in 1..L |-> IF k <= c THEN input[a + k] ELSE Inf]
  <2>1. s = [k \in 1..TileLength |->
               IF k <= c THEN input[Offset(b) + t * TileLength + k] ELSE Inf]
    BY <1>11, <1>13 DEF CopyIn
  <2> QED  BY <1>1, <1>7, <2>1
<1>15. ASSUME NEW k \in 1..L
       PROVE  s[k] \in Keys /\ s[k] = Wanted[(a + k) - 1]
  <2>1. PICK e \in Nat : e = (a + k) - 1
    <3>1. (a + k) - 1 \in Nat
      OBVIOUS
    <3> QED  BY <3>1
  <2>2. Wanted[e] = IF e < n THEN input[e + 1] ELSE Inf
    BY <1>1 DEF Wanted
  <2>3. CASE k <= c
    <3>1. e < n /\ e + 1 = a + k /\ a + k \in 1..n
      BY <1>12, <2>1, <2>3
    <3>2. s[k] = input[a + k]
      BY <1>14, <2>3
    <3>3. input[a + k] \in Keys
      BY <1>10, <3>1
    <3> QED  BY <2>1, <2>2, <3>1, <3>2, <3>3
  <2>4. CASE ~(k <= c)
    <3>1. ~(e < n)
      BY <1>12, <2>1, <2>4
    <3>2. s[k] = Inf
      BY <1>14, <2>4
    <3> QED  BY <1>10, <2>1, <2>2, <3>1, <3>2
  <2> QED  BY <2>3, <2>4
<1>16. s \in Seq(Keys) /\ Len(s) = L
  <2>1. s \in [1..L -> Keys]
    <3>1. s = [k \in 1..L |-> s[k]]
      BY <1>14
    <3> QED  BY <1>15, <3>1
  <2> QED  BY <1>1, <2>1, IsSequence
<1>17. Lies(Wanted, a, a + L, s)
  <2>1. ASSUME NEW e \in a..((a + L) - 1) PROVE Wanted[e] = s[(e - a) + 1]
    <3>1. PICK k \in 1..L : k = (e - a) + 1
      <4>1. (e - a) + 1 \in 1..L
        OBVIOUS
      <4> QED  BY <4>1
    <3>2. e = (a + k) - 1
      BY <1>7, <3>1
    <3> QED  BY <1>15, <3>1, <3>2
  <2> QED  BY <1>1, <1>7, <1>16, <2>1 DEF Lies
<1> QED  BY <1>1, <1>8, <1>13, <1>16, <1>17 DEF TileOf

\* A sorted tile is held.
LEMMA SortedHeld ==
  ASSUME UniqueAssumption, NEW s \in Seq(Keys), NEW S, NEW f, NEW lo, NEW hi,
         Lies(S, lo, hi, s), Lies(f, lo, hi, Ascending(s))
  PROVE  Holds(S, f, lo, hi)
<1>1. PICK n \in Nat : n = Len(s)
  OBVIOUS
<1>2. PICK u : u = Ascending(s)
  OBVIOUS
<1>3. u \in Seq(Keys) /\ Len(u) = n /\ Rising(u, 1, n + 1) /\ \A x \in Nat : Upto(u, x) = Upto(s, x)
  BY <1>1, <1>2, AscendingCounts
<1>4. lo \in Int /\ hi \in Int /\ hi - lo = n /\ \A e \in lo..(hi - 1) : f[e] = u[(e - lo) + 1]
  BY <1>2, <1>3 DEF Lies
<1>5. \A e \in lo..(hi - 1) : (e - lo) + 1 \in 1..n
  BY <1>4
<1>6. \A e \in lo..(hi - 1) : f[e] \in Keys /\ f[e] \in Int
  <2>1. \A k \in 1..n : u[k] \in Keys /\ u[k] \in Int
    BY <1>3 DEF Keys
  <2> QED  BY <1>4, <1>5, <2>1
<1>7. ASSUME NEW d \in lo..(hi - 1), NEW e \in lo..(hi - 1), d <= e PROVE f[d] <= f[e]
  <2>1. PICK i \in 1..n, j \in 1..n : i = (d - lo) + 1 /\ j = (e - lo) + 1
    BY <1>5
  <2>2. i <= j
    BY <1>4, <1>7, <2>1
  <2>3. \A p \in 1..n, q \in 1..n : p <= q => u[p] <= u[q]
    BY <1>3 DEF Rising
  <2> QED  BY <1>4, <2>1, <2>2, <2>3
<1>8. InOrder(f, lo, hi)
  BY <1>6, <1>7 DEF InOrder, Rising
<1>9. \A x \in Nat : Num(f, lo, hi, x) = Num(S, lo, hi, x)
  <2> SUFFICES ASSUME NEW x \in Nat PROVE Num(f, lo, hi, x) = Num(S, lo, hi, x)
    OBVIOUS
  <2>1. Num(f, lo, hi, x) = Upto(u, x)
    BY <1>2, NumPlaced
  <2>2. Num(S, lo, hi, x) = Upto(s, x)
    BY NumPlaced
  <2> QED  BY <1>3, <2>1, <2>2
<1> QED  BY <1>8, <1>9 DEF Holds

\* Sequences of m keys each.
Rows(ss, n, m) ==
  /\ ss \in Seq(Seq(Keys)) /\ n \in Nat /\ n = Len(ss) /\ m \in Nat
  /\ \A i \in 1..n : Len(ss[i]) = m

\* The rows one behind the other.
RowsIn(s, ss, n, m) ==
  /\ s \in Seq(Keys) /\ Len(s) = n * m
  /\ \A i \in 1..n : \A j \in 1..m : s[(i - 1) * m + j] = ss[i][j]

\* Rows of one length, one after the other.
LEMMA RowsPlaced ==
  ASSUME NEW ss, NEW n, NEW m, Rows(ss, n, m)
  PROVE  RowsIn(FlattenSeq(ss), ss, n, m)
<1>0. /\ ss \in Seq(Seq(Keys)) /\ n \in Nat /\ n = Len(ss) /\ m \in Nat
      /\ \A i \in 1..n : Len(ss[i]) = m
  BY DEF Rows
<1>1. FlattenSeq(ss) \in Seq(Keys) /\ \E start : Laid(FlattenSeq(ss), start, ss)
  BY <1>0, FlattenPlaces
<1>2. PICK start : Laid(FlattenSeq(ss), start, ss)
  BY <1>1
<1>3. /\ Starts(start, ss) /\ Len(FlattenSeq(ss)) = start[n]
      /\ \A i \in 1..n : \A j \in 1..m : FlattenSeq(ss)[start[i - 1] + j] = ss[i][j]
  BY <1>0, <1>2 DEF Laid
<1>4. \A i \in 0..n : start[i] = i * m
  BY <1>0, <1>3, LevelStarts
<1>5. ASSUME NEW i \in 1..n, NEW j \in 1..m PROVE FlattenSeq(ss)[(i - 1) * m + j] = ss[i][j]
  <2>1. i - 1 \in 0..n
    BY <1>0
  <2>2. start[i - 1] = (i - 1) * m
    BY <1>4, <2>1
  <2> QED  BY <1>3, <2>2
<1>6. Len(FlattenSeq(ss)) = n * m
  BY <1>0, <1>3, <1>4
<1> QED  BY <1>1, <1>5, <1>6 DEF RowsIn

\* The tiles of a block are sorted where they lie.
LEMMA SortTilesData ==
  ASSUME UniqueAssumption, Called, WorkspaceOK, NEW b \in Cores, SortTiles(b)
  PROVE  /\ Rewrites(1, Offset(b), Offset(b + 1))
         /\ \A p \in Nat : p < tileNum(b) => Holding(1, TileStart(b, p), TileStart(b, p + 1))'
<1>1. PICK T, t, L, o, z, mg :
        /\ T = padded /\ t = tileNum(b) /\ L = TileLength /\ o = Offset(b) /\ z = Offset(b + 1)
        /\ mg = buf[1]
  OBVIOUS
<1>2. /\ T \in Nat /\ t \in Nat \ {0} /\ L \in Nat \ {0} /\ o \in Nat /\ z \in Nat /\ z <= T
      /\ z = o + t * L
  <2>1. b \in 0..blockNum /\ b + 1 \in 0..blockNum /\ TilingAssumption
    BY CallFacts
  <2>2. padded \in Nat /\ Offset(b) \in Nat /\ Offset(b + 1) \in Nat /\ Offset(b + 1) <= padded
    BY <2>1, OffsetIn, PaddedFacts
  <2>3. tileNum(b) \in Nat \ {0} /\ Offset(b + 1) = Offset(b) + tileNum(b) * TileLength
    BY BlockFacts
  <2> QED  BY <1>1, <2>1, <2>2, <2>3 DEF TilingAssumption
<1>3. PICK tiles : tiles = [i \in 1..t |-> Ascending(CopyIn(b, i - 1))]
  OBVIOUS
<1>4. PICK s : s = FlattenSeq(tiles)
  OBVIOUS
<1>5. buf' = [buf EXCEPT ![1] = WriteAt(mg, 2 * o, Pairs(s))] /\ UNCHANGED call
  BY <1>1, <1>3, <1>4 DEF SortTiles
<1>6. ASSUME NEW i \in 1..t
      PROVE  /\ TileOf(b, i - 1, CopyIn(b, i - 1))
             /\ tiles[i] \in Seq(Keys) /\ Len(tiles[i]) = L
  <2>1. i - 1 \in Nat /\ i - 1 < tileNum(b)
    BY <1>1, <1>2
  <2>2. TileOf(b, i - 1, CopyIn(b, i - 1))
    BY <2>1, CopyInFacts
  <2>3. PICK c \in Seq(Keys) : c = CopyIn(b, i - 1) /\ Len(c) = L
    BY <1>1, <2>2 DEF TileOf
  <2>4. Ascending(c) \in Seq(Keys) /\ Len(Ascending(c)) = L
    BY <1>2, <2>3, AscendingCounts
  <2> QED  BY <1>3, <2>2, <2>3, <2>4
<1>7. tiles \in Seq(Seq(Keys)) /\ Len(tiles) = t
  <2>1. tiles = [i \in 1..t |-> tiles[i]]
    BY <1>3
  <2>2. tiles \in [1..t -> Seq(Keys)]
    BY <1>6, <2>1
  <2>3. t \in Nat
    BY <1>2
  <2> QED  BY <2>2, <2>3, IsSequence
<1>8. /\ s \in Seq(Keys) /\ Len(s) = t * L
      /\ \A i \in 1..t : \A j \in 1..L : s[(i - 1) * L + j] = tiles[i][j]
  <2>1. Rows(tiles, t, L)
    BY <1>2, <1>6, <1>7 DEF Rows
  <2>2. RowsIn(s, tiles, t, L)
    BY <1>4, <2>1, RowsPlaced
  <2> QED  BY <2>2 DEF RowsIn
<1>9. Storable(T, mg, s, o, t * L)
  <2>1. mg \in [1..(2 * T) -> Keys \cup {Index}]
    BY <1>1 DEF WorkspaceOK
  <2>2. t * L \in Nat
    BY <1>2
  <2> QED  BY <1>2, <1>8, <2>1, <2>2 DEF Storable
<1>10. PICK mg2 : mg2 = WriteAt(mg, 2 * o, Pairs(s))
  OBVIOUS
<1>11. Changed(T, mg, mg2, o, z) /\ Placed(KeysOf(mg2), KeysOf(mg), o, o, s)
  <2>1. o <= o /\ o + t * L <= z
    BY <1>2
  <2> QED  BY <1>2, <1>9, <1>10, <2>1, MergeWritten
<1>12. buf' = [buf EXCEPT ![1] = mg2] /\ buf'[1] = mg2
  <2>1. DOMAIN buf = 1..2
    BY DEF WorkspaceOK
  <2> QED  BY <1>5, <1>10, <2>1
<1>13. Rewrites(1, Offset(b), Offset(b + 1))
  BY <1>1, <1>11, <1>12 DEF Rewrites
<1>14. ASSUME NEW p \in Nat, p < tileNum(b)
       PROVE  Holding(1, TileStart(b, p), TileStart(b, p + 1))'
  <2>1. PICK i \in 1..t : i = p + 1 /\ i - 1 = p
    <3>1. p + 1 \in 1..t /\ (p + 1) - 1 = p
      BY <1>1, <1>2, <1>14
    <3> QED  BY <3>1
  <2>2. PICK c : c = CopyIn(b, p)
    OBVIOUS
  <2>3. c \in Seq(Keys) /\ Len(c) = L /\ Lies(Wanted, TileStart(b, p), TileStart(b, p + 1), c)
    BY <1>1, <1>6, <2>1, <2>2 DEF TileOf
  <2>4. PICK u : u = Ascending(c)
    OBVIOUS
  <2>5. u = tiles[i] /\ Len(u) = L
    <3>1. tiles[i] = Ascending(CopyIn(b, i - 1))
      BY <1>3
    <3> QED  BY <1>6, <2>1, <2>2, <2>4, <3>1
  <2>6. PICK a \in Nat : a = p * L
    BY <1>2
  <2>7. TileStart(b, p) = o + a /\ TileStart(b, p + 1) = o + a + L /\ a + L <= t * L
    <3>1. Lesser(p, t) = p /\ Lesser(p + 1, t) = p + 1
      BY <1>2, <2>1 DEF Lesser
    <3>2. (p + 1) * L = a + L
      BY <1>2, <2>6
    <3>3. (p + 1) * L <= t * L
      <4>1. p + 1 \in Int /\ t \in Int /\ p + 1 <= t /\ L \in Nat
        BY <1>2, <2>1
      <4> QED  BY <4>1, TimesGrows
    <3> QED  BY <1>1, <1>2, <2>6, <3>1, <3>2, <3>3 DEF TileStart
  <2>8. ASSUME NEW e \in (o + a)..((o + a + L) - 1) PROVE KeysOf(mg2)[e] = u[(e - (o + a)) + 1]
    <3>1. PICK j \in 1..L : j = (e - (o + a)) + 1
      <4>1. (e - (o + a)) + 1 \in 1..L
        BY <1>2
      <4> QED  BY <4>1
    <3>2. e \in o..(o + Len(s) - 1) /\ (e - o) + 1 = a + j
      BY <1>2, <1>8, <2>7, <3>1
    <3>3. KeysOf(mg2)[e] = s[a + j]
      BY <1>11, <3>2 DEF Placed
    <3>4. s[(i - 1) * L + j] = tiles[i][j]
      BY <1>8
    <3> QED  BY <2>1, <2>5, <2>6, <3>1, <3>3, <3>4
  <2>9. Lies(KeysOf(mg2), o + a, o + a + L, u)
    BY <1>2, <2>5, <2>8 DEF Lies
  <2>10. Holds(Wanted, KeysOf(mg2), TileStart(b, p), TileStart(b, p + 1))
    BY <2>3, <2>4, <2>7, <2>9, SortedHeld
  <2>11. Wanted' = Wanted /\ TileStart(b, p)' = TileStart(b, p) /\ TileStart(b, p + 1)' = TileStart(b, p + 1)
    BY <1>5, WantedKept, CallKept DEF TileStart
  <2> QED  BY <1>12, <2>10, <2>11 DEF Holding, Data
<1> QED  BY <1>13, <1>14

-----------------------------------------------------------------------------
(* The steps that leave a block alone *)

\* Nothing is written.
LEMMA NothingRewritten ==
  ASSUME Called, WorkspaceOK, UNCHANGED buf, NEW lo, NEW hi
  PROVE  Rewrites(1, lo, hi)
<1>1. buf \in [1..2 -> [1..(2 * padded) -> Keys \cup {Index}]]
  BY DEF WorkspaceOK
<1>2. buf = [buf EXCEPT ![1] = buf[1]]
  BY <1>1
<1>3. Changed(padded, buf[1], buf[1], lo, hi)
  <2>1. buf[1] \in [1..(2 * padded) -> Keys \cup {Index}]
    BY <1>1
  <2> QED  BY <2>1 DEF Changed
<1> QED  BY <1>2, <1>3 DEF Rewrites

\* A step that writes in buffer i, from element lo to before hi, at most.
Writing(i, lo, hi) ==
  /\ Called /\ WorkspaceOK /\ UNCHANGED call
  /\ i \in 1..2 /\ lo \in Nat /\ hi \in Nat /\ Rewrites(i, lo, hi)

\* The part from l to before h lies elsewhere.
Apart(l, h, lo, hi) == l \in Nat /\ h \in Nat /\ h <= padded /\ (h <= lo \/ hi <= l)

\* So what is held there is kept.
LEMMA HeldApart ==
  ASSUME NEW i, NEW lo, NEW hi, Writing(i, lo, hi), NEW j \in 1..2, NEW l, NEW h,
         l \in Nat /\ h \in Nat /\ h <= padded /\ (j # i \/ h <= lo \/ hi <= l), Holding(j, l, h)
  PROVE  Holding(j, l, h)'
<1>1. /\ Called /\ WorkspaceOK /\ UNCHANGED call
      /\ i \in 1..2 /\ lo \in Nat /\ hi \in Nat /\ Rewrites(i, lo, hi)
  BY DEF Writing
<1>2. Spared(j, l, h, i, lo, hi)
  BY <1>1 DEF Spared
<1> QED  BY <1>1, <1>2, HoldingKept

\* And a merge.
LEMMA MergeApart ==
  ASSUME NEW i, NEW lo, NEW hi, Writing(i, lo, hi),
         NEW b, cur[b] \in 1..2, cur'[b] = cur[b], merge'[b] = merge[b],
         NEW l, NEW h, Apart(l, h, lo, hi), MergingAt(b, l, h)
  PROVE  MergingAt(b, l, h)'
<1>1. /\ Called /\ WorkspaceOK /\ UNCHANGED call
      /\ i \in 1..2 /\ lo \in Nat /\ hi \in Nat /\ Rewrites(i, lo, hi)
  BY DEF Writing
<1>2. Spared(i, l, h, i, lo, hi)
  BY <1>1 DEF Spared, Apart
<1> QED  BY <1>1, <1>2, MergingAtKept

\* The runs of a block that a step leaves alone.
RunsSpared(j, b, w, from, to, i, lo, hi) ==
  /\ j \in 1..2 /\ b \in Cores /\ w \in Nat
  /\ \A p \in Nat : Rounds(p, w) /\ from <= p /\ p < to /\ p < tileNum(b) =>
       j # i \/ TileStart(b, p + w) <= lo \/ hi <= TileStart(b, p)

\* The tiles do not move.
LEMMA TilesKept ==
  ASSUME UNCHANGED call
  PROVE  \A b, p : TileStart(b, p)' = TileStart(b, p)
BY CallKept DEF TileStart

\* The runs of a block stay when another part is written.
LEMMA RunsHeldKept ==
  ASSUME NEW i, NEW lo, NEW hi, Writing(i, lo, hi),
         NEW j, NEW b, NEW w, NEW from, NEW to, RunsSpared(j, b, w, from, to, i, lo, hi),
         HeldRuns(j, b, w, from, to)
  PROVE  HeldRuns(j, b, w, from, to)'
<1>1. j \in 1..2 /\ b \in Cores /\ w \in Nat /\ Called /\ UNCHANGED call
  BY DEF RunsSpared, Writing
<1>2. \A p : TileStart(b, p)' = TileStart(b, p)
  BY <1>1, TilesKept
<1>3. tileNum(b)' = tileNum(b)
  BY <1>1, CallKept
<1>4. ASSUME NEW p \in Nat, Rounds(p, w) /\ from <= p /\ p < to /\ p < tileNum(b)
      PROVE  Holding(j, TileStart(b, p), TileStart(b, p + w))'
  <2>1. PICK l, h : l = TileStart(b, p) /\ h = TileStart(b, p + w)
    OBVIOUS
  <2>2. Holding(j, l, h)
    BY <1>4, <2>1 DEF HeldRuns
  <2>3. l \in Nat /\ h \in Nat /\ h <= padded
    <3>1. p + w \in Nat /\ b + 1 \in 0..blockNum
      BY <1>1, CallFacts
    <3>2. Offset(b + 1) <= padded /\ padded \in Nat /\ Offset(b + 1) \in Nat
      BY <1>1, <3>1, OffsetIn, PaddedFacts
    <3>3. l \in Nat /\ h \in Nat /\ h <= Offset(b + 1)
      BY <1>1, <2>1, <3>1, TileStarts
    <3> QED  BY <3>2, <3>3
  <2>4. j # i \/ h <= lo \/ hi <= l
    BY <1>4, <2>1 DEF RunsSpared
  <2>5. Holding(j, l, h)'
    BY <1>1, <2>2, <2>3, <2>4, HeldApart
  <2> QED  BY <1>2, <2>1, <2>5 DEF Holding, Data
<1> QED  BY <1>3, <1>4 DEF HeldRuns

\* What is known of a block after a step.
BlockNow(b, j, w, g, s, m) ==
  /\ UNCHANGED call /\ b \in Cores
  /\ cur'[b] = j /\ bind'[b] = w /\ group'[b] = g /\ merge'[b] = m
  /\ s = IF m = NoMerge THEN g ELSE g - 4 * w

\* The merge of a block after a step.
MergeNow(b, w, s) ==
  /\ w < tileNum(b) /\ s < tileNum(b)
  /\ \E l, h : l = TileStart(b, s) /\ h = TileStart(b, s + 4 * w) /\ MergingAt(b, l, h)'

\* What has to be shown of a core that has taken a step of BlockSort.
LEMMA BlockDataNow ==
  ASSUME NEW b, NEW j, NEW k, NEW w, NEW g, NEW s, NEW m, BlockNow(b, j, w, g, s, m), k = Other(j),
         s \in Nat /\ Rounds(s, 4 * w), HeldRuns(j, b, w, g, tileNum(b))',
         HeldRuns(k, b, 4 * w, 0, s)', m # NoMerge => MergeNow(b, w, s),
         w >= tileNum(b) => g = 0
  PROVE  BlockData(b)'
<1>1. /\ UNCHANGED call
      /\ cur'[b] = j /\ bind'[b] = w /\ group'[b] = g /\ merge'[b] = m
      /\ s = IF m = NoMerge THEN g ELSE g - 4 * w
  BY DEF BlockNow
<1>2. tileNum(b)' = tileNum(b) /\ \A p : TileStart(b, p)' = TileStart(b, p)
  BY <1>1, CallKept, TilesKept
<1>3. GroupStart(b)' = s
  BY <1>1 DEF GroupStart
<1>4. HeldRuns(cur[b], b, bind[b], group[b], tileNum(b))'
  BY <1>1 DEF HeldRuns, Holding, Data
<1>5. HeldRuns(Other(cur[b]), b, 4 * bind[b], 0, GroupStart(b))'
  BY <1>1, <1>3 DEF HeldRuns, Holding, Data, Other
<1>6. merge'[b] # NoMerge =>
        /\ bind'[b] < tileNum(b)' /\ GroupStart(b)' < tileNum(b)'
        /\ MergingAt(b, TileStart(b, GroupStart(b)), TileStart(b, GroupStart(b) + 4 * bind[b]))'
  <2> HAVE merge'[b] # NoMerge
  <2>1. MergeNow(b, w, s)
    BY <1>1
  <2>2. w < tileNum(b) /\ s < tileNum(b)
    BY <2>1 DEF MergeNow
  <2>3. PICK l, h : l = TileStart(b, s) /\ h = TileStart(b, s + 4 * w) /\ MergingAt(b, l, h)'
    BY <2>1 DEF MergeNow
  <2>4. TileStart(b, GroupStart(b))' = l /\ TileStart(b, GroupStart(b) + 4 * bind[b])' = h
    BY <1>1, <1>3, <2>3, <1>2 DEF TileStart
  <2>5. MergingAt(b, TileStart(b, GroupStart(b)), TileStart(b, GroupStart(b) + 4 * bind[b]))'
    BY <2>3, <2>4 DEF MergingAt
  <2> QED  BY <1>1, <1>2, <1>3, <2>2, <2>5
<1> QED  BY <1>1, <1>2, <1>3, <1>4, <1>5, <1>6 DEF BlockData

\* A core whose state a step leaves alone.
SameCore(c) ==
  /\ pc'[c] = pc[c] /\ cur'[c] = cur[c] /\ bind'[c] = bind[c]
  /\ group'[c] = group[c] /\ merge'[c] = merge[c]

\* A block that a step leaves alone.
LEMMA SortingKept ==
  ASSUME NEW i, NEW lo, NEW hi, Writing(i, lo, hi), NEW c \in Cores, SameCore(c),
         cur[c] \in 1..2 /\ bind[c] \in Nat \ {0} /\ group[c] \in Nat,
         Offset(c + 1) <= lo \/ hi <= Offset(c), SortingAt(c)
  PROVE  SortingAt(c)'
<1>1. Called /\ WorkspaceOK /\ UNCHANGED call /\ i \in 1..2 /\ lo \in Nat /\ hi \in Nat
  BY DEF Writing
<1>2. PICK j \in 1..2, k \in 1..2 : j = cur[c] /\ k = Other(j)
  BY DEF Other
<1>3. PICK w \in Nat \ {0}, g \in Nat : w = bind[c] /\ g = group[c]
  OBVIOUS
<1>4. PICK s, m : s = GroupStart(c) /\ m = merge[c]
  OBVIOUS
<1>5. BlockNow(c, j, w, g, s, m)
  BY <1>1, <1>2, <1>3, <1>4 DEF BlockNow, SameCore, GroupStart
<1>6. /\ c \in 0..blockNum /\ c + 1 \in 0..blockNum
      /\ Offset(c) \in Nat /\ Offset(c + 1) \in Nat /\ Offset(c + 1) <= padded /\ padded \in Nat
  <2>1. c \in 0..blockNum /\ c + 1 \in 0..blockNum
    BY <1>1, CallFacts
  <2> QED  BY <1>1, <2>1, OffsetIn, PaddedFacts
<1>7. \A p \in Nat : /\ TileStart(c, p) \in Nat /\ Offset(c) <= TileStart(c, p)
                     /\ TileStart(c, p) <= Offset(c + 1)
  BY <1>1, TileStarts
<1>8. \A d \in Nat : \A from, to : RunsSpared(j, c, d, from, to, i, lo, hi)
                                           /\ RunsSpared(k, c, d, from, to, i, lo, hi)
  <2> SUFFICES ASSUME NEW d \in Nat, NEW p \in Nat
               PROVE  TileStart(c, p + d) <= lo \/ hi <= TileStart(c, p)
    BY <1>2 DEF RunsSpared
  <2>1. p + d \in Nat
    OBVIOUS
  <2>2. /\ TileStart(c, p + d) \in Nat /\ TileStart(c, p + d) <= Offset(c + 1)
        /\ TileStart(c, p) \in Nat /\ Offset(c) <= TileStart(c, p)
    BY <1>7, <2>1
  <2> QED  BY <1>1, <1>6, <2>2
<1>9. ASSUME pc[c] = "block" PROVE BlockData(c)'
  <2>1. BlockData(c)
    BY <1>9 DEF SortingAt
  <2>2. s \in Nat /\ Rounds(s, 4 * w) /\ (w >= tileNum(c) => g = 0)
    BY <1>3, <1>4, <2>1 DEF BlockData
  <2>3. HeldRuns(j, c, w, g, tileNum(c)) /\ HeldRuns(k, c, 4 * w, 0, s)
    BY <1>2, <1>3, <1>4, <2>1 DEF BlockData
  <2>4. HeldRuns(j, c, w, g, tileNum(c))'
    <3>1. PICK t : t = tileNum(c)
      OBVIOUS
    <3>2. tileNum(c)' = t
      BY <1>1, <3>1, CallKept
    <3>3. RunsSpared(j, c, w, g, t, i, lo, hi)
      BY <1>8
    <3>4. HeldRuns(j, c, w, g, t)'
      BY <2>3, <3>1, <3>3, RunsHeldKept
    <3> QED  BY <3>2, <3>4 DEF HeldRuns
  <2>5. HeldRuns(k, c, 4 * w, 0, s)'
    <3>1. 4 * w \in Nat
      OBVIOUS
    <3>2. PICK d \in Nat : d = 4 * w
      BY <3>1
    <3>3. RunsSpared(k, c, d, 0, s, i, lo, hi)
      BY <1>8
    <3>4. HeldRuns(k, c, d, 0, s)'
      BY <2>3, <3>2, <3>3, RunsHeldKept
    <3> QED  BY <3>2, <3>4
  <2>6. ASSUME m # NoMerge PROVE MergeNow(c, w, s)
    <3>1. /\ w < tileNum(c) /\ s < tileNum(c)
          /\ MergingAt(c, TileStart(c, s), TileStart(c, s + 4 * w))
      BY <1>3, <1>4, <2>1, <2>6 DEF BlockData
    <3>2. s + 4 * w \in Nat
      BY <2>2
    <3>3. PICK l, h : l = TileStart(c, s) /\ h = TileStart(c, s + 4 * w)
      OBVIOUS
    <3>4. l \in Nat /\ h \in Nat /\ Offset(c) <= l /\ h <= Offset(c + 1)
      BY <1>7, <2>2, <3>2, <3>3
    <3>5. Apart(l, h, lo, hi)
      BY <1>1, <1>6, <3>4 DEF Apart
    <3>6. MergingAt(c, l, h)'
      BY <3>1, <3>3, <3>5, MergeApart DEF SameCore
    <3> QED  BY <3>1, <3>3, <3>6 DEF MergeNow
  <2> QED  BY <1>2, <1>5, <2>2, <2>4, <2>5, <2>6, BlockDataNow
<1>10. ASSUME pc[c] = "sync1" PROVE Holding(1, Offset(c), Offset(c + 1))'
  <2>1. PICK l, h : l = Offset(c) /\ h = Offset(c + 1)
    OBVIOUS
  <2>2. Holding(1, l, h)
    BY <1>10, <2>1 DEF SortingAt
  <2>3. Holding(1, l, h)'
    BY <1>1, <1>6, <2>1, <2>2, HeldApart
  <2>4. Offset(c)' = l /\ Offset(c + 1)' = h
    BY <1>1, <2>1, CallKept
  <2> QED  BY <2>3, <2>4 DEF Holding
<1> QED  BY <1>9, <1>10 DEF SortingAt, SameCore

-----------------------------------------------------------------------------
(* Sorting a block *)

\* A core that is sorting its block.
SortingFrom(b) ==
  /\ UniqueAssumption /\ BlocksFit /\ UniqueInv /\ WorkspaceOK
  /\ b \in Cores /\ pc[b] \in Sorting /\ SortingAt(b)

\* It writes nothing outside of its block and has its block in order afterwards.
SortingDone(b) ==
  /\ \E i, lo, hi : Writing(i, lo, hi) /\ Offset(b) <= lo /\ hi <= Offset(b + 1)
  /\ pc'[b] \in Sorting => SortingAt(b)'

\* What is known of it.
LEMMA SortingFacts ==
  ASSUME NEW b, SortingFrom(b)
  PROVE  /\ UniqueAssumption /\ BlocksFit /\ UniqueInv /\ WorkspaceOK /\ Called
         /\ b \in Cores /\ SortingAt(b) /\ b \in DOMAIN merge
         /\ cur[b] \in 1..2 /\ bind[b] \in Nat \ {0} /\ group[b] \in Nat
         /\ cur \in [Cores -> 1..2] /\ bind \in [Cores -> Nat \ {0}] /\ group \in [Cores -> Nat]
         /\ pc = [c \in Cores |-> pc[c]]
         /\ pc[b] # "block" => bind[b] = 1 /\ merge[b] = NoMerge
         /\ tileNum(b) \in Nat \ {0} /\ tileNum(b) <= ByteRange
         /\ Offset(b) \in Nat /\ Offset(b + 1) \in Nat /\ Offset(b + 1) <= padded /\ padded \in Nat
         /\ Offset(b) <= Offset(b + 1)
<1>1. /\ UniqueAssumption /\ BlocksFit /\ UniqueInv /\ WorkspaceOK
      /\ b \in Cores /\ SortingAt(b) /\ pc[b] \in Sorting
  BY DEF SortingFrom
<1>2. ControlOK /\ merge = [c \in Cores |-> merge[c]] /\ SortingOK
  BY <1>1 DEF UniqueInv
<1>3. Called
  BY <1>2 DEF ControlOK, Called
<1>4. cur \in [Cores -> 1..2] /\ bind \in [Cores -> Nat \ {0}] /\ group \in [Cores -> Nat]
  BY <1>2 DEF ControlOK
<1>5. pc = [c \in Cores |-> pc[c]]
  BY <1>2 DEF ControlOK
<1>6. pc[b] # "block" => bind[b] = 1 /\ merge[b] = NoMerge
  BY <1>1, <1>2 DEF SortingOK
<1>7. tileNum(b) \in Nat \ {0} /\ tileNum(b) <= ByteRange
  <2>1. tileNum(b) <= ByteRange
    BY <1>1, <1>3 DEF BlocksFit, Called, tileNum, Cores, blockNum, total
  <2> QED  BY <1>1, <1>3, <2>1, BlockFacts
<1>8. /\ Offset(b) \in Nat /\ Offset(b + 1) \in Nat /\ Offset(b + 1) <= padded /\ padded \in Nat
      /\ Offset(b) <= Offset(b + 1)
  <2>1. b \in 0..blockNum /\ b + 1 \in 0..blockNum /\ b + 1 \in b..blockNum
    BY <1>1, <1>3, CallFacts
  <2> QED  BY <1>3, <2>1, OffsetIn, OffsetGrows, PaddedFacts
<1> QED  BY <1>1, <1>2, <1>3, <1>4, <1>5, <1>6, <1>7, <1>8

\* A core sorts its tiles.
LEMMA SortTilesOwn ==
  ASSUME NEW b, SortingFrom(b), SortTiles(b)
  PROVE  SortingDone(b)
<1>1. /\ UniqueAssumption /\ WorkspaceOK /\ Called
      /\ b \in Cores /\ SortingAt(b)
      /\ pc = [c \in Cores |-> pc[c]]
      /\ pc[b] # "block" => bind[b] = 1 /\ merge[b] = NoMerge
      /\ tileNum(b) \in Nat \ {0}
      /\ Offset(b) \in Nat /\ Offset(b + 1) \in Nat
  BY SortingFacts
<1>2. /\ pc[b] = "tiles" /\ UNCHANGED <<call, sorting>>
      /\ pc' = [pc EXCEPT ![b] = IF blockNum = 1 THEN "unique"
                                 ELSE IF tileNum(b) > 1 THEN "block" ELSE "sync1"]
  BY DEF SortTiles
<1>3. pc'[b] = IF blockNum = 1 THEN "unique" ELSE IF tileNum(b) > 1 THEN "block" ELSE "sync1"
  BY <1>1, <1>2
<1>4. cur[b] = 1 /\ group[b] = 0 /\ bind[b] = 1 /\ merge[b] = NoMerge
  BY <1>1, <1>2 DEF SortingAt
<1>5. cur'[b] = 1 /\ group'[b] = 0 /\ bind'[b] = 1 /\ merge'[b] = NoMerge
  BY <1>2, <1>4 DEF sorting
<1>6. /\ Rewrites(1, Offset(b), Offset(b + 1))
      /\ \A p \in Nat : p < tileNum(b) => Holding(1, TileStart(b, p), TileStart(b, p + 1))'
  BY <1>1, SortTilesData
<1>7. Writing(1, Offset(b), Offset(b + 1))
  BY <1>1, <1>2, <1>6 DEF Writing
<1>8. \A p : TileStart(b, p)' = TileStart(b, p)
  BY <1>2, TilesKept
<1>9. ASSUME pc'[b] = "block" PROVE BlockData(b)'
  <2>1. tileNum(b) > 1
    BY <1>3, <1>9
  <2>2. BlockNow(b, 1, 1, 0, 0, NoMerge)
    BY <1>1, <1>2, <1>5 DEF BlockNow
  <2>3. Rounds(0, 4 * 1) /\ 0 \in Nat
    <3>1. 0 = 0 * (4 * 1)
      OBVIOUS
    <3> QED  BY <3>1 DEF Rounds
  <2>4. HeldRuns(1, b, 1, 0, tileNum(b))'
    <3>1. tileNum(b)' = tileNum(b)
      BY <1>2, CallKept
    <3>2. \A p \in Nat : p < tileNum(b) => Holding(1, TileStart(b, p), TileStart(b, p + 1))'
      BY <1>6
    <3> QED  BY <3>1, <3>2 DEF HeldRuns
  <2>5. HeldRuns(2, b, 4 * 1, 0, 0)'
    BY DEF HeldRuns
  <2>6. 2 = Other(1)
    BY DEF Other
  <2> QED  BY <1>1, <2>1, <2>2, <2>3, <2>4, <2>5, <2>6, BlockDataNow
<1>10. ASSUME pc'[b] = "sync1" PROVE Holding(1, Offset(b), Offset(b + 1))'
  <2>1. tileNum(b) = 1
    BY <1>1, <1>3, <1>10
  <2>2. TileStart(b, 0) = Offset(b) /\ TileStart(b, 1) = Offset(b + 1)
    BY <1>1, <2>1, TileStarts
  <2>3. Holding(1, TileStart(b, 0), TileStart(b, 0 + 1))'
    BY <1>6, <2>1
  <2>4. TileStart(b, 0)' = Offset(b)' /\ TileStart(b, 0 + 1)' = Offset(b + 1)'
    <3>1. Offset(b)' = Offset(b) /\ Offset(b + 1)' = Offset(b + 1)
      BY <1>2, CallKept
    <3> QED  BY <1>8, <2>2, <3>1
  <2> QED  BY <2>3, <2>4 DEF Holding
<1>11. pc'[b] \in Sorting => SortingAt(b)'
  BY <1>3, <1>5, <1>9, <1>10 DEF SortingAt
<1>12. Offset(b) <= Offset(b) /\ Offset(b + 1) <= Offset(b + 1)
  BY <1>1
<1> QED  BY <1>7, <1>11, <1>12 DEF SortingDone

\* A block of a core that is in it.
LEMMA BlockFrom ==
  ASSUME NEW b, SortingFrom(b), pc[b] = "block"
  PROVE  /\ BlockData(b) /\ Called /\ WorkspaceOK /\ b \in Cores
         /\ Offset(b) \in Nat /\ Offset(b + 1) \in Nat /\ Offset(b + 1) <= padded /\ padded \in Nat
         /\ tileNum(b) \in Nat \ {0}
         /\ \E j \in 1..2, k \in 1..2, w \in Nat \ {0}, g \in Nat, s \in Nat :
              /\ j = cur[b] /\ k = Other(j) /\ j # k /\ j = Other(k) /\ w = bind[b] /\ g = group[b]
              /\ s = GroupStart(b) /\ Rounds(s, 4 * w)
              /\ HeldRuns(j, b, w, g, tileNum(b)) /\ HeldRuns(k, b, 4 * w, 0, s)
<1>1. /\ Called /\ WorkspaceOK /\ b \in Cores /\ SortingAt(b)
      /\ Offset(b) \in Nat /\ Offset(b + 1) \in Nat /\ Offset(b + 1) <= padded /\ padded \in Nat
      /\ tileNum(b) \in Nat \ {0}
      /\ cur[b] \in 1..2 /\ bind[b] \in Nat \ {0} /\ group[b] \in Nat
  BY SortingFacts
<1>2. BlockData(b)
  BY <1>1 DEF SortingAt
<1>3. Other(cur[b]) \in 1..2 /\ Other(cur[b]) # cur[b] /\ cur[b] = Other(Other(cur[b]))
  BY <1>1 DEF Other
<1>4. GroupStart(b) \in Nat
  BY <1>2 DEF BlockData
<1>5. PICK j \in 1..2, k \in 1..2 : j = cur[b] /\ k = Other(j) /\ j # k /\ j = Other(k)
  BY <1>1, <1>3
<1>6. PICK w \in Nat \ {0}, g \in Nat, s \in Nat : w = bind[b] /\ g = group[b] /\ s = GroupStart(b)
  BY <1>1, <1>4
<1>7. Rounds(s, 4 * w) /\ HeldRuns(j, b, w, g, tileNum(b)) /\ HeldRuns(k, b, 4 * w, 0, s)
  BY <1>2, <1>5, <1>6 DEF BlockData
<1> QED  BY <1>1, <1>2, <1>5, <1>6, <1>7

\* Nothing is written in a step that sets out to merge, or changes the buffers' roles.
LEMMA QuietWriting ==
  ASSUME NEW b, SortingFrom(b), UNCHANGED <<call, buf>>
  PROVE  \E i, lo, hi : Writing(i, lo, hi) /\ Offset(b) <= lo /\ hi <= Offset(b + 1)
<1>1. Called /\ WorkspaceOK /\ Offset(b) \in Nat /\ Offset(b + 1) \in Nat /\ Offset(b) <= Offset(b + 1)
  BY SortingFacts
<1>2. Writing(1, Offset(b), Offset(b))
  BY <1>1, NothingRewritten DEF Writing
<1> QED  BY <1>1, <1>2

\* What a step keeps when nothing is written.
LEMMA RunsQuiet ==
  ASSUME Called, WorkspaceOK, UNCHANGED <<call, buf>>,
         NEW j \in 1..2, NEW b \in Cores, NEW w \in Nat, NEW from, NEW to, HeldRuns(j, b, w, from, to)
  PROVE  HeldRuns(j, b, w, from, to)'
<1>1. Writing(1, 0, 0)
  BY NothingRewritten DEF Writing
<1>2. RunsSpared(j, b, w, from, to, 1, 0, 0)
  <2>1. \A p \in Nat : 0 <= TileStart(b, p)
    BY TileStarts
  <2> QED  BY <2>1 DEF RunsSpared
<1> QED  BY <1>1, <1>2, RunsHeldKept

\* Fewer runs.
LEMMA RunsFewer ==
  ASSUME NEW j, NEW b, NEW w, NEW from \in Nat, NEW to \in Nat, NEW first \in Nat, NEW last \in Nat,
         HeldRuns(j, b, w, from, to), from <= first, last <= to
  PROVE  HeldRuns(j, b, w, first, last)
BY DEF HeldRuns

\* Runs of a group begin at a run.
LEMMA RoundsRun ==
  ASSUME NEW w \in Nat, NEW x \in Nat, NEW i \in Nat, Rounds(x, 4 * w)
  PROVE  Rounds(x + w * i, w) /\ x + w * i \in Nat
<1>1. PICK m \in Nat : x = m * (4 * w)
  BY DEF Rounds
<1>2. PICK q \in Nat : q = 4 * m + i
  OBVIOUS
<1>3. q * w = m * (4 * w) + w * i
  BY <1>2
<1>4. w * i \in Nat
  OBVIOUS
<1> QED  BY <1>1, <1>3, <1>4 DEF Rounds

\* Different runs of d parts begin at least d parts from each other.
LEMMA RoundsApart ==
  ASSUME NEW d \in Nat \ {0}, NEW p \in Nat, NEW s \in Nat, Rounds(p, d), Rounds(s, d), p < s
  PROVE  p + d <= s
<1>1. PICK x \in Nat : p = x * d
  BY DEF Rounds
<1>2. PICK y \in Nat : s = y * d
  BY DEF Rounds
<1>3. x < y
  <2>1. SUFFICES ASSUME y <= x PROVE FALSE
    BY <1>1, <1>2
  <2>2. y * d <= x * d
    BY <2>1, TimesGrows
  <2> QED  BY <1>1, <1>2, <2>2
<1>4. (x + 1) * d <= y * d
  <2>1. x + 1 \in Int /\ y \in Int /\ x + 1 <= y /\ d \in Nat
    BY <1>3
  <2> QED  BY <2>1, TimesGrows
<1>5. (x + 1) * d = p + d
  BY <1>1
<1> QED  BY <1>2, <1>4, <1>5

\* A core sets out to merge a group of its runs.
LEMMA BlockGroupOwn ==
  ASSUME NEW b, SortingFrom(b), BlockGroup(b)
  PROVE  SortingDone(b)
<1>1. /\ pc[b] = "block" /\ merge[b] = NoMerge
      /\ bind[b] < tileNum(b) /\ group[b] < tileNum(b)
      /\ group' = [group EXCEPT ![b] = group[b] + 4 * bind[b]]
      /\ UNCHANGED <<call, buf, pc, cur, bind>>
  BY DEF BlockGroup
<1>2. /\ UniqueAssumption /\ Called /\ WorkspaceOK /\ b \in Cores /\ b \in DOMAIN merge
      /\ b \in DOMAIN group /\ tileNum(b) \in Nat \ {0} /\ tileNum(b) <= ByteRange
  BY SortingFacts
<1>3. PICK j \in 1..2, k \in 1..2, w \in Nat \ {0}, g \in Nat, s0 \in Nat :
        /\ j = cur[b] /\ k = Other(j) /\ j # k /\ j = Other(k) /\ w = bind[b] /\ g = group[b]
        /\ s0 = GroupStart(b) /\ Rounds(s0, 4 * w)
        /\ HeldRuns(j, b, w, g, tileNum(b)) /\ HeldRuns(k, b, 4 * w, 0, s0)
  BY <1>1, BlockFrom
<1>4. s0 = g
  BY <1>1, <1>3 DEF GroupStart
<1>5. PICK n, base : n = QueueNum(tileNum(b), w, g) /\ base = Offset(b) + g * TileLength
  OBVIOUS
<1>6. PICK h, r : /\ h = [i \in 1..n |-> base + w * (i - 1) * TileLength]
                  /\ r = [i \in 1..n |-> QueueParts(tileNum(b), w, g, i) * TileLength]
  OBVIOUS
<1>7. PICK m : m = [head |-> h, rest |-> r, out |-> base]
  OBVIOUS
<1>8. merge' = [merge EXCEPT ![b] = m]
  BY <1>3, <1>5, <1>6, <1>7 DEF BlockGroup
<1>9. merge'[b] = m
  BY <1>2, <1>8
<1>10. w < ByteRange /\ w < tileNum(b) /\ g < tileNum(b)
  <2>1. ByteRange \in Nat
    BY <1>2, CallFacts
  <2> QED  BY <1>1, <1>2, <1>3, <2>1
<1>11. PICK l, e : l = TileStart(b, g) /\ e = TileStart(b, g + 4 * w)
  OBVIOUS
<1>12. Merging(Wanted, Data(j), Data(k), m, l, e)
  <2>1. \A i \in 1..n : Holds(Wanted, Data(j), TileStart(b, g + w * (i - 1)),
                                               TileStart(b, g + w * (i - 1) + w))
    <3> SUFFICES ASSUME NEW i \in 1..n
                 PROVE  Holds(Wanted, Data(j), TileStart(b, g + w * (i - 1)),
                                               TileStart(b, g + w * (i - 1) + w))
      OBVIOUS
    <3>1. RunsBounded(tileNum(b), g, w, n)
      <4>1. RunsOf(tileNum(b), g, w, n)
        BY <1>2, <1>5, <1>10 DEF RunsOf
      <4>2. TilingAssumption
        BY <1>2, CallFacts
      <4> QED  BY <4>1, <4>2, RunBounds
    <3>2. n \in 1..4 /\ w * (i - 1) \in Nat /\ g + w * (i - 1) < tileNum(b)
      BY <3>1 DEF RunsBounded
    <3>3. PICK p \in Nat : p = g + w * (i - 1) /\ Rounds(p, w) /\ g <= p /\ p < tileNum(b)
      <4>1. i - 1 \in Nat
        BY <3>2
      <4>2. PICK q \in Nat : q = i - 1
        BY <4>1
      <4>3. Rounds(g + w * q, w) /\ g + w * q \in Nat
        BY <1>3, <1>4, RoundsRun
      <4>4. g <= g + w * (i - 1)
        BY <3>2
      <4> QED  BY <3>2, <4>2, <4>3, <4>4
    <3>4. Holding(j, TileStart(b, p), TileStart(b, p + w))
      BY <1>3, <3>3 DEF HeldRuns
    <3> QED  BY <3>3, <3>4 DEF Holding
  <2> QED  BY <1>2, <1>5, <1>6, <1>7, <1>10, <1>11, <2>1, BlockBegins
<1>13. m # NoMerge
  <2>1. 1 <= Len(m.rest)
    BY <1>12 DEF Merging
  <2> QED  BY <2>1 DEF NoMerge
<1>14. MergeNow(b, w, g)
  <2>1. Wanted' = Wanted
    BY <1>1, WantedKept
  <2>2. Data(cur[b])' = Data(j) /\ Data(Other(cur[b]))' = Data(k)
    BY <1>1, <1>3 DEF Data
  <2>3. MergingAt(b, l, e)'
    BY <1>9, <1>12, <2>1, <2>2 DEF MergingAt
  <2> QED  BY <1>10, <1>11, <2>3 DEF MergeNow
<1>15. PICK g2 \in Nat : g2 = g + 4 * w
  OBVIOUS
<1>16. BlockNow(b, j, w, g2, g, m)
  <2>1. group'[b] = g2
    BY <1>1, <1>2, <1>3, <1>15
  <2>2. g = g2 - 4 * w
    BY <1>15
  <2> QED  BY <1>1, <1>2, <1>3, <1>9, <1>13, <2>1, <2>2 DEF BlockNow
<1>17. HeldRuns(j, b, w, g2, tileNum(b))'
  <2>1. PICK t \in Nat : t = tileNum(b)
    BY <1>2
  <2>2. HeldRuns(j, b, w, g2, t)
    BY <1>3, <1>15, <2>1, RunsFewer
  <2>3. HeldRuns(j, b, w, g2, t)'
    BY <1>1, <1>2, <2>2, RunsQuiet
  <2>4. tileNum(b)' = t
    BY <1>1, <2>1, CallKept
  <2> QED  BY <2>3, <2>4 DEF HeldRuns
<1>18. HeldRuns(k, b, 4 * w, 0, g)'
  <2>1. PICK d \in Nat : d = 4 * w
    OBVIOUS
  <2>2. HeldRuns(k, b, d, 0, g)'
    BY <1>1, <1>2, <1>3, <1>4, <2>1, RunsQuiet
  <2> QED  BY <2>1, <2>2
<1>19. w >= tileNum(b) => g2 = 0
  BY <1>2, <1>10
<1>20. BlockData(b)'
  BY <1>3, <1>4, <1>14, <1>16, <1>17, <1>18, <1>19, BlockDataNow
<1>21. SortingAt(b)'
  BY <1>1, <1>20 DEF SortingAt
<1> QED  BY <1>1, <1>21, QuietWriting DEF SortingDone

\* A round of a merge in a block.
LEMMA BlockRoundOwn ==
  ASSUME NEW b, SortingFrom(b), pc[b] = "block", MergeRound(b)
  PROVE  SortingDone(b)
<1>1. merge[b] # NoMerge /\ UNCHANGED <<call, pc, cur, bind, group>>
  BY RoundHasMerge
<1>2. /\ UniqueAssumption /\ Called /\ WorkspaceOK /\ b \in Cores /\ b \in DOMAIN merge
      /\ cur[b] \in 1..2
  BY SortingFacts
<1>3. PICK j \in 1..2, k \in 1..2, w \in Nat \ {0}, g \in Nat, s \in Nat :
        /\ j = cur[b] /\ k = Other(j) /\ j # k /\ j = Other(k) /\ w = bind[b] /\ g = group[b]
        /\ s = GroupStart(b) /\ Rounds(s, 4 * w)
        /\ HeldRuns(j, b, w, g, tileNum(b)) /\ HeldRuns(k, b, 4 * w, 0, s)
  BY BlockFrom
<1>4. /\ BlockData(b) /\ Offset(b) \in Nat /\ Offset(b + 1) \in Nat
      /\ Offset(b + 1) <= padded /\ padded \in Nat
  BY BlockFrom
<1>5. PICK l, e : l = TileStart(b, s) /\ e = TileStart(b, s + 4 * w)
  OBVIOUS
<1>6. /\ w < tileNum(b) /\ s < tileNum(b) /\ MergingAt(b, l, e) /\ (w >= tileNum(b) => g = 0)
  BY <1>1, <1>3, <1>4, <1>5 DEF BlockData
<1>7. /\ l \in Nat /\ e \in Nat /\ Offset(b) <= l /\ e <= Offset(b + 1) /\ e <= padded
  <2>1. s + 4 * w \in Nat
    OBVIOUS
  <2>2. l \in Nat /\ e \in Nat /\ Offset(b) <= l /\ e <= Offset(b + 1)
    BY <1>2, <1>5, <2>1, TileStarts
  <2> QED  BY <1>4, <2>2
<1>8. Underway(b, l, e)
  BY <1>2, <1>6, <1>7 DEF Underway
<1>9. /\ Rewrites(Other(cur[b]), l, e) /\ MergingAt(b, l, e)'
      /\ merge' = [merge EXCEPT ![b] = merge'[b]] /\ merge'[b] # NoMerge
  BY <1>2, <1>8, RoundStep
<1>10. Writing(k, l, e)
  BY <1>1, <1>2, <1>3, <1>7, <1>9 DEF Writing
<1>11. PICK m : m = merge'[b] /\ m # NoMerge
  BY <1>9
<1>12. BlockNow(b, j, w, g, s, m)
  <2>1. s = g - 4 * w
    BY <1>1, <1>3 DEF GroupStart
  <2> QED  BY <1>1, <1>2, <1>3, <1>11, <2>1 DEF BlockNow
<1>13. MergeNow(b, w, s)
  BY <1>5, <1>6, <1>9 DEF MergeNow
<1>14. HeldRuns(j, b, w, g, tileNum(b))'
  <2>1. PICK t : t = tileNum(b)
    OBVIOUS
  <2>2. RunsSpared(j, b, w, g, t, k, l, e)
    BY <1>2, <1>3 DEF RunsSpared
  <2>3. HeldRuns(j, b, w, g, t)'
    BY <1>3, <1>10, <2>1, <2>2, RunsHeldKept
  <2>4. tileNum(b)' = t
    BY <1>1, <2>1, CallKept
  <2> QED  BY <2>3, <2>4 DEF HeldRuns
<1>15. HeldRuns(k, b, 4 * w, 0, s)'
  <2>1. PICK d \in Nat \ {0} : d = 4 * w
    OBVIOUS
  <2>2. RunsSpared(k, b, d, 0, s, k, l, e)
    <3> SUFFICES ASSUME NEW p \in Nat, Rounds(p, d), p < s PROVE TileStart(b, p + d) <= l
      BY <1>2 DEF RunsSpared
    <3>4. p + d <= s
      <4>1. Rounds(s, d)
        BY <1>3, <2>1
      <4> QED  BY <4>1, RoundsApart
    <3>5. p + d \in Nat
      OBVIOUS
    <3> QED  BY <1>2, <1>5, <3>4, <3>5, TileStarts
  <2>3. HeldRuns(k, b, d, 0, s)'
    BY <1>3, <1>10, <2>1, <2>2, RunsHeldKept
  <2> QED  BY <2>1, <2>3
<1>16. BlockData(b)'
  BY <1>3, <1>6, <1>12, <1>13, <1>14, <1>15, BlockDataNow
<1>17. SortingAt(b)'
  BY <1>1, <1>16 DEF SortingAt
<1> QED  BY <1>7, <1>10, <1>17 DEF SortingDone

\* The end of a merge in a block.
LEMMA BlockCopyRestOwn ==
  ASSUME NEW b, SortingFrom(b), BlockCopyRest(b)
  PROVE  SortingDone(b)
<1>0. /\ pc[b] = "block" /\ CopyRest(b)
      /\ UNCHANGED <<call, pc, cur, bind, group>>
  BY DEF BlockCopyRest
<1>2. /\ UniqueAssumption /\ Called /\ WorkspaceOK /\ b \in Cores /\ b \in DOMAIN merge
      /\ cur[b] \in 1..2
  BY SortingFacts
<1>1. merge[b] # NoMerge
  BY <1>0, <1>2, CopyEnds
<1>3. PICK j \in 1..2, k \in 1..2, w \in Nat \ {0}, g \in Nat, s \in Nat :
        /\ j = cur[b] /\ k = Other(j) /\ j # k /\ j = Other(k) /\ w = bind[b] /\ g = group[b]
        /\ s = GroupStart(b) /\ Rounds(s, 4 * w)
        /\ HeldRuns(j, b, w, g, tileNum(b)) /\ HeldRuns(k, b, 4 * w, 0, s)
  BY <1>0, BlockFrom
<1>4. /\ BlockData(b) /\ Offset(b) \in Nat /\ Offset(b + 1) \in Nat
      /\ Offset(b + 1) <= padded /\ padded \in Nat
  BY <1>0, BlockFrom
<1>5. PICK l, e : l = TileStart(b, s) /\ e = TileStart(b, s + 4 * w)
  OBVIOUS
<1>6. /\ w < tileNum(b) /\ s < tileNum(b) /\ MergingAt(b, l, e) /\ (w >= tileNum(b) => g = 0)
  BY <1>1, <1>3, <1>4, <1>5 DEF BlockData
<1>7. /\ l \in Nat /\ e \in Nat /\ Offset(b) <= l /\ e <= Offset(b + 1) /\ e <= padded
  <2>1. s + 4 * w \in Nat
    OBVIOUS
  <2>2. l \in Nat /\ e \in Nat /\ Offset(b) <= l /\ e <= Offset(b + 1)
    BY <1>2, <1>5, <2>1, TileStarts
  <2> QED  BY <1>4, <2>2
<1>8. Underway(b, l, e)
  BY <1>2, <1>6, <1>7 DEF Underway
<1>9. Rewrites(k, l, e) /\ Holding(k, l, e)' /\ merge' = [merge EXCEPT ![b] = NoMerge]
  BY <1>0, <1>3, <1>8, CopyStep
<1>10. Writing(k, l, e)
  BY <1>0, <1>2, <1>3, <1>7, <1>9 DEF Writing
<1>11. g = s + 4 * w
  BY <1>1, <1>3 DEF GroupStart
<1>12. BlockNow(b, j, w, g, g, NoMerge)
  BY <1>0, <1>2, <1>3, <1>9 DEF BlockNow
<1>13. PICK d \in Nat \ {0} : d = 4 * w
  OBVIOUS
<1>14. HeldRuns(j, b, w, g, tileNum(b))'
  <2>1. PICK t : t = tileNum(b)
    OBVIOUS
  <2>2. RunsSpared(j, b, w, g, t, k, l, e)
    BY <1>2, <1>3 DEF RunsSpared
  <2>3. HeldRuns(j, b, w, g, t)'
    BY <1>3, <1>10, <2>1, <2>2, RunsHeldKept
  <2>4. tileNum(b)' = t
    BY <1>0, <2>1, CallKept
  <2> QED  BY <2>3, <2>4 DEF HeldRuns
<1>15. HeldRuns(k, b, d, 0, s)'
  <2>2. RunsSpared(k, b, d, 0, s, k, l, e)
    <3> SUFFICES ASSUME NEW p \in Nat, Rounds(p, d), p < s PROVE TileStart(b, p + d) <= l
      BY <1>2 DEF RunsSpared
    <3>1. p + d <= s
      <4>1. Rounds(s, d)
        BY <1>3, <1>13
      <4> QED  BY <4>1, RoundsApart
    <3>2. p + d \in Nat
      OBVIOUS
    <3> QED  BY <1>2, <1>5, <3>1, <3>2, TileStarts
  <2> QED  BY <1>3, <1>10, <1>13, <2>2, RunsHeldKept
<1>16. HeldRuns(k, b, d, 0, g)'
  <2>1. \A p : TileStart(b, p)' = TileStart(b, p)
    BY <1>0, TilesKept
  <2>2. ASSUME NEW p \in Nat, Rounds(p, d), p < g PROVE p < s \/ p = s
    <3>1. SUFFICES ASSUME s < p PROVE FALSE
      OBVIOUS
    <3>2. s + d <= p
      <4>1. Rounds(s, d)
        BY <1>3, <1>13
      <4> QED  BY <2>2, <3>1, <4>1, RoundsApart
    <3> QED  BY <1>11, <1>13, <2>2, <3>2
  <2>3. Holding(k, TileStart(b, s), TileStart(b, s + d))'
    BY <1>5, <1>9, <1>13, <2>1 DEF Holding, Data
  <2> QED  BY <1>15, <2>2, <2>3 DEF HeldRuns
<1>17. Rounds(g, 4 * w)
  <2>1. d = 1 * d
    OBVIOUS
  <2>2. Rounds(d, d)
    BY <2>1 DEF Rounds
  <2>3. Rounds(s + d, d)
    BY <1>3, <1>13, <2>2, RoundsAdd
  <2> QED  BY <1>11, <1>13, <2>3
<1>18. BlockData(b)'
  <2>1. HeldRuns(k, b, 4 * w, 0, g)'
    BY <1>13, <1>16
  <2> QED  BY <1>3, <1>6, <1>12, <1>14, <1>17, <2>1, BlockDataNow
<1>19. SortingAt(b)'
  BY <1>0, <1>18 DEF SortingAt
<1> QED  BY <1>7, <1>10, <1>19 DEF SortingDone

\* The runs of a block are merged: those that come out are four times as long.
LEMMA BlockLevelOwn ==
  ASSUME NEW b, SortingFrom(b), BlockLevel(b)
  PROVE  SortingDone(b)
<1>1. /\ pc[b] = "block" /\ merge[b] = NoMerge
      /\ group[b] >= tileNum(b) /\ bind[b] < tileNum(b)
      /\ cur' = [cur EXCEPT ![b] = Other(cur[b])] /\ bind' = [bind EXCEPT ![b] = 4 * bind[b]]
      /\ group' = [group EXCEPT ![b] = 0]
      /\ UNCHANGED <<call, buf, pc, merge>>
  BY DEF BlockLevel, Switched, Widened
<1>2. /\ Called /\ WorkspaceOK /\ b \in Cores /\ b \in DOMAIN cur /\ b \in DOMAIN bind
      /\ b \in DOMAIN group /\ tileNum(b) \in Nat \ {0}
  BY SortingFacts
<1>3. PICK j \in 1..2, k \in 1..2, w \in Nat \ {0}, g \in Nat, s \in Nat :
        /\ j = cur[b] /\ k = Other(j) /\ j # k /\ j = Other(k) /\ w = bind[b] /\ g = group[b]
        /\ s = GroupStart(b) /\ Rounds(s, 4 * w)
        /\ HeldRuns(j, b, w, g, tileNum(b)) /\ HeldRuns(k, b, 4 * w, 0, s)
  BY <1>1, BlockFrom
<1>4. s = g /\ g >= tileNum(b)
  BY <1>1, <1>3 DEF GroupStart
<1>5. PICK d \in Nat \ {0} : d = 4 * w
  OBVIOUS
<1>6. BlockNow(b, k, d, 0, 0, NoMerge)
  <2>1. cur'[b] = k /\ bind'[b] = d /\ group'[b] = 0
    BY <1>1, <1>2, <1>3, <1>5
  <2> QED  BY <1>1, <1>2, <2>1 DEF BlockNow
<1>7. HeldRuns(k, b, d, 0, tileNum(b))'
  <2>1. PICK t \in Nat : t = tileNum(b)
    BY <1>2
  <2>2. HeldRuns(k, b, d, 0, t)
    BY <1>3, <1>4, <1>5, <2>1, RunsFewer
  <2>3. HeldRuns(k, b, d, 0, t)'
    BY <1>1, <1>2, <2>2, RunsQuiet
  <2>4. tileNum(b)' = t
    BY <1>1, <2>1, CallKept
  <2> QED  BY <2>3, <2>4 DEF HeldRuns
<1>8. HeldRuns(j, b, 4 * d, 0, 0)'
  <2>1. \A p \in Nat : ~(0 <= p /\ p < 0)
    OBVIOUS
  <2> QED  BY <2>1 DEF HeldRuns
<1>9. Rounds(0, 4 * d) /\ 0 \in Nat
  <2>1. 0 = 0 * (4 * d)
    OBVIOUS
  <2> QED  BY <2>1 DEF Rounds
<1>10. BlockData(b)'
  BY <1>3, <1>6, <1>7, <1>8, <1>9, BlockDataNow
<1>11. SortingAt(b)'
  BY <1>1, <1>10 DEF SortingAt
<1> QED  BY <1>1, <1>11, QuietWriting DEF SortingDone

\* The block is in order, and brought back to the first buffer.
LEMMA BlockDoneOwn ==
  ASSUME NEW b, SortingFrom(b), BlockDone(b)
  PROVE  SortingDone(b)
<1>1. /\ pc[b] = "block" /\ merge[b] = NoMerge /\ bind[b] >= tileNum(b)
      /\ IF cur[b] = 2
         THEN buf' = [buf EXCEPT ![1] = WriteAt(buf[1], 2 * Offset(b),
                         Pairs(KeysAt(buf[2], Offset(b), tileNum(b) * TileLength)))]
         ELSE UNCHANGED buf
      /\ cur' = [cur EXCEPT ![b] = 1] /\ pc' = [pc EXCEPT ![b] = "sync1"]
      /\ UNCHANGED <<call, group>>
  BY DEF BlockDone
<1>2. /\ UniqueAssumption /\ Called /\ WorkspaceOK /\ b \in Cores /\ b \in DOMAIN cur /\ b \in DOMAIN pc
      /\ tileNum(b) \in Nat \ {0}
  BY SortingFacts
<1>3. PICK j \in 1..2, k \in 1..2, w \in Nat \ {0}, g \in Nat, s0 \in Nat :
        /\ j = cur[b] /\ k = Other(j) /\ j # k /\ j = Other(k) /\ w = bind[b] /\ g = group[b]
        /\ s0 = GroupStart(b) /\ Rounds(s0, 4 * w)
        /\ HeldRuns(j, b, w, g, tileNum(b)) /\ HeldRuns(k, b, 4 * w, 0, s0)
  BY <1>1, BlockFrom
<1>4. /\ BlockData(b) /\ Offset(b) \in Nat /\ Offset(b + 1) \in Nat
      /\ Offset(b + 1) <= padded /\ padded \in Nat
  BY <1>1, BlockFrom
<1>5. PICK o \in Nat, z \in Nat, T \in Nat, n \in Nat :
        /\ o = Offset(b) /\ z = Offset(b + 1) /\ T = padded /\ n = tileNum(b) * TileLength
        /\ z = o + n /\ z <= T
  <2>1. tileNum(b) * TileLength \in Nat /\ Offset(b + 1) = Offset(b) + tileNum(b) * TileLength
    BY <1>2, BlockFacts
  <2> QED  BY <1>4, <2>1
<1>6. Holding(j, o, z)
  <2>1. g = 0 /\ w >= tileNum(b)
    BY <1>1, <1>3, <1>4 DEF BlockData
  <2>2. TileStart(b, 0) = o /\ TileStart(b, w) = z
    BY <1>2, <1>5, <2>1, TileStarts
  <2>3. Rounds(0, w)
    <3>1. 0 = 0 * w
      OBVIOUS
    <3> QED  BY <3>1 DEF Rounds
  <2>4. Holding(j, TileStart(b, 0), TileStart(b, 0 + w))
    <3>1. 0 \in Nat /\ 0 <= 0 /\ 0 < tileNum(b)
      BY <1>2
    <3> QED  BY <1>3, <2>1, <2>3, <3>1 DEF HeldRuns
  <2>5. 0 + w = w
    OBVIOUS
  <2> QED  BY <2>2, <2>4, <2>5
<1>7. Rewrites(1, o, z) /\ Holding(1, o, z)'
  <2>1. CASE cur[b] # 2
    <3>1. j = 1 /\ UNCHANGED buf
      BY <1>1, <1>3, <2>1
    <3>2. Rewrites(1, o, z) /\ Writing(1, 0, 0)
      BY <1>1, <1>2, <3>1, NothingRewritten DEF Writing
    <3>3. o \in Nat /\ z \in Nat /\ z <= padded /\ 0 <= o
      BY <1>5
    <3>4. Holding(1, o, z)'
      BY <1>6, <3>1, <3>2, <3>3, HeldApart
    <3> QED  BY <3>2, <3>4
  <2>2. CASE cur[b] = 2
    <3>1. PICK mf, mg, s : mf = buf[2] /\ mg = buf[1] /\ s = KeysAt(mf, o, n)
      OBVIOUS
    <3>2. buf' = [buf EXCEPT ![1] = WriteAt(mg, 2 * o, Pairs(s))]
      BY <1>1, <1>5, <2>2, <3>1
    <3>3. Holds(Wanted, KeysOf(mf), o, z)
      BY <1>3, <1>6, <2>2, <3>1 DEF Holding, Data
    <3>4. KeyRun(Keys, mf, o, n, s)
      <4>1. \A e \in o..(z - 1) : KeysOf(mf)[e] \in Keys
        BY <3>3 DEF Holds, InOrder
      <4>2. \A e \in o..(o + n - 1) : KeysOf(mf)[e] \in Keys
        BY <1>5, <4>1
      <4> QED  BY <3>1, <4>2, KeysAtFacts
    <3>5. s \in Seq(Keys) /\ Len(s) = n /\ \A i \in 1..n : s[i] = KeysOf(mf)[(o + i) - 1]
      BY <3>4 DEF KeyRun
    <3>6. Storable(T, mg, s, o, n)
      <4>1. mg \in [1..(2 * T) -> Keys \cup {Index}]
        <5>1. buf \in [1..2 -> [1..(2 * padded) -> Keys \cup {Index}]]
          BY <1>2 DEF WorkspaceOK
        <5>2. buf[1] \in [1..(2 * padded) -> Keys \cup {Index}]
          BY <5>1
        <5> QED  BY <1>5, <3>1, <5>2
      <4> QED  BY <1>5, <3>5, <4>1 DEF Storable
    <3>7. PICK mg2 : mg2 = WriteAt(mg, 2 * o, Pairs(s))
      OBVIOUS
    <3>8. Changed(T, mg, mg2, o, z) /\ Placed(KeysOf(mg2), KeysOf(mg), o, o, s)
      <4>1. o <= o /\ o + n <= z
        BY <1>5
      <4> QED  BY <1>5, <3>6, <3>7, <4>1, MergeWritten
    <3>9. \A e \in o..(z - 1) : KeysOf(mg2)[e] = KeysOf(mf)[e]
      <4> SUFFICES ASSUME NEW e \in o..(z - 1) PROVE KeysOf(mg2)[e] = KeysOf(mf)[e]
        OBVIOUS
      <4>1. e \in o..(o + Len(s) - 1)
        BY <1>5, <3>5
      <4>2. KeysOf(mg2)[e] = s[(e - o) + 1]
        BY <3>8, <4>1 DEF Placed
      <4>3. PICK i \in 1..n : i = (e - o) + 1 /\ e = (o + i) - 1
        <5>1. (e - o) + 1 \in 1..n /\ e = (o + ((e - o) + 1)) - 1
          BY <1>5
        <5> QED  BY <5>1
      <4> QED  BY <3>5, <4>2, <4>3
    <3>10. Holds(Wanted, KeysOf(mg2), o, z)
      BY <3>3, <3>9, HoldsKept
    <3>11. buf' = [buf EXCEPT ![1] = mg2] /\ buf'[1] = mg2
      <4>1. DOMAIN buf = 1..2
        BY <1>2 DEF WorkspaceOK
      <4> QED  BY <3>2, <3>7, <4>1
    <3>12. Wanted' = Wanted
      BY <1>1, WantedKept
    <3>13. Rewrites(1, o, z)
      BY <1>5, <3>1, <3>8, <3>11 DEF Rewrites
    <3>14. Holding(1, o, z)'
      BY <3>10, <3>11, <3>12 DEF Holding, Data
    <3> QED  BY <3>13, <3>14
  <2> QED  BY <2>1, <2>2
<1>8. Writing(1, o, z)
  BY <1>1, <1>2, <1>7 DEF Writing
<1>9. cur'[b] = 1 /\ pc'[b] = "sync1"
  BY <1>1, <1>2
<1>10. Offset(b)' = o /\ Offset(b + 1)' = z
  BY <1>1, <1>5, CallKept
<1>11. SortingAt(b)'
  BY <1>7, <1>9, <1>10 DEF SortingAt, Holding
<1>12. Offset(b) <= o /\ z <= Offset(b + 1)
  BY <1>5
<1> QED  BY <1>8, <1>11, <1>12 DEF SortingDone

-----------------------------------------------------------------------------
(* Sorted together *)

\* A memory that holds the keys of the tensor and the padding in order is the sorted
\* tensor.
LEMMA SortedKeys ==
  ASSUME UniqueAssumption, Called, NEW m, Holds(Wanted, KeysOf(m), 0, padded)
  PROVE  KeysAt(m, 0, padded) = Ascending(input \o [i \in 1..(padded - total) |-> Inf])
<1>1. PICK T \in Nat, n \in Nat : T = padded /\ n = total /\ n <= T
  <2>1. padded \in Nat /\ total \in Nat /\ total <= padded
    BY PaddedFacts, CallFacts
  <2> QED  BY <2>1
<1>2. Inf \in Nat \ {0} /\ Keys = 1..Inf /\ input \in Seq(Keys) /\ Len(input) = n
  BY <1>1 DEF UniqueAssumption, Called, Keys, total
<1>3. PICK q : q = [i \in 1..(T - n) |-> Inf]
  OBVIOUS
<1>4. q \in Seq(Keys) /\ Len(q) = T - n /\ \A i \in 1..(T - n) : q[i] = Inf
  <2>1. T - n \in Nat /\ q \in [1..(T - n) -> Keys]
    BY <1>1, <1>2, <1>3
  <2> QED  BY <1>3, <2>1, IsSequence
<1>5. PICK s : s = input \o q
  OBVIOUS
<1>6. /\ s \in Seq(Keys) /\ Len(s) = T
      /\ \A i \in 1..n : s[i] = input[i]
      /\ \A i \in 1..(T - n) : s[n + i] = q[i]
  <2>1. PICK c \in Seq(Keys), d \in Seq(Keys) : c = input /\ d = q
    BY <1>2, <1>4
  <2>2. /\ c \o d \in Seq(Keys) /\ Len(c \o d) = Len(c) + Len(d)
        /\ \A i \in 1..Len(c) : (c \o d)[i] = c[i]
        /\ \A i \in 1..Len(d) : (c \o d)[Len(c) + i] = d[i]
    BY Concatenated
  <2>3. Len(c) = n /\ Len(d) = T - n /\ s = c \o d
    BY <1>2, <1>4, <1>5, <2>1
  <2>4. Len(s) = T
    BY <1>1, <2>2, <2>3
  <2> QED  BY <2>1, <2>2, <2>3, <2>4
<1>7. Lies(Wanted, 0, T, s)
  <2>1. ASSUME NEW e \in 0..(T - 1) PROVE Wanted[e] = s[(e - 0) + 1]
    <3>1. Wanted[e] = IF e < n THEN input[e + 1] ELSE Inf
      BY <1>1 DEF Wanted
    <3>2. CASE e < n
      <4>1. e + 1 \in 1..n /\ (e - 0) + 1 = e + 1
        BY <3>2
      <4> QED  BY <1>6, <3>1, <3>2, <4>1
    <3>3. CASE ~(e < n)
      <4>1. PICK i \in 1..(T - n) : n + i = (e - 0) + 1
        <5>1. (e + 1) - n \in 1..(T - n) /\ n + ((e + 1) - n) = (e - 0) + 1
          BY <1>1, <3>3
        <5> QED  BY <5>1
      <4> QED  BY <1>4, <1>6, <3>1, <3>3, <4>1
    <3> QED  BY <3>2, <3>3
  <2>2. T - 0 = Len(s)
    BY <1>6
  <2> QED  BY <1>6, <2>1, <2>2 DEF Lies
<1>8. PICK f : f = KeysOf(m)
  OBVIOUS
<1>9. /\ \A e \in 0..(T - 1) : f[e] \in Keys
      /\ Rising(f, 0, T)
      /\ \A x \in Nat : Num(f, 0, T, x) = Upto(s, x)
  <2>1. InOrder(f, 0, T) /\ \A x \in Nat : Num(f, 0, T, x) = Num(Wanted, 0, T, x)
    BY <1>1, <1>8 DEF Holds
  <2>2. \A x \in Nat : Num(Wanted, 0, T, x) = Upto(s, x)
    BY <1>7, NumPlaced
  <2> QED  BY <2>1, <2>2 DEF InOrder
<1>10. PICK u, v : u = KeysAt(m, 0, T) /\ v = Ascending(s)
  OBVIOUS
<1>11. u \in Seq(Keys) /\ Len(u) = T /\ \A i \in 1..T : u[i] = f[i - 1]
  <2>1. \A e \in 0..(0 + T - 1) : KeysOf(m)[e] \in Keys
    BY <1>8, <1>9
  <2>2. KeyRun(Keys, m, 0, T, u)
    BY <1>10, <2>1, KeysAtFacts
  <2>3. \A i \in 1..T : (0 + i) - 1 = i - 1
    OBVIOUS
  <2> QED  BY <1>8, <2>2, <2>3 DEF KeyRun
<1>12. v \in Seq(Keys) /\ Len(v) = T /\ \A p \in 1..T : \A x \in Nat : v[p] <= x <=> p <= Upto(s, x)
  <2>1. s \in Seq(0..Inf)
    <3>1. \A i \in 1..Len(s) : s[i] \in 0..Inf
      <4>1. \A i \in 1..Len(s) : s[i] \in Keys
        BY <1>6
      <4> QED  BY <1>2, <4>1
    <3> QED  BY <1>6, <3>1, Retyped
  <2>2. \A p \in 1..Len(s) : \A x \in Nat : Ascending(s)[p] <= x <=> p <= Upto(s, x)
    BY <1>2, <2>1, AscendingFacts
  <2>3. Ascending(s) \in Seq(Keys) /\ Len(Ascending(s)) = T
    BY <1>6, AscendingCounts
  <2> QED  BY <1>6, <1>10, <2>2, <2>3
<1>13. ASSUME NEW p \in 1..T PROVE u[p] = v[p]
  <2>1. PICK e \in 0..(T - 1) : e = p - 1
    OBVIOUS
  <2>2. u[p] = f[e] /\ u[p] \in Nat /\ v[p] \in Nat
    <3>1. u[p] = f[e]
      BY <1>11, <2>1
    <3>2. u[p] \in Keys /\ v[p] \in Keys
      BY <1>9, <1>12, <3>1
    <3> QED  BY <1>2, <3>1, <3>2
  <2>3. ASSUME NEW x \in Nat PROVE u[p] <= x <=> v[p] <= x
    <3>1. f[e] <= x <=> e - 0 < Num(f, 0, T, x)
      <4>1. x \in Int /\ 0 \in Int /\ T \in Int /\ 0 <= T
        OBVIOUS
      <4> QED  BY <1>9, <4>1, RisingFirst
    <3>2. Num(f, 0, T, x) = Upto(s, x) /\ Num(f, 0, T, x) \in Nat
      <4>1. 0 \in Int /\ T \in Int /\ 0 <= T
        OBVIOUS
      <4> QED  BY <1>9, <4>1, NumBound
    <3>3. v[p] <= x <=> p <= Upto(s, x)
      BY <1>12
    <3> QED  BY <2>1, <2>2, <3>1, <3>2, <3>3
  <2>4. u[p] <= v[p] /\ v[p] <= u[p]
    BY <2>2, <2>3
  <2> QED  BY <2>2, <2>4
<1>14. u = v
  BY <1>11, <1>12, <1>13, SameSeq
<1> QED  BY <1>1, <1>3, <1>5, <1>10, <1>14

\* When all cores look at a buffer that holds it, they are sorted together.
LEMMA SortedNow ==
  ASSUME UniqueAssumption, Called, UNCHANGED call, NEW j,
         \A b \in Cores : cur'[b] = j, Holding(j, 0, padded)'
  PROVE  SortedTogether'
<1>1. PICK m : m = buf'[j]
  OBVIOUS
<1>2. Wanted' = Wanted /\ padded' = padded /\ Cores' = Cores /\ input' = input /\ total' = total
  BY WantedKept, CallKept DEF total
<1>3. Holds(Wanted, KeysOf(m), 0, padded)
  BY <1>1, <1>2 DEF Holding, Data
<1>4. KeysAt(m, 0, padded) = Ascending(input \o [i \in 1..(padded - total) |-> Inf])
  BY <1>3, SortedKeys
<1>5. 0 \in Cores
  BY CallFacts
<1>6. cur'[0] = j /\ \A b \in Cores : cur'[b] = cur'[0]
  BY <1>5
<1> QED  BY <1>1, <1>2, <1>4, <1>6 DEF SortedTogether

-----------------------------------------------------------------------------
(* A core changes its own state *)

\* A step leaves the state of the other cores alone.
Alone(b) ==
  /\ UNCHANGED call
  /\ \A c \in Cores : c # b =>
       SameCore(c) /\ waits'[c] = waits[c] /\ eventID'[c] = eventID[c]

\* Where it is kept.
LEMMA Kept ==
  ASSUME NEW b, NEW f, NEW g, NEW S, f = [c \in S |-> f[c]],
         g = f \/ \E x : g = [f EXCEPT ![b] = x]
  PROVE  \A c \in S : c # b => g[c] = f[c]
OBVIOUS

\* A step of core b changes what is kept for b and for no other core.
LEMMA StepAlone ==
  ASSUME UniqueInv, NEW b \in Cores, Step(b)
  PROVE  Alone(b)
<1>1. /\ pc = [c \in Cores |-> pc[c]] /\ cur = [c \in Cores |-> cur[c]]
      /\ bind = [c \in Cores |-> bind[c]] /\ group = [c \in Cores |-> group[c]]
      /\ merge = [c \in Cores |-> merge[c]] /\ waits = [c \in Cores |-> waits[c]]
      /\ eventID = [c \in Cores |-> eventID[c]]
  BY DEF UniqueInv, ControlOK
<1> DEFINE Own(f, g) == g = f \/ \E x : g = [f EXCEPT ![b] = x]
<1>2. /\ UNCHANGED call
      /\ Own(pc, pc') /\ Own(cur, cur') /\ Own(bind, bind') /\ Own(group, group')
      /\ Own(merge, merge') /\ Own(waits, waits') /\ Own(eventID, eventID')
  <2>1. CASE SortTiles(b)
    BY <2>1 DEF SortTiles, sorting
  <2>2. CASE BlockGroup(b)
    BY <2>2 DEF BlockGroup
  <2>3. CASE BlockCopyRest(b)
    BY <2>3 DEF BlockCopyRest, CopyRest
  <2>4. CASE BlockLevel(b)
    BY <2>4 DEF BlockLevel, Switched, Widened
  <2>5. CASE BlockDone(b)
    BY <2>5 DEF BlockDone
  <2>6. CASE MergeRound(b)
    BY <2>6 DEF MergeRound
  <2>7. CASE GlobalSignal(b)
    BY <2>7 DEF GlobalSignal, NextLevel, Switched, Widened
  <2>8. CASE GlobalPass(b)
    BY <2>8 DEF GlobalPass, NextLevel, Switched, Widened
  <2>9. CASE GlobalWait(b)
    BY <2>9 DEF GlobalWait
  <2>10. CASE GlobalMerge(b)
    BY <2>10 DEF GlobalMerge
  <2>11. CASE GlobalCopyRest(b)
    BY <2>11 DEF GlobalCopyRest, CopyRest, NextLevel, Switched, Widened
  <2>12. CASE TileUnique(b)
    BY <2>12 DEF TileUnique, sorting
  <2>13. CASE Chain(b)
    BY <2>13 DEF Chain, sorting
  <2>14. CASE CopyOut(b)
    BY <2>14 DEF CopyOut, sorting
  <2> QED  BY <2>1, <2>2, <2>3, <2>4, <2>5, <2>6, <2>7, <2>8, <2>9, <2>10, <2>11, <2>12, <2>13,
              <2>14 DEF Step
<1>3. \A c \in Cores : c # b => /\ pc'[c] = pc[c] /\ cur'[c] = cur[c] /\ bind'[c] = bind[c]
                                /\ group'[c] = group[c] /\ merge'[c] = merge[c]
                                /\ waits'[c] = waits[c] /\ eventID'[c] = eventID[c]
  BY <1>1, <1>2, Kept
<1> QED  BY <1>2, <1>3 DEF Alone, SameCore

-----------------------------------------------------------------------------
(* The cores that sort their blocks *)

\* Which steps they have.
LEMMA SortingHas ==
  ASSUME UniqueInv, NEW b \in Cores, pc[b] \in Sorting, Step(b)
  PROVE  \/ SortTiles(b) \/ BlockGroup(b) \/ BlockCopyRest(b) \/ BlockLevel(b) \/ BlockDone(b)
         \/ pc[b] = "block" /\ MergeRound(b)
<1>1. pc[b] # "global" /\ pc[b] # "unique" /\ pc[b] # "chain" /\ pc[b] # "copy"
  BY DEF Sorting
<1>2. MergeRound(b) => pc[b] = "block"
  BY RoundHasMerge DEF UniqueInv, SortingOK
<1> QED  BY <1>1, <1>2 DEF Step, GlobalSignal, GlobalPass, GlobalWait, GlobalMerge, GlobalCopyRest,
                           TileUnique, Chain, CopyOut

\* Each does its part.
LEMMA SortingOwn ==
  ASSUME NEW b, SortingFrom(b), Step(b)
  PROVE  SortingDone(b)
<1>1. UniqueInv /\ b \in Cores /\ pc[b] \in Sorting
  BY DEF SortingFrom
<1>2. \/ SortTiles(b) \/ BlockGroup(b) \/ BlockCopyRest(b) \/ BlockLevel(b) \/ BlockDone(b)
      \/ pc[b] = "block" /\ MergeRound(b)
  BY <1>1, SortingHas
<1> QED  BY <1>2, SortTilesOwn, BlockGroupOwn, BlockCopyRestOwn, BlockLevelOwn, BlockDoneOwn,
            BlockRoundOwn

\* What is in the workspace while the cores sort.
LEMMA SortingStepData ==
  ASSUME UniqueAssumption, BlocksFit, UniqueInv, DataOK, NEW b \in Cores, pc[b] \in Sorting,
         Step(b), NEW c \in Cores
  PROVE  /\ WorkspaceOK'
         /\ pc'[c] \in Sorting => SortingAt(c)'
<1>1. \A d \in Cores : pc[d] \in Sorting /\ SortingAt(d)
  <2>1. \A d \in Cores : pc[d] \in Sorting
    BY OnePhase
  <2> QED  BY <2>1 DEF DataOK, SortingData
<1>2. WorkspaceOK
  BY <1>1 DEF DataOK
<1>3. SortingFrom(b)
  BY <1>1, <1>2 DEF SortingFrom
<1>4. SortingDone(b)
  BY <1>3, SortingOwn
<1>5. PICK i, lo, hi : Writing(i, lo, hi) /\ Offset(b) <= lo /\ hi <= Offset(b + 1)
  BY <1>4 DEF SortingDone
<1>6. Called /\ UNCHANGED call /\ i \in 1..2 /\ lo \in Nat /\ hi \in Nat /\ Rewrites(i, lo, hi)
  BY <1>5 DEF Writing
<1>7. WorkspaceOK'
  BY <1>2, <1>6, WorkspaceKept
<1>8. CASE c = b
  BY <1>4, <1>7, <1>8 DEF SortingDone
<1>9. CASE c # b
  <2>1. SameCore(c) /\ SortingAt(c)
    BY <1>1, <1>9, StepAlone DEF Alone
  <2>2. cur[c] \in 1..2 /\ bind[c] \in Nat \ {0} /\ group[c] \in Nat
    BY DEF UniqueInv, ControlOK
  <2>3. Offset(c + 1) <= lo \/ hi <= Offset(c)
    <3>1. /\ b \in Nat /\ c \in Nat /\ b \in 0..blockNum /\ c \in 0..blockNum
          /\ b + 1 \in 0..blockNum /\ c + 1 \in 0..blockNum
      BY <1>6, CallFacts
    <3>2. /\ Offset(b) \in Nat /\ Offset(b + 1) \in Nat
          /\ Offset(c) \in Nat /\ Offset(c + 1) \in Nat
      BY <1>6, <3>1, OffsetIn
    <3>3. CASE c < b
      <4>1. b \in (c + 1)..blockNum
        BY <3>1, <3>3
      <4>2. Offset(c + 1) <= Offset(b)
        BY <1>6, <3>1, <4>1, OffsetGrows
      <4> QED  BY <1>5, <1>6, <3>2, <4>2
    <3>4. CASE b < c
      <4>1. c \in (b + 1)..blockNum
        BY <3>1, <3>4
      <4>2. Offset(b + 1) <= Offset(c)
        BY <1>6, <3>1, <4>1, OffsetGrows
      <4> QED  BY <1>5, <1>6, <3>2, <4>2
    <3> QED  BY <1>9, <3>1, <3>3, <3>4
  <2>4. SortingAt(c)'
    BY <1>5, <2>1, <2>2, <2>3, SortingKept
  <2> QED  BY <1>7, <2>4
<1> QED  BY <1>8, <1>9

\* Where a core goes that sorts: only a core alone goes on without the others.
LEMMA SortingGoes ==
  ASSUME UniqueInv, NEW b \in Cores, pc[b] \in Sorting, Step(b)
  PROVE  \/ pc'[b] \in Sorting
         \/ SortTiles(b) /\ blockNum = 1 /\ pc'[b] = "unique"
<1>1. pc = [c \in Cores |-> pc[c]]
  BY DEF UniqueInv, ControlOK
<1>2. CASE SortTiles(b)
  <2>1. pc'[b] = IF blockNum = 1 THEN "unique" ELSE IF tileNum(b) > 1 THEN "block" ELSE "sync1"
    BY <1>1, <1>2 DEF SortTiles
  <2> QED  BY <1>2, <2>1 DEF Sorting
<1>3. CASE BlockDone(b)
  <2>1. pc'[b] = "sync1"
    BY <1>1, <1>3 DEF BlockDone
  <2> QED  BY <2>1 DEF Sorting
<1>4. CASE BlockGroup(b) \/ BlockCopyRest(b) \/ BlockLevel(b) \/ MergeRound(b)
  <2>1. pc' = pc
    BY <1>4, RoundHasMerge DEF BlockGroup, BlockCopyRest, BlockLevel
  <2> QED  BY <2>1
<1> QED  BY <1>2, <1>3, <1>4, SortingHas

\* A tensor of one block has a single tile.
LEMMA OneTile ==
  ASSUME UniqueAssumption, Called, blockNum = 1
  PROVE  Cores = {0} /\ tileNum(0) \in Nat \ {0} /\ TileStart(0, 0) = 0 /\ TileStart(0, 1) = padded
<1>1. /\ TileLength \in Nat \ {0} /\ blockNum \in Nat /\ Cores = 0..(blockNum - 1)
      /\ aivNum \in Nat /\ total \in Nat \ {0}
  BY CallFacts DEF TilingAssumption
<1>2. Cores = {0} /\ 0 \in Cores
  BY <1>1
<1>3. tileNum(0) \in Nat \ {0} /\ Offset(0) = 0
  BY <1>2, BlockFacts
<1>4. aivNum >= 2
  BY DEF UniqueAssumption, Called
<1>5. TileNum(total) = 1
  BY <1>1, <1>4 DEF blockNum, BlockNum
<1>6. padded = TileLength
  BY <1>1, <1>5 DEF padded
<1>7. Lesser(1, tileNum(0)) = 1 /\ Lesser(0, tileNum(0)) = 0
  BY <1>3 DEF Lesser
<1>8. TileStart(0, 0) = 0 * TileLength /\ TileStart(0, 1) = 1 * TileLength
  <2>1. 0 * TileLength \in Nat /\ 1 * TileLength \in Nat
    BY <1>1
  <2> QED  BY <1>3, <1>7, <2>1 DEF TileStart
<1> QED  BY <1>1, <1>2, <1>3, <1>6, <1>8

\* A step of a core that sorts.
LEMMA SortingKeepsData ==
  ASSUME UniqueAssumption, BlocksFit, UniqueInv, DataOK, NEW b \in Cores, pc[b] \in Sorting, Step(b)
  PROVE  DataOK'
<1>1. UNCHANGED call /\ Cores' = Cores /\ Called
  BY StepAlone, CallKept DEF Alone, UniqueInv, ControlOK, Called
<1>2. \A c \in Cores : pc[c] \in Sorting
  BY OnePhase
<1>3. \A c \in Cores : c # b => pc'[c] \in Sorting
  BY <1>2, StepAlone DEF Alone, SameCore
<1>4. WorkspaceOK' /\ \A c \in Cores : pc'[c] \in Sorting => SortingAt(c)'
  BY SortingStepData
<1>5. SortingData'
  BY <1>1, <1>4 DEF SortingData
<1>6. pc'[b] \in Sorting \/ pc'[b] = "unique"
  BY SortingGoes
<1>7. GatheringData'
  <2>1. \A c \in Cores : pc'[c] \notin Gathering
    BY <1>3, <1>6 DEF Sorting, Gathering
  <2> QED  BY <1>1, <2>1 DEF GatheringData
<1>8. SortedTogether'
  <2>1. ASSUME NEW c \in Cores, pc'[c] \in Sorting PROVE SortedTogether'
    <3>1. pc'[c] # "unique"
      BY <2>1 DEF Sorting
    <3> QED  BY <1>1, <3>1 DEF SortedTogether
  <2>2. CASE pc'[b] \notin Sorting
    <3>1. SortTiles(b) /\ blockNum = 1
      BY <2>2, SortingGoes
    <3>2. Cores = {0} /\ tileNum(0) \in Nat \ {0} /\ TileStart(0, 0) = 0 /\ TileStart(0, 1) = padded
      BY <1>1, <3>1, OneTile
    <3>3. b = 0
      BY <3>2
    <3>4. WorkspaceOK /\ SortingAt(b)
      BY <1>2 DEF DataOK, SortingData
    <3>5. \A p \in Nat : p < tileNum(b) => Holding(1, TileStart(b, p), TileStart(b, p + 1))'
      BY <1>1, <3>1, <3>4, SortTilesData
    <3>6. 0 \in Nat /\ 0 < tileNum(b) /\ 0 + 1 = 1
      BY <3>2, <3>3
    <3>7. Holding(1, TileStart(0, 0), TileStart(0, 1))'
      BY <3>3, <3>5, <3>6
    <3>8. TileStart(0, 0)' = 0 /\ TileStart(0, 1)' = padded /\ padded' = padded
      BY <1>1, <3>2, TilesKept, WantedKept
    <3>9. Holding(1, 0, padded)'
      BY <3>7, <3>8 DEF Holding
    <3>10. \A c \in Cores : cur'[c] = 1
      <4>1. cur' = cur /\ pc[b] = "tiles"
        BY <3>1 DEF SortTiles, sorting
      <4>2. cur[b] = 1
        BY <3>4, <4>1 DEF SortingAt
      <4> QED  BY <3>2, <3>3, <4>1, <4>2
    <3> QED  BY <1>1, <3>9, <3>10, SortedNow
  <2> QED  BY <2>1, <2>2
<1> QED  BY <1>4, <1>5, <1>7, <1>8 DEF DataOK

-----------------------------------------------------------------------------
(* The barriers *)

\* What is in the workspace stays there when nobody writes.
LEMMA NothingWritten ==
  ASSUME UNCHANGED <<call, buf>>
  PROVE  /\ Wanted' = Wanted /\ padded' = padded /\ (WorkspaceOK => WorkspaceOK')
         /\ \A j, l, h : Holding(j, l, h)' <=> Holding(j, l, h)
         /\ \A b : cur'[b] = cur[b] /\ merge'[b] = merge[b] =>
              \A l, h : MergingAt(b, l, h)' <=> MergingAt(b, l, h)
<1>1. Wanted' = Wanted /\ padded' = padded /\ buf' = buf
  BY WantedKept
<1> QED  BY <1>1 DEF WorkspaceOK, Indexed, Holding, MergingAt, Data, Other

\* What is known of a core that merges after a step.
LevelNow(b, j, e, w, x, m) ==
  /\ UNCHANGED call /\ b \in Cores
  /\ cur'[b] = j /\ eventID'[b] = e /\ bind'[b] = w /\ waits'[b] = x /\ merge'[b] = m
  /\ j = CurOf(e)

\* Its merge.
MergeUpTo(b, w) ==
  \E l, h : l = Offset(b) /\ h = Offset(b + GroupSize(blockNum, w, b)) /\ MergingAt(b, l, h)'

\* What has to be shown of a core that has taken a step of GlobalSort.
LEMMA LevelDataNow ==
  ASSUME NEW b, NEW j, NEW e, NEW w, NEW x, NEW m, LevelNow(b, j, e, w, x, m),
         b % w = 0 /\ m = NoMerge => RunsWaited(j, b, w, x)',
         m # NoMerge => MergeUpTo(b, w),
         b % w = 0 => NoFlags(b, x * w)'
  PROVE  LevelData(b)'
<1>1. /\ UNCHANGED call
      /\ cur'[b] = j /\ eventID'[b] = e /\ bind'[b] = w /\ waits'[b] = x /\ merge'[b] = m
      /\ j = CurOf(e)
  BY DEF LevelNow
<1>2. blockNum' = blockNum /\ \A c : Offset(c)' = Offset(c)
  BY <1>1, CallKept
<1>3. Active(b)' <=> b % w = 0
  BY <1>1 DEF Active
<1>4. RunsWaited(cur[b], b, bind[b], waits[b])' <=> RunsWaited(j, b, w, x)'
  BY <1>1 DEF RunsWaited, HoldsBlocks, Holding, Data
<1>5. NoFlags(b, waits[b] * bind[b])' <=> NoFlags(b, x * w)'
  BY <1>1 DEF NoFlags
<1>6. m # NoMerge => MergingAt(b, Offset(b), Offset(GroupEnd(b)))'
  <2> HAVE m # NoMerge
  <2>1. PICK l, h : l = Offset(b) /\ h = Offset(b + GroupSize(blockNum, w, b)) /\ MergingAt(b, l, h)'
    BY DEF MergeUpTo
  <2>2. Offset(b)' = l /\ Offset(GroupEnd(b))' = h
    <3>1. GroupEnd(b)' = b + GroupSize(blockNum, w, b)
      BY <1>1, <1>2 DEF GroupEnd
    <3>2. PICK c : c = b + GroupSize(blockNum, w, b)
      OBVIOUS
    <3>3. Offset(c)' = h /\ GroupEnd(b)' = c
      BY <1>2, <2>1, <3>1, <3>2
    <3>4. Offset(GroupEnd(b))' = h
      BY <3>3 DEF Offset
    <3> QED  BY <1>2, <2>1, <3>4
  <2> QED  BY <2>1, <2>2 DEF MergingAt
<1>7. cur'[b] = CurOf(eventID'[b])
  BY <1>1
<1> QED  BY <1>1, <1>3, <1>4, <1>5, <1>6, <1>7 DEF LevelData

\* The blocks are sorted: each core has the run it leads.
LEMMA MergingBeginsData ==
  ASSUME UniqueAssumption, UniqueInv, DataOK, Barrier("sync1", "global")
  PROVE  DataOK'
<1>1. /\ blockNum' = blockNum /\ Cores' = Cores
      /\ \A c \in Cores : pc[c] = "sync1" /\ pc'[c] = "global"
      /\ flags' = flags /\ eventID' = eventID /\ waits' = waits /\ bind' = bind /\ merge' = merge
  BY BarrierFrame
<1>2. UNCHANGED <<call, buf>> /\ cur' = cur
  BY DEF Barrier, sorting
<1>3. Called /\ 0 \in Cores /\ blockNum \in Nat /\ Cores = 0..(blockNum - 1)
  BY CallFacts DEF UniqueInv, ControlOK, Called
<1>4. WorkspaceOK'
  <2>1. WorkspaceOK
    BY <1>1 DEF DataOK, Sorting
  <2> QED  BY <1>2, <2>1, NothingWritten
<1>5. SortingData'
  BY <1>1 DEF SortingData, Sorting
<1>6. SortedTogether'
  BY <1>1, <1>3 DEF SortedTogether
<1>7. ASSUME NEW b \in Cores
      PROVE  /\ flags = {} /\ eventID[b] = 0 /\ waits[b] = 1 /\ bind[b] = 1 /\ merge[b] = NoMerge
             /\ cur[b] = 1 /\ Holding(1, Offset(b), Offset(b + 1))
  <2>1. pc[b] = "sync1" /\ pc[b] \in Sorting
    BY <1>1 DEF Sorting
  <2>2. SortingAt(b)
    BY <2>1 DEF DataOK, SortingData
  <2> QED  BY <2>1, <2>2 DEF SortingAt, UniqueInv, SortingOK
<1>8. GatheringData'
  <2>1. ASSUME NEW b \in Cores PROVE LevelData(b)'
    <3>1. /\ flags' = {} /\ eventID'[b] = 0 /\ waits'[b] = 1 /\ bind'[b] = 1 /\ merge'[b] = NoMerge
          /\ cur'[b] = 1
      BY <1>1, <1>2, <1>7
    <3>2. 1 = CurOf(0)
      BY DEF CurOf
    <3>3. LevelNow(b, 1, 0, 1, 1, NoMerge)
      BY <1>2, <3>1, <3>2 DEF LevelNow
    <3>4. RunsWaited(1, b, 1, 1)'
      <4>1. b \in Nat /\ Lesser(b + 1, blockNum) = b + 1
        BY <1>3 DEF Lesser
      <4>2. PICK l, h : l = Offset(b) /\ h = Offset(b + 1)
        OBVIOUS
      <4>3. Holding(1, l, h)'
        BY <1>2, <1>7, <4>2, NothingWritten
      <4>4. PICK c : c = b + 1
        OBVIOUS
      <4>5. Offset(b)' = l /\ Offset(c)' = h /\ Lesser(c, blockNum') = c
        BY <1>1, <1>2, <4>1, <4>2, <4>4, CallKept
      <4>6. HoldsBlocks(1, b, c)'
        BY <4>3, <4>5 DEF HoldsBlocks, Holding, Offset
      <4>7. \A i \in 1..1 : b + 1 * (i - 1) = b /\ b + 1 * (i - 1) + 1 = c
        BY <4>1, <4>4
      <4> QED  BY <4>6, <4>7 DEF RunsWaited
    <3>5. NoFlags(b, 1 * 1)'
      BY <3>1 DEF NoFlags
    <3> QED  BY <3>3, <3>4, <3>5, LevelDataNow
  <2>2. flags' = {}
    BY <1>1, <1>3, <1>7
  <2> QED  BY <1>1, <2>1, <2>2 DEF GatheringData
<1> QED  BY <1>4, <1>5, <1>6, <1>8 DEF DataOK

\* The blocks are merged: all cores look at the buffer that holds all of them.
LEMMA PackingBeginsData ==
  ASSUME UniqueAssumption, UniqueInv, DataOK, Barrier("sync2", "unique")
  PROVE  DataOK'
<1>1. /\ blockNum' = blockNum /\ Cores' = Cores
      /\ \A c \in Cores : pc[c] = "sync2" /\ pc'[c] = "unique"
      /\ flags' = flags /\ eventID' = eventID /\ waits' = waits /\ bind' = bind /\ merge' = merge
  BY BarrierFrame
<1>2. UNCHANGED <<call, buf>> /\ cur' = cur
  BY DEF Barrier, sorting
<1>3. /\ Called /\ 0 \in Cores /\ blockNum \in Nat \ {0} /\ Cores = 0..(blockNum - 1)
      /\ blockNum \in 0..blockNum /\ 0 \in 0..blockNum
  BY CallFacts DEF UniqueInv, ControlOK, Called
<1>4. \A b \in Cores : pc[b] \in Gathering
  BY <1>1 DEF Gathering
<1>5. WorkspaceOK'
  <2>1. WorkspaceOK
    BY <1>4 DEF DataOK
  <2> QED  BY <1>2, <2>1, NothingWritten
<1>6. SortingData' /\ GatheringData'
  BY <1>1 DEF SortingData, GatheringData, Sorting, Gathering
<1>7. ASSUME NEW b \in Cores
      PROVE  /\ eventID[b] \in 0..4 /\ bind[b] = Width[eventID[b] + 1]
             /\ blockNum <= bind[b] /\ bind[b] < 4 * blockNum /\ merge[b] = NoMerge
             /\ LevelData(b) /\ bind[b] \in Nat \ {0} /\ waits[b] \in 1..4
  <2>1. LevelOK(b) /\ bind[b] \in Nat \ {0} /\ waits[b] \in 1..4
    BY <1>4, GatheringFacts
  <2>2. LevelData(b)
    BY <1>4 DEF DataOK, GatheringData
  <2> QED  BY <1>1, <2>1, <2>2 DEF LevelOK
<1>8. PICK j : j = cur[0]
  OBVIOUS
<1>9. ASSUME NEW b \in Cores PROVE cur[b] = j
  <2>1. eventID[b] = eventID[0]
    <3>1. PICK e \in 0..4, f \in 0..4 : e = eventID[b] /\ f = eventID[0]
      BY <1>3, <1>7
    <3>2. /\ blockNum <= Width[e + 1] /\ Width[e + 1] < 4 * blockNum
          /\ blockNum <= Width[f + 1] /\ Width[f + 1] < 4 * blockNum
      BY <1>3, <1>7, <3>1
    <3>3. e = f
      BY <1>3, <3>2, LastLevel
    <3> QED  BY <3>1, <3>3
  <2>2. cur[b] = CurOf(eventID[b]) /\ cur[0] = CurOf(eventID[0])
    BY <1>3, <1>7 DEF LevelData
  <2> QED  BY <1>8, <2>1, <2>2
<1>10. Holding(j, 0, padded)
  <2>1. PICK w \in Nat \ {0} : w = bind[0] /\ blockNum <= w
    BY <1>3, <1>7
  <2>2. Active(0) /\ merge[0] = NoMerge
    BY <1>3, <1>7, <2>1 DEF Active
  <2>3. \A i \in 1..waits[0] : 0 + bind[0] * (i - 1) < blockNum =>
          HoldsBlocks(cur[0], 0 + bind[0] * (i - 1), 0 + bind[0] * (i - 1) + bind[0])
    <3>1. LevelData(0)
      BY <1>3, <1>7
    <3> QED  BY <2>2, <3>1 DEF LevelData, RunsWaited
  <2>4. 1 \in 1..waits[0] /\ 0 + bind[0] * (1 - 1) = 0 /\ 0 + bind[0] * (1 - 1) + bind[0] = w
    BY <1>3, <1>7, <2>1
  <2>5. HoldsBlocks(j, 0, w)
    <3>1. HoldsBlocks(cur[0], 0 + bind[0] * (1 - 1), 0 + bind[0] * (1 - 1) + bind[0])
      BY <1>3, <2>3, <2>4
    <3> QED  BY <1>8, <2>4, <3>1
  <2>6. Lesser(w, blockNum) = blockNum
    BY <1>3, <2>1 DEF Lesser
  <2>7. Offset(0) = 0 /\ Offset(blockNum) = padded
    BY <1>3, BlockFacts, PaddedFacts
  <2> QED  BY <2>5, <2>6, <2>7 DEF HoldsBlocks
<1>11. SortedTogether'
  <2>1. Holding(j, 0, padded)'
    <3>1. PICK t : t = padded
      OBVIOUS
    <3>2. Holding(j, 0, t)' /\ padded' = t
      BY <1>2, <1>10, <3>1, NothingWritten
    <3> QED  BY <3>2 DEF Holding
  <2>2. \A b \in Cores : cur'[b] = j
    BY <1>2, <1>9
  <2> QED  BY <1>2, <1>3, <2>1, <2>2, SortedNow
<1> QED  BY <1>5, <1>6, <1>11 DEF DataOK

-----------------------------------------------------------------------------
(* The other phases *)

\* Nothing is in order yet.
LEMMA InitData ==
  ASSUME UniqueAssumption, Init
  PROVE  DataOK
<1>1. /\ buf = [i \in 1..2 |-> [k \in 1..(2 * padded) |-> Index]]
      /\ pc = [b \in Cores |-> "tiles"] /\ cur = [b \in Cores |-> 1] /\ group = [b \in Cores |-> 0]
  BY DEF Init
<1>2. Called
  BY InitInv DEF UniqueInv, ControlOK, Called
<1>3. 0 \in Cores
  BY <1>2, CallFacts
<1>4. \A b \in Cores : pc[b] = "tiles" /\ cur[b] = 1 /\ group[b] = 0
  BY <1>1
<1>5. WorkspaceOK
  <2>1. padded \in Nat
    BY <1>2, PaddedFacts
  <2>2. buf \in [1..2 -> [1..(2 * padded) -> Keys \cup {Index}]]
    BY <1>1
  <2>3. ASSUME NEW i \in 1..2, NEW e \in 0..(padded - 1) PROVE buf[i][2 * e + 2] = Index
    <3>1. PICK k \in 1..(2 * padded) : k = 2 * e + 2
      BY <2>1
    <3>2. buf[i] = [l \in 1..(2 * padded) |-> Index]
      BY <1>1
    <3> QED  BY <3>1, <3>2
  <2> QED  BY <2>2, <2>3 DEF WorkspaceOK, Indexed
<1>6. SortingData
  BY <1>4 DEF SortingData, SortingAt
<1>7. GatheringData
  BY <1>4 DEF GatheringData, Gathering
<1>8. SortedTogether
  BY <1>3, <1>4 DEF SortedTogether
<1> QED  BY <1>5, <1>6, <1>7, <1>8 DEF DataOK

\* The duplicates are dropped: the order has been used.
LEMMA PackingKeepsData ==
  ASSUME UniqueAssumption, UniqueInv, DataOK, NEW b \in Cores, pc[b] \in Packing, Step(b)
  PROVE  DataOK'
<1>1. UNCHANGED call /\ Cores' = Cores /\ \A c \in Cores : c # b => pc'[c] = pc[c]
  BY StepAlone, CallKept DEF Alone, SameCore
<1>2. /\ \A c \in Cores : pc[c] \in Packing
      /\ pc = [c \in Cores |-> pc[c]] /\ tile \in [Cores -> Nat] /\ merge[b] = NoMerge
  BY OnePhase DEF UniqueInv, ControlOK, PackingOK
<1>3. TileUnique(b) \/ Chain(b) \/ CopyOut(b)
  <2>1. pc[b] \notin {"tiles", "block", "global"}
    BY DEF Packing
  <2>2. ~MergeRound(b)
    BY <1>2, RoundHasMerge
  <2> QED  BY <2>1, <2>2 DEF Step, SortTiles, BlockGroup, BlockCopyRest, BlockLevel, BlockDone,
                            GlobalSignal, GlobalPass, GlobalWait, GlobalMerge, GlobalCopyRest
<1>4. pc'[b] \in Packing /\ ~(pc'[b] = "unique" /\ tile'[b] = 0)
  <2>1. CASE TileUnique(b)
    <3>1. tile'[b] = tile[b] + 1
      BY <1>2, <2>1 DEF TileUnique
    <3>2. tile[b] \in Nat
      BY <1>2
    <3>3. tile'[b] # 0
      BY <3>1, <3>2
    <3>4. pc'[b] = "unique" \/ pc'[b] = "chain" \/ pc'[b] = "copy"
      <4>1. pc[b] = "unique" /\ \E x : pc' = [pc EXCEPT ![b] = IF x THEN @ ELSE IF blockNum > 1 THEN "chain" ELSE "copy"]
        BY <2>1, Zenon DEF TileUnique
      <4> QED  BY <1>2, <4>1
    <3> QED  BY <3>3, <3>4 DEF Packing
  <2>2. CASE Chain(b)
    <3>1. pc'[b] = "copy"
      BY <1>2, <2>2 DEF Chain
    <3> QED  BY <3>1 DEF Packing
  <2>3. CASE CopyOut(b)
    <3>1. pc'[b] = "done"
      BY <1>2, <2>3 DEF CopyOut
    <3> QED  BY <3>1 DEF Packing
  <2> QED  BY <1>3, <2>1, <2>2, <2>3
<1>5. \A c \in Cores : pc'[c] \in Packing
  BY <1>1, <1>2, <1>4
<1>6. SortedTogether'
  BY <1>1, <1>4 DEF SortedTogether
<1>7. 0 \in Cores
  BY CallFacts DEF UniqueInv, ControlOK, Called
<1>8. \A c \in Cores : pc'[c] \notin Sorting \cup Gathering
  BY <1>5 DEF Packing, Sorting, Gathering
<1>9. SortingData' /\ GatheringData'
  BY <1>1, <1>8 DEF SortingData, GatheringData
<1> QED  BY <1>1, <1>6, <1>7, <1>8, <1>9 DEF DataOK

\* Nothing happens.
LEMMA StutterData ==
  ASSUME DataOK, UNCHANGED vars
  PROVE  DataOK'
<1>1. UNCHANGED call /\ buf' = buf /\ flags' = flags /\ pc' = pc /\ tile' = tile
      /\ cur' = cur /\ bind' = bind /\ group' = group /\ waits' = waits /\ merge' = merge
      /\ eventID' = eventID
  BY DEF vars, sorting, packing
<1>2. /\ input' = input /\ blockNum' = blockNum /\ Cores' = Cores /\ Wanted' = Wanted
      /\ padded' = padded /\ total' = total
      /\ \A b : Offset(b)' = Offset(b) /\ tileNum(b)' = tileNum(b)
  BY <1>1, CallKept, WantedKept DEF total
<1>3. /\ WorkspaceOK <=> WorkspaceOK'
      /\ \A j, l, h : Holding(j, l, h)' <=> Holding(j, l, h)
      /\ \A b, l, h : MergingAt(b, l, h)' <=> MergingAt(b, l, h)
  BY <1>1, <1>2 DEF WorkspaceOK, Indexed, Holding, MergingAt, Data
<1>4. \A b, p : TileStart(b, p)' = TileStart(b, p)
  BY <1>1, TilesKept
<1>5. \A j, b, w, lo, hi : HeldRuns(j, b, w, lo, hi)' <=> HeldRuns(j, b, w, lo, hi)
  BY <1>2, <1>3, <1>4 DEF HeldRuns
<1>6. \A b : BlockData(b)' <=> BlockData(b)
  BY <1>1, <1>2, <1>3, <1>4, <1>5 DEF BlockData, GroupStart
<1>7. SortingData'
  BY <1>1, <1>2, <1>3, <1>6 DEF SortingData, SortingAt, DataOK
<1>8. \A j, b, c : HoldsBlocks(j, b, c)' <=> HoldsBlocks(j, b, c)
  BY <1>2, <1>3 DEF HoldsBlocks
<1>9. \A b : LevelData(b)' <=> LevelData(b)
  BY <1>1, <1>2, <1>3, <1>8 DEF LevelData, RunsWaited, NoFlags, Active, GroupEnd
<1>10. \A c, e : FlagData(c, e)' <=> FlagData(c, e)
  BY <1>1, <1>8 DEF FlagData
<1>11. GatheringData'
  BY <1>1, <1>2, <1>9, <1>10 DEF GatheringData, DataOK
<1>12. SortedTogether'
  BY <1>1, <1>2 DEF SortedTogether, DataOK
<1> QED  BY <1>1, <1>2, <1>3, <1>7, <1>11, <1>12 DEF DataOK

-----------------------------------------------------------------------------
(* The cores that merge the blocks *)

\* The last block of a run that ends in front of block c.
UpToBlock(c) == Offset(Lesser(c, blockNum))

\* A core on its level.
GatheringFrom(b) ==
  /\ UniqueAssumption /\ UniqueInv /\ WorkspaceOK /\ b \in Cores /\ pc[b] = "global"
  /\ \A c \in Cores : LevelData(c)
  /\ \A f \in flags : FlagData(f[1], f[2])

\* What it writes is neither what another core waits for or merges, nor what a flag
\* announces.
Elsewhere(b, lo, hi) ==
  /\ \A c \in Cores : c # b /\ Active(c) =>
       hi <= Offset(c) \/ UpToBlock(c + waits[c] * bind[c]) <= lo
  /\ \A f \in flags : hi <= Offset(f[1]) \/ UpToBlock(f[1] + Width[f[2] + 1]) <= lo

\* It raises no flag but its own, and that while it is active.
FlagsGo(b) == flags' \subseteq flags \/ (Active(b) /\ flags' \subseteq flags \cup {<<b, eventID[b]>>})

\* What is known of any core then.
LEMMA LevelFacts ==
  ASSUME NEW b, GatheringFrom(b), NEW c \in Cores
  PROVE  /\ LevelData(c) /\ LevelOK(c) /\ Called /\ WorkspaceOK
         /\ c \in Nat /\ c < blockNum /\ blockNum \in Nat \ {0}
         /\ cur[c] \in 1..2 /\ bind[c] \in Nat \ {0} /\ waits[c] \in 1..4 /\ eventID[c] \in 0..4
         /\ merge[c] # NoMerge => Active(c) /\ pc[c] = "global"
         /\ bind[c] = Width[eventID[c] + 1] /\ c \in DOMAIN merge
<1>1. UniqueInv /\ WorkspaceOK /\ b \in Cores /\ pc[b] \in Gathering /\ LevelData(c)
  BY DEF GatheringFrom, Gathering
<1>2. /\ ControlOK /\ Called /\ LevelOK(c) /\ merge = [d \in Cores |-> merge[d]]
      /\ eventID[c] \in 0..4 /\ bind[c] = Width[eventID[c] + 1]
      /\ bind[c] \in Nat \ {0} /\ waits[c] \in 1..4
  BY <1>1, GatheringFacts
<1>3. c \in Nat /\ c < blockNum /\ blockNum \in Nat \ {0}
  BY <1>2, CallFacts
<1>4. cur[c] \in 1..2
  BY <1>2 DEF ControlOK
<1>5. pc[c] \in Gathering
  BY <1>1, OnePhase
<1>6. ASSUME merge[c] # NoMerge PROVE Active(c) /\ pc[c] = "global"
  <2>1. pc[c] = "global" /\ Leads(c)
    BY <1>2, <1>5, <1>6 DEF LevelOK, Gathering
  <2>2. PICK w : w = bind[c]
    OBVIOUS
  <2>3. w \in Nat /\ (w = 1 \/ w = 4 \/ w = 16 \/ w = 64)
    BY <1>1, <2>1, <2>2, OnLevel
  <2>4. c % (4 * w) = 0
    BY <2>1, <2>2 DEF Leads, Position
  <2>5. c % w = 0
    BY <1>3, <2>3, <2>4, Positions
  <2> QED  BY <2>1, <2>2, <2>5 DEF Active
<1> QED  BY <1>1, <1>2, <1>3, <1>4, <1>6

\* A run of blocks that a step leaves alone.
LEMMA BlocksKept ==
  ASSUME NEW i, NEW lo, NEW hi, Writing(i, lo, hi), NEW j \in 1..2,
         NEW c \in Nat, NEW d \in Nat, c < blockNum,
         hi <= Offset(c) \/ UpToBlock(d) <= lo, HoldsBlocks(j, c, d)
  PROVE  HoldsBlocks(j, c, d)'
<1>1. Called /\ UNCHANGED call /\ lo \in Nat /\ hi \in Nat
  BY DEF Writing
<1>2. /\ blockNum \in Nat /\ c \in 0..blockNum /\ Lesser(d, blockNum) \in 0..blockNum
  BY <1>1, CallFacts DEF Lesser
<1>3. PICK l, h : l = Offset(c) /\ h = UpToBlock(d)
  OBVIOUS
<1>4. l \in Nat /\ h \in Nat /\ h <= padded
  BY <1>1, <1>2, <1>3, OffsetIn DEF UpToBlock
<1>5. Holding(j, l, h)
  BY <1>3 DEF HoldsBlocks, UpToBlock
<1>6. Holding(j, l, h)'
  BY <1>3, <1>4, <1>5, HeldApart
<1>7. Offset(c)' = l /\ UpToBlock(d)' = h
  BY <1>1, <1>3, CallKept DEF UpToBlock, Offset
<1> QED  BY <1>6, <1>7 DEF HoldsBlocks, UpToBlock, Holding

\* The first runs of a group, and all it covers.
LEMMA RunWithin ==
  ASSUME NEW w \in Nat \ {0}, NEW x \in 1..4, NEW i \in 1..x, NEW c \in Nat
  PROVE  /\ w * (i - 1) \in Nat /\ c + w * (i - 1) \in Nat /\ c + w * (i - 1) + w \in Nat
         /\ c <= c + w * (i - 1) /\ c + w * (i - 1) + w <= c + x * w /\ c + x * w \in Nat
<1>1. i - 1 \in Nat /\ x \in Nat /\ (i - 1) + 1 <= x
  OBVIOUS
<1>2. PICK a : a = w * (i - 1)
  OBVIOUS
<1>3. a \in Nat
  BY <1>1, <1>2
<1>4. a + w = w * i
  BY <1>2
<1>5. w * i <= x * w
  <2>1. i = 1 \/ i = 2 \/ i = 3 \/ i = 4
    OBVIOUS
  <2>2. x = 1 \/ x = 2 \/ x = 3 \/ x = 4
    OBVIOUS
  <2> QED  BY <2>1, <2>2
<1>6. x * w \in Nat
  BY <1>1
<1> QED  BY <1>2, <1>3, <1>4, <1>5, <1>6

\* Later blocks begin later.
LEMMA UpToBlockGrows ==
  ASSUME Called, NEW c \in Nat, NEW d \in Nat, c <= d
  PROVE  UpToBlock(c) \in Nat /\ UpToBlock(d) \in Nat /\ UpToBlock(c) <= UpToBlock(d)
<1>1. blockNum \in Nat
  BY CallFacts
<1>2. Lesser(c, blockNum) \in 0..blockNum /\ Lesser(d, blockNum) \in Lesser(c, blockNum)..blockNum
  BY <1>1 DEF Lesser
<1> QED  BY <1>2, OffsetGrows DEF UpToBlock

\* The runs a core has waited for stay where they are.
LEMMA RunsKept ==
  ASSUME NEW i, NEW lo, NEW hi, Writing(i, lo, hi), NEW j \in 1..2, NEW c \in Nat,
         NEW w \in Nat \ {0}, NEW x \in 1..4,
         hi <= Offset(c) \/ UpToBlock(c + x * w) <= lo, RunsWaited(j, c, w, x)
  PROVE  RunsWaited(j, c, w, x)'
<1>1. Called /\ UNCHANGED call /\ lo \in Nat /\ hi \in Nat
  BY DEF Writing
<1>2. blockNum' = blockNum /\ blockNum \in Nat
  BY <1>1, CallKept, CallFacts
<1>3. ASSUME NEW k \in 1..x, c + w * (k - 1) < blockNum
      PROVE  HoldsBlocks(j, c + w * (k - 1), c + w * (k - 1) + w)'
  <2>1. PICK s \in Nat, z \in Nat : /\ s = c + w * (k - 1) /\ z = c + w * (k - 1) + w
                                    /\ c <= s /\ z <= c + x * w /\ c + x * w \in Nat
    BY RunWithin
  <2>2. HoldsBlocks(j, s, z)
    BY <1>3, <2>1 DEF RunsWaited
  <2>3. hi <= Offset(s) \/ UpToBlock(z) <= lo
    <3>1. UpToBlock(z) \in Nat /\ UpToBlock(c + x * w) \in Nat /\ UpToBlock(z) <= UpToBlock(c + x * w)
      BY <1>1, <2>1, UpToBlockGrows
    <3>2. Offset(c) \in Nat /\ Offset(s) \in Nat /\ Offset(c) <= Offset(s)
      <4>1. c \in 0..blockNum /\ s \in c..blockNum
        BY <1>2, <1>3, <2>1
      <4> QED  BY <1>1, <4>1, OffsetGrows
    <3> QED  BY <1>1, <3>1, <3>2
  <2>4. HoldsBlocks(j, s, z)'
    BY <1>3, <2>1, <2>2, <2>3, BlocksKept
  <2> QED  BY <2>1, <2>4
<1> QED  BY <1>2, <1>3 DEF RunsWaited

\* A core that merges does so in the blocks it has waited for.
LEMMA GroupWithin ==
  ASSUME NEW b, GatheringFrom(b), NEW c \in Cores, merge[c] # NoMerge
  PROVE  /\ GroupEnd(c) \in c..blockNum /\ Offset(GroupEnd(c)) <= UpToBlock(c + waits[c] * bind[c])
         /\ Offset(GroupEnd(c)) \in Nat /\ Offset(c) \in Nat
         /\ Active(c) /\ pc[c] = "global" /\ GroupEnd(c) <= c + waits[c] * bind[c]
<1>1. /\ LevelOK(c) /\ Called /\ c \in Nat /\ c < blockNum /\ blockNum \in Nat \ {0}
      /\ bind[c] \in Nat \ {0} /\ waits[c] \in 1..4 /\ Active(c) /\ pc[c] = "global"
  BY LevelFacts
<1>2. waits[c] = Runs(c)
  BY <1>1 DEF LevelOK
<1>3. GroupEnd(c) \in c..blockNum /\ GroupEnd(c) <= c + waits[c] * bind[c]
  BY <1>1, <1>2, GroupEndBound DEF GatheringFrom
<1>4. PICK e \in Nat, k \in Nat : e = GroupEnd(c) /\ k = c + waits[c] * bind[c] /\ e <= k /\ e <= blockNum
  <2>1. waits[c] \in Nat /\ waits[c] * bind[c] \in Nat
    BY <1>1
  <2> QED  BY <1>1, <1>3, <2>1
<1>5. UpToBlock(e) <= UpToBlock(k)
  BY <1>1, <1>4, UpToBlockGrows
<1>6. Lesser(e, blockNum) = e
  BY <1>1, <1>4 DEF Lesser
<1>7. Offset(e) \in Nat /\ Offset(c) \in Nat
  BY <1>1, <1>4, OffsetIn
<1> QED  BY <1>1, <1>3, <1>4, <1>5, <1>6, <1>7 DEF UpToBlock

\* A merge writes in its group only.
LEMMA ElsewhereMerge ==
  ASSUME NEW b, GatheringFrom(b), merge[b] # NoMerge
  PROVE  Elsewhere(b, Offset(b), Offset(GroupEnd(b)))
<1>1. UniqueInv /\ b \in Cores /\ pc[b] \in Gathering
  BY DEF GatheringFrom, Gathering
<1>2. /\ LevelData(b) /\ LevelOK(b) /\ Called /\ b \in Nat /\ b < blockNum /\ blockNum \in Nat \ {0}
      /\ bind[b] \in Nat \ {0} /\ waits[b] \in 1..4
  BY <1>1, LevelFacts
<1>3. /\ GroupEnd(b) \in b..blockNum /\ Active(b) /\ GroupEnd(b) <= b + waits[b] * bind[b]
      /\ Offset(GroupEnd(b)) \in Nat /\ Offset(b) \in Nat
  BY <1>1, GroupWithin
<1>4. PICK e \in Nat, k \in Nat : e = GroupEnd(b) /\ k = waits[b] * bind[b] /\ e <= b + k /\ e <= blockNum
  <2>1. waits[b] \in Nat /\ waits[b] * bind[b] \in Nat /\ GroupEnd(b) \in Nat
    BY <1>2, <1>3
  <2> QED  BY <1>2, <1>3, <2>1
<1>5. \A d \in Cores : b < d /\ d < b + k => ~Active(d)
  BY <1>2, <1>3, <1>4 DEF LevelOK
<1>6. ASSUME NEW c \in Nat, NEW z \in Nat, c < blockNum, b + k <= c \/ c + z <= b
      PROVE  Offset(e) <= Offset(c) \/ UpToBlock(c + z) <= Offset(b)
  <2>1. CASE b + k <= c
    <3>1. e \in 0..blockNum /\ c \in e..blockNum
      BY <1>2, <1>4, <1>6, <2>1
    <3> QED  BY <1>2, <3>1, OffsetGrows
  <2>2. CASE c + z <= b
    <3>1. UpToBlock(c + z) <= UpToBlock(b)
      BY <1>2, <1>6, <2>2, UpToBlockGrows
    <3>2. Lesser(b, blockNum) = b
      BY <1>2 DEF Lesser
    <3> QED  BY <3>1, <3>2 DEF UpToBlock
  <2> QED  BY <1>6, <2>1, <2>2
<1>7. ASSUME NEW c \in Cores, c # b, Active(c)
      PROVE  Offset(e) <= Offset(c) \/ UpToBlock(c + waits[c] * bind[c]) <= Offset(b)
  <2>1. /\ LevelOK(c) /\ c \in Nat /\ c < blockNum /\ bind[c] \in Nat \ {0} /\ waits[c] \in 1..4
    BY <1>1, LevelFacts
  <2>2. PICK z \in Nat : z = waits[c] * bind[c]
    <3>1. waits[c] \in Nat /\ waits[c] * bind[c] \in Nat
      BY <2>1
    <3> QED  BY <3>1
  <2>3. \A d \in Cores : c < d /\ d < c + z => ~Active(d)
    BY <1>7, <2>1, <2>2 DEF LevelOK
  <2>4. b + k <= c \/ c + z <= b
    <3>1. ~(c < b /\ b < c + z)
      BY <1>1, <1>3, <2>3
    <3>2. ~(b < c /\ c < b + k)
      BY <1>5, <1>7
    <3> QED  BY <1>2, <1>4, <1>7, <2>1, <2>2, <3>1, <3>2
  <2> QED  BY <1>6, <2>1, <2>2, <2>4
<1>8. ASSUME NEW f \in flags
      PROVE  Offset(e) <= Offset(f[1]) \/ UpToBlock(f[1] + Width[f[2] + 1]) <= Offset(b)
  <2>1. FlagOK(f[1], f[2]) /\ f[1] \in Cores /\ f[2] \in 0..7
    BY <1>1, GatheringFacts
  <2>2. PICK c \in Cores, t \in 0..7 : c = f[1] /\ t = f[2]
    BY <2>1
  <2>3. c \in Nat /\ c < blockNum /\ eventID[c] \in 0..4
    BY <1>1, LevelFacts
  <2>4. t \in 0..4
    BY <2>1, <2>2, <2>3 DEF FlagOK
  <2>5. PICK z \in Nat \ {0} : z = Width[t + 1]
    BY <2>4, WidthFacts
  <2>6. \A d \in Cores : c <= d /\ d < c + z => ~Active(d)
    BY <2>1, <2>2, <2>5 DEF FlagOK
  <2>7. ~(c <= b /\ b < c + z)
    BY <1>1, <1>3, <2>6
  <2>8. NoFlags(b, k)
    BY <1>2, <1>3, <1>4 DEF LevelData
  <2>9. ~(b <= c /\ c < b + k)
    BY <2>2, <2>8 DEF NoFlags
  <2>10. b + k <= c \/ c + z <= b
    BY <1>2, <1>4, <2>3, <2>5, <2>7, <2>9
  <2> QED  BY <1>6, <2>2, <2>3, <2>5, <2>10
<1> QED  BY <1>4, <1>7, <1>8 DEF Elsewhere

\* Nor does a step that writes nothing.
LEMMA ElsewhereQuiet ==
  ASSUME NEW b, GatheringFrom(b), UNCHANGED <<call, buf>>
  PROVE  Writing(1, 0, 0) /\ Elsewhere(b, 0, 0)
<1>1. Called /\ WorkspaceOK /\ blockNum \in Nat
  BY LevelFacts DEF GatheringFrom
<1>2. Writing(1, 0, 0)
  <2>1. Rewrites(1, 0, 0)
    BY <1>1, NothingRewritten
  <2> QED  BY <1>1, <2>1 DEF Writing
<1>3. \A c \in Cores : 0 <= Offset(c)
  <2> SUFFICES ASSUME NEW c \in Cores PROVE 0 <= Offset(c)
    OBVIOUS
  <2>1. c \in 0..blockNum
    BY <1>1, CallFacts
  <2>2. Offset(c) \in Nat
    BY <1>1, <2>1, OffsetIn
  <2> QED  BY <2>2
<1>4. \A f \in flags : f[1] \in Cores
  BY GatheringFacts DEF GatheringFrom, Gathering
<1> QED  BY <1>2, <1>3, <1>4 DEF Elsewhere

\* What the others have and merge stays.
LEMMA LevelDataKept ==
  ASSUME NEW b, GatheringFrom(b), Alone(b), FlagsGo(b),
         NEW i, NEW lo, NEW hi, Writing(i, lo, hi), Elsewhere(b, lo, hi),
         NEW c \in Cores, c # b
  PROVE  LevelData(c)'
<1>1. /\ LevelData(c) /\ LevelOK(c) /\ Called /\ c \in Nat /\ c < blockNum /\ blockNum \in Nat \ {0}
      /\ cur[c] \in 1..2 /\ bind[c] \in Nat \ {0} /\ waits[c] \in 1..4
      /\ merge[c] # NoMerge => Active(c)
  BY LevelFacts
<1>2. PICK j \in 1..2, w \in Nat \ {0}, x \in 1..4 :
        j = cur[c] /\ w = bind[c] /\ x = waits[c]
  BY <1>1
<1>10. PICK e, m : e = eventID[c] /\ m = merge[c]
  OBVIOUS
<1>3. LevelNow(c, j, e, w, x, m)
  BY <1>1, <1>2, <1>10 DEF LevelNow, Alone, SameCore, LevelData
<1>4. Active(c) <=> c % w = 0
  BY <1>2, <1>10 DEF Active
<1>5. lo \in Nat /\ hi \in Nat /\ UNCHANGED call
  BY DEF Writing
<1>6. Active(c) => hi <= Offset(c) \/ UpToBlock(c + x * w) <= lo
  BY <1>2, <1>10 DEF Elsewhere
<1>7. ASSUME c % w = 0, m = NoMerge PROVE RunsWaited(j, c, w, x)'
  <2>1. RunsWaited(j, c, w, x)
    BY <1>1, <1>2, <1>10, <1>4, <1>7 DEF LevelData
  <2> QED  BY <1>1, <1>4, <1>6, <1>7, <2>1, RunsKept
<1>8. ASSUME m # NoMerge PROVE MergeUpTo(c, w)
  <2>1. PICK l, h : l = Offset(c) /\ h = Offset(GroupEnd(c))
    OBVIOUS
  <2>2. l \in Nat /\ h \in Nat /\ h <= UpToBlock(c + x * w) /\ Active(c) /\ GroupEnd(c) \in 0..blockNum
    <3>1. GroupEnd(c) \in c..blockNum
      BY <1>2, <1>10, <1>8, GroupWithin
    <3> QED  BY <1>1, <1>2, <1>10, <1>8, <2>1, <3>1, GroupWithin
  <2>3. MergingAt(c, l, h)
    BY <1>1, <1>2, <1>10, <1>8, <2>1 DEF LevelData
  <2>4. Apart(l, h, lo, hi)
    <3>1. h <= padded
      BY <1>1, <2>1, <2>2, OffsetIn
    <3>2. h <= lo \/ hi <= l
      <4>1. UpToBlock(c + x * w) \in Nat
        BY <1>1, <1>2, <1>10, UpToBlockGrows
      <4> QED  BY <1>5, <1>6, <2>1, <2>2, <4>1
    <3> QED  BY <2>2, <3>1, <3>2, <1>5 DEF Apart
  <2>5. MergingAt(c, l, h)'
    BY <1>1, <2>3, <2>4, MergeApart DEF Alone, SameCore
  <2>6. GroupEnd(c) = c + GroupSize(blockNum, w, c)
    BY <1>2, <1>10 DEF GroupEnd
  <2> QED  BY <2>1, <2>5, <2>6 DEF MergeUpTo
<1>9. ASSUME c % w = 0 PROVE NoFlags(c, x * w)'
  <2>1. NoFlags(c, x * w)
    BY <1>1, <1>2, <1>10, <1>4, <1>9 DEF LevelData
  <2>2. Active(b) => ~(c <= b /\ b < c + x * w)
    <3>1. \A d \in Cores : c < d /\ d < c + x * w => ~Active(d)
      BY <1>1, <1>2, <1>10, <1>4, <1>9 DEF LevelOK
    <3>2. b \in Cores /\ b \in Nat
      BY LevelFacts DEF GatheringFrom
    <3> QED  BY <1>1, <3>1, <3>2
  <2> QED  BY <2>1, <2>2 DEF NoFlags, FlagsGo
<1> QED  BY <1>3, <1>7, <1>8, <1>9, LevelDataNow

\* So does what the flags announce.
LEMMA FlagDataKept ==
  ASSUME NEW b, GatheringFrom(b), FlagsGo(b),
         NEW i, NEW lo, NEW hi, Writing(i, lo, hi), Elsewhere(b, lo, hi),
         NEW f \in flags
  PROVE  FlagData(f[1], f[2])'
<1>1. UniqueInv /\ b \in Cores /\ pc[b] \in Gathering /\ b \in Nat /\ Called
  BY LevelFacts DEF GatheringFrom, Gathering
<1>2. FlagOK(f[1], f[2]) /\ f[1] \in Cores /\ f[2] \in 0..7 /\ FlagData(f[1], f[2])
  BY <1>1, GatheringFacts DEF GatheringFrom
<1>3. PICK c \in Cores, e \in 0..7 : c = f[1] /\ e = f[2]
  BY <1>2
<1>4. c \in Nat /\ c < blockNum /\ eventID[c] \in 0..4
  BY LevelFacts
<1>5. e \in 0..4
  BY <1>2, <1>3, <1>4 DEF FlagOK
<1>6. PICK z \in Nat \ {0} : z = Width[e + 1]
  BY <1>5, WidthFacts
<1>7. PICK j \in 1..2 : j = CurOf(e)
  BY <1>5 DEF CurOf
<1>8. HoldsBlocks(j, c, c + z)'
  <2>1. HoldsBlocks(j, c, c + z)
    BY <1>2, <1>3, <1>6, <1>7 DEF FlagData
  <2>2. hi <= Offset(c) \/ UpToBlock(c + z) <= lo
    BY <1>3, <1>6 DEF Elsewhere
  <2>3. PICK d \in Nat : d = c + z
    BY <1>4
  <2>4. HoldsBlocks(j, c, d)'
    BY <1>4, <2>1, <2>2, <2>3, BlocksKept
  <2> QED  BY <2>3, <2>4
<1>9. \A g \in flags' : c <= g[1] /\ g[1] < c + z => g = <<c, e>>
  <2>1. \A g \in flags : c <= g[1] /\ g[1] < c + z => g = <<c, e>>
    BY <1>2, <1>3, <1>6 DEF FlagData
  <2>2. Active(b) => ~(c <= b /\ b < c + z)
    BY <1>1, <1>2, <1>3, <1>6 DEF FlagOK
  <2> QED  BY <2>1, <2>2 DEF FlagsGo
<1> QED  BY <1>3, <1>6, <1>7, <1>8, <1>9 DEF FlagData

-----------------------------------------------------------------------------
(* A core on its level *)

\* It leaves to the others what is theirs and has its own in place afterwards.
GatheringDone(b) ==
  /\ \E i, lo, hi : Writing(i, lo, hi) /\ Elsewhere(b, lo, hi)
  /\ FlagsGo(b)
  /\ LevelData(b)'
  /\ \A f \in flags' : f \in flags \/ FlagData(f[1], f[2])'

\* What is known of it: w blocks in a run, x runs waited for, in buffer j, event e.
LevelAt(b, j, w, x, e) ==
  /\ j = cur[b] /\ w = bind[b] /\ x = waits[b] /\ e = eventID[b]
  /\ j = CurOf(e) /\ Other(j) = CurOf(e + 1) /\ Other(j) \in 1..2
  /\ w < blockNum /\ w < ByteRange /\ w = Width[e + 1]
  /\ Active(b) <=> b % w = 0
  /\ Leads(b) <=> b % (4 * w) = 0
  /\ Leads(b) \/ Follows(b) => b % w = 0
  /\ Follows(b) => ~Leads(b)
  /\ ~Leads(b) => merge[b] = NoMerge
  /\ merge[b] # NoMerge => x = Runs(b)
  /\ b % w = 0 /\ merge[b] = NoMerge => RunsWaited(j, b, w, x)
  /\ b % w = 0 => NoFlags(b, x * w)

\* What a core of GlobalSort holds, its parts named.
LEMMA LevelHere ==
  ASSUME NEW b, GatheringFrom(b)
  PROVE  \E j \in 1..2, w \in Nat \ {0}, x \in 1..4, e \in 0..3 : LevelAt(b, j, w, x, e)
<1>1. UniqueInv /\ b \in Cores /\ pc[b] = "global"
  BY DEF GatheringFrom
<1>2. /\ LevelData(b) /\ LevelOK(b) /\ b \in Nat /\ blockNum \in Nat
      /\ cur[b] \in 1..2 /\ waits[b] \in 1..4
  BY <1>1, LevelFacts
<1>3. PICK w : w = bind[b]
  OBVIOUS
<1>4. /\ w \in Nat \ {0} /\ w < blockNum /\ w < ByteRange
      /\ w = 1 \/ w = 4 \/ w = 16 \/ w = 64
      /\ eventID[b] \in 0..3 /\ w = Width[eventID[b] + 1]
  BY <1>1, <1>3, OnLevel
<1>5. PICK j \in 1..2, x \in 1..4, e \in 0..3 : j = cur[b] /\ x = waits[b] /\ e = eventID[b]
  BY <1>2, <1>4
<1>6. j = CurOf(e) /\ Other(j) = CurOf(e + 1) /\ Other(j) \in 1..2
  <2>1. j = CurOf(e)
    BY <1>2, <1>5 DEF LevelData
  <2>2. e = 0 \/ e = 1 \/ e = 2 \/ e = 3
    OBVIOUS
  <2> QED  BY <2>1, <2>2 DEF CurOf, Other
<1>7. /\ Active(b) <=> b % w = 0
      /\ Leads(b) <=> b % (4 * w) = 0
      /\ Follows(b) <=> b % (4 * w) \in {w, 2 * w, 3 * w}
  BY <1>3 DEF Active, Leads, Follows, Position
<1>8. /\ b % (4 * w) = 0 => b % w = 0
      /\ b % (4 * w) \in {w, 2 * w, 3 * w} => b % w = 0 /\ b % (4 * w) # 0
  BY <1>2, <1>4, Positions
<1>9. /\ ~Leads(b) => merge[b] = NoMerge
      /\ merge[b] # NoMerge => x = Runs(b)
  BY <1>2, <1>5 DEF LevelOK
<1>10. /\ b % w = 0 /\ merge[b] = NoMerge => RunsWaited(j, b, w, x)
       /\ b % w = 0 => NoFlags(b, x * w)
  BY <1>2, <1>3, <1>5, <1>7 DEF LevelData
<1>11. /\ Leads(b) \/ Follows(b) => b % w = 0
       /\ Follows(b) => ~Leads(b)
  BY <1>7, <1>8
<1> QED  BY <1>3, <1>4, <1>5, <1>6, <1>7, <1>9, <1>10, <1>11 DEF LevelAt

\* The next level.
LEMMA NextLevelNow ==
  ASSUME NEW b, GatheringFrom(b), UNCHANGED call, NextLevel(b), merge'[b] = NoMerge,
         NEW j \in 1..2, NEW w \in Nat \ {0}, NEW x \in 1..4, NEW e \in 0..3, LevelAt(b, j, w, x, e)
  PROVE  LevelNow(b, Other(j), e + 1, 4 * w, 1, NoMerge)
<1>1. /\ b \in Cores /\ cur \in [Cores -> 1..2] /\ bind \in [Cores -> Nat \ {0}]
      /\ waits \in [Cores -> 1..4] /\ eventID \in [Cores -> 0..7]
  BY DEF GatheringFrom, UniqueInv, ControlOK
<1>2. j = cur[b] /\ w = bind[b] /\ e = eventID[b] /\ Other(j) = CurOf(e + 1)
  BY DEF LevelAt
<1>3. /\ cur'[b] = Other(j) /\ bind'[b] = 4 * w /\ waits'[b] = 1 /\ eventID'[b] = e + 1
  BY <1>1, <1>2 DEF NextLevel, Switched, Widened
<1> QED  BY <1>1, <1>2, <1>3 DEF LevelNow

\* A core inside a run goes on.
LEMMA GlobalPassOwn ==
  ASSUME NEW b, GatheringFrom(b), GlobalPass(b)
  PROVE  GatheringDone(b)
<1>1. PICK j \in 1..2, w \in Nat \ {0}, x \in 1..4, e \in 0..3 : LevelAt(b, j, w, x, e)
  BY LevelHere
<1>2. UNCHANGED <<call, buf, flags>> /\ merge' = merge /\ NextLevel(b) /\ ~Leads(b)
  BY DEF GlobalPass
<1>3. merge[b] = NoMerge /\ b % (4 * w) # 0
  BY <1>1, <1>2 DEF LevelAt
<1>4. LevelNow(b, Other(j), e + 1, 4 * w, 1, NoMerge)
  BY <1>1, <1>2, <1>3, NextLevelNow
<1>5. LevelData(b)'
  BY <1>3, <1>4, LevelDataNow
<1>6. Writing(1, 0, 0) /\ Elsewhere(b, 0, 0)
  BY <1>2, ElsewhereQuiet
<1> QED  BY <1>2, <1>5, <1>6 DEF GatheringDone, FlagsGo

\* The first core of a run announces it.
LEMMA GlobalSignalOwn ==
  ASSUME NEW b, GatheringFrom(b), GlobalSignal(b)
  PROVE  GatheringDone(b)
<1>1. PICK j \in 1..2, w \in Nat \ {0}, x \in 1..4, e \in 0..3 : LevelAt(b, j, w, x, e)
  BY LevelHere
<1>2. /\ UNCHANGED <<call, buf>> /\ merge' = merge /\ NextLevel(b) /\ Follows(b)
      /\ flags' = flags \cup {<<b, eventID[b]>>}
  BY DEF GlobalSignal
<1>3. /\ merge[b] = NoMerge /\ b % (4 * w) # 0 /\ b % w = 0 /\ Active(b)
      /\ RunsWaited(j, b, w, x) /\ NoFlags(b, x * w)
      /\ e = eventID[b] /\ j = CurOf(e) /\ w = Width[e + 1]
  BY <1>1, <1>2 DEF LevelAt
<1>4. LevelNow(b, Other(j), e + 1, 4 * w, 1, NoMerge)
  BY <1>1, <1>2, <1>3, NextLevelNow
<1>5. LevelData(b)'
  BY <1>3, <1>4, LevelDataNow
<1>6. Writing(1, 0, 0) /\ Elsewhere(b, 0, 0)
  BY <1>2, ElsewhereQuiet
<1>7. FlagData(b, e)'
  <2>1. b \in Nat /\ b < blockNum
    BY LevelFacts DEF GatheringFrom
  <2>2. PICK d \in Nat : d = b + w
    BY <2>1
  <2>3. HoldsBlocks(j, b, d)
    <3>1. 1 \in 1..x /\ b + w * (1 - 1) = b /\ b + w * (1 - 1) + w = d
      BY <2>1, <2>2
    <3>2. HoldsBlocks(j, b + w * (1 - 1), b + w * (1 - 1) + w)
      BY <1>3, <2>1, <3>1 DEF RunsWaited
    <3> QED  BY <3>1, <3>2
  <2>4. HoldsBlocks(j, b, d)'
    <3>1. 0 <= Offset(b)
      <4>1. Called /\ b \in 0..blockNum
        BY LevelFacts DEF GatheringFrom
      <4>2. Offset(b) \in Nat
        BY <4>1, OffsetIn
      <4> QED  BY <4>2
    <3> QED  BY <1>6, <2>1, <2>3, <3>1, BlocksKept
  <2>5. \A g \in flags : ~(b <= g[1] /\ g[1] < b + w)
    <3>1. b + w <= b + x * w /\ x * w \in Nat
      BY <2>1
    <3>2. \A g \in flags : g[1] \in Nat
      <4>1. \A g \in flags : g[1] \in Cores
        BY GatheringFacts DEF GatheringFrom, Gathering
      <4> QED  BY <4>1, LevelFacts
    <3> QED  BY <1>3, <2>1, <3>1, <3>2 DEF NoFlags
  <2>6. \A g \in flags' : b <= g[1] /\ g[1] < b + w => g = <<b, e>>
    BY <1>2, <1>3, <2>5
  <2> QED  BY <1>3, <2>2, <2>4, <2>6 DEF FlagData
<1>8. \A f \in flags' : f \in flags \/ FlagData(f[1], f[2])'
  <2> SUFFICES ASSUME NEW f \in flags', f \notin flags PROVE FlagData(f[1], f[2])'
    OBVIOUS
  <2>1. f = <<b, e>>
    BY <1>2, <1>3
  <2>2. f[1] = b /\ f[2] = e
    BY <2>1
  <2> QED  BY <1>7, <2>2 DEF FlagData
<1>9. FlagsGo(b)
  BY <1>2, <1>3 DEF FlagsGo
<1> QED  BY <1>5, <1>6, <1>8, <1>9 DEF GatheringDone

\* What a core has stays in place when nothing is written.
LEMMA RunsQuietly ==
  ASSUME NEW b, GatheringFrom(b), UNCHANGED <<call, buf>>, NEW j \in 1..2,
         NEW w \in Nat \ {0}, NEW x \in 1..4, RunsWaited(j, b, w, x)
  PROVE  RunsWaited(j, b, w, x)'
<1>1. Writing(1, 0, 0)
  BY ElsewhereQuiet
<1>2. Called /\ b \in Nat /\ b \in 0..blockNum
  BY LevelFacts DEF GatheringFrom
<1>3. Offset(b) \in Nat
  BY <1>2, OffsetIn
<1>4. 0 <= Offset(b)
  BY <1>3
<1> QED  BY <1>1, <1>2, <1>4, RunsKept

\* A group has at most four runs.
LEMMA RunsBound ==
  ASSUME NEW b, GatheringFrom(b)
  PROVE  Runs(b) \in 1..4
<1>1. PICK j \in 1..2, w \in Nat \ {0}, x \in 1..4, e \in 0..3 : LevelAt(b, j, w, x, e)
  BY LevelHere
<1>2. PICK n : n = Runs(b)
  OBVIOUS
<1>3. RunsOf(blockNum, b, w, n) /\ TilingAssumption
  <2>1. w < ByteRange /\ w = bind[b]
    BY <1>1 DEF LevelAt
  <2>2. Called /\ b \in Nat /\ b < blockNum /\ blockNum \in Nat
    BY LevelFacts DEF GatheringFrom
  <2> QED  BY <1>2, <2>1, <2>2, CallFacts DEF RunsOf, Runs
<1> QED  BY <1>2, <1>3, RunBounds DEF RunsBounded

\* The first core of a group waits for the next run.
LEMMA GlobalWaitOwn ==
  ASSUME NEW b, GatheringFrom(b), GlobalWait(b)
  PROVE  GatheringDone(b)
<1>1. PICK j \in 1..2, w \in Nat \ {0}, x \in 1..4, e \in 0..3 : LevelAt(b, j, w, x, e)
  BY LevelHere
<1>2. PICK g : g = <<b + bind[b] * waits[b], eventID[b]>>
  OBVIOUS
<1>3. /\ UNCHANGED <<call, buf, cur, bind, merge, eventID>> /\ Leads(b) /\ waits[b] < Runs(b)
      /\ g \in flags /\ flags' = flags \ {g} /\ waits' = [waits EXCEPT ![b] = waits[b] + 1]
  BY <1>2 DEF GlobalWait
<1>4. /\ b \in Nat /\ b < blockNum /\ blockNum \in Nat /\ b \in Cores
      /\ waits \in [Cores -> 1..4] /\ Called
  BY LevelFacts DEF GatheringFrom, UniqueInv, ControlOK
<1>5. /\ j = cur[b] /\ w = bind[b] /\ x = waits[b] /\ e = eventID[b] /\ j = CurOf(e)
      /\ w = Width[e + 1] /\ b % w = 0
      /\ merge[b] # NoMerge => x = Runs(b)
  BY <1>1, <1>3 DEF LevelAt
<1>6. merge[b] = NoMerge
  <2>1. waits[b] # Runs(b)
    <3>1. Runs(b) \in 1..4
      BY RunsBound
    <3> QED  BY <1>3, <1>5, <3>1
  <2> QED  BY <1>5, <2>1
<1>7. RunsWaited(j, b, w, x) /\ NoFlags(b, x * w)
  BY <1>1, <1>5, <1>6 DEF LevelAt
<1>8. PICK y \in 1..4 : y = x + 1 /\ waits'[b] = y
  <2>1. x + 1 \in 1..4
    <3>1. Runs(b) \in 1..4
      BY RunsBound
    <3> QED  BY <1>3, <1>5, <3>1
  <2> QED  BY <1>3, <1>4, <1>5, <2>1
<1>9. PICK s \in Nat : s = b + w * x /\ g = <<s, e>>
  <2>1. b + w * x \in Nat
    BY <1>4
  <2> QED  BY <1>2, <1>5, <2>1
<1>10. FlagData(s, e)
  <2>1. g[1] = s /\ g[2] = e
    BY <1>9
  <2>2. FlagData(g[1], g[2])
    BY <1>3 DEF GatheringFrom
  <2> QED  BY <2>1, <2>2
<1>11. LevelNow(b, j, e, w, y, NoMerge)
  BY <1>3, <1>4, <1>5, <1>6, <1>8 DEF LevelNow
<1>12. RunsWaited(j, b, w, y)'
  <2>1. RunsWaited(j, b, w, y)
    <3>1. ASSUME NEW i \in 1..y, b + w * (i - 1) < blockNum
          PROVE  HoldsBlocks(j, b + w * (i - 1), b + w * (i - 1) + w)
      <4>1. CASE i \in 1..x
        BY <1>7, <3>1, <4>1 DEF RunsWaited
      <4>2. CASE i = y
        <5>1. w * (i - 1) = w * x
          BY <1>8, <4>2
        <5>2. HoldsBlocks(j, s, s + w)
          BY <1>5, <1>10 DEF FlagData
        <5> QED  BY <1>9, <5>1, <5>2
      <4> QED  BY <1>8, <4>1, <4>2
    <3> QED  BY <3>1 DEF RunsWaited
  <2> QED  BY <1>3, <2>1, RunsQuietly
<1>13. NoFlags(b, y * w)'
  <2>1. y * w = x * w + w /\ b + y * w = s + w /\ b + x * w = s /\ x * w \in Nat
    <3>1. y * w = x * w + w
      BY <1>8
    <3>2. x * w = w * x /\ x * w \in Nat
      OBVIOUS
    <3> QED  BY <1>4, <1>9, <3>1, <3>2
  <2>2. \A f \in flags : s <= f[1] /\ f[1] < s + w => f = g
    BY <1>5, <1>9, <1>10 DEF FlagData
  <2>3. \A f \in flags : f[1] \in Nat
    <3>1. \A f \in flags : f[1] \in Cores
      BY GatheringFacts DEF GatheringFrom, Gathering
    <3> QED  BY <3>1, LevelFacts
  <2>4. \A f \in flags : ~(b <= f[1] /\ f[1] < s)
    BY <1>7, <2>1 DEF NoFlags
  <2>5. ASSUME NEW f \in flags' PROVE ~(b <= f[1] /\ f[1] < s + w)
    <3>1. f \in flags /\ f # g /\ f[1] \in Nat
      BY <1>3, <2>3
    <3>2. ~(b <= f[1] /\ f[1] < s) /\ ~(s <= f[1] /\ f[1] < s + w)
      BY <2>2, <2>4, <3>1
    <3> QED  BY <1>4, <3>1, <3>2
  <2> QED  BY <2>1, <2>5 DEF NoFlags
<1>14. LevelData(b)'
  BY <1>11, <1>12, <1>13, LevelDataNow
<1>15. Writing(1, 0, 0) /\ Elsewhere(b, 0, 0)
  BY <1>3, ElsewhereQuiet
<1>16. flags' \subseteq flags
  BY <1>3
<1> QED  BY <1>14, <1>15, <1>16 DEF GatheringDone, FlagsGo

\* Where a group ends.
LEMMA GroupEndIs ==
  ASSUME NEW w \in Nat \ {0}, NEW b \in Nat, b < blockNum, blockNum \in Nat
  PROVE  b + GroupSize(blockNum, w, b) = Lesser(b + 4 * w, blockNum)
<1>1. 4 * w \in Nat
  OBVIOUS
<1>2. PICK k \in Nat : k = 4 * w
  BY <1>1
<1> QED  BY <1>2 DEF GroupSize, Lesser

\* It begins to merge them.
LEMMA GlobalMergeOwn ==
  ASSUME NEW b, GatheringFrom(b), GlobalMerge(b)
  PROVE  GatheringDone(b)
<1>1. PICK j \in 1..2, w \in Nat \ {0}, x \in 1..4, e \in 0..3 : LevelAt(b, j, w, x, e)
  BY LevelHere
<1>2. PICK n, h, r : /\ n = Runs(b)
                     /\ h = [i \in 1..n |-> Offset(b + w * (i - 1))]
                     /\ r = [i \in 1..n |-> Offset(b + w * (i - 1) + QueueParts(blockNum, w, b, i))
                                              - Offset(b + w * (i - 1))]
  OBVIOUS
<1>3. /\ b \in Nat /\ b < blockNum /\ blockNum \in Nat /\ b \in Cores /\ b \in DOMAIN merge
      /\ UniqueInv /\ Called
  BY LevelFacts DEF GatheringFrom
<1>4. /\ j = cur[b] /\ w = bind[b] /\ x = waits[b] /\ e = eventID[b] /\ j = CurOf(e)
      /\ w < ByteRange
      /\ Leads(b) => b % w = 0
  BY <1>1 DEF LevelAt
<1>5. PICK m : m = [head |-> h, rest |-> r, out |-> Offset(b)]
  OBVIOUS
<1>6. /\ UNCHANGED <<call, buf, flags, cur, bind, waits, eventID>> /\ Leads(b)
      /\ waits[b] = Runs(b) /\ merge[b] = NoMerge
      /\ merge' = [merge EXCEPT ![b] = m]
  BY <1>2, <1>4, <1>5 DEF GlobalMerge, RunStart, RunEnd
<1>7. merge'[b] = m /\ n = QueueNum(blockNum, w, b) /\ x = n
  BY <1>2, <1>3, <1>4, <1>6 DEF Runs
<1>8. LevelNow(b, j, e, w, x, m)
  BY <1>3, <1>4, <1>6, <1>7 DEF LevelNow
<1>9. RunsWaited(j, b, w, x) /\ NoFlags(b, x * w)
  BY <1>1, <1>4, <1>6 DEF LevelAt
<1>10. RunsWaited(j, b, w, x)'
  BY <1>6, <1>9, RunsQuietly
<1>11. MergeUpTo(b, w)
  <2>1. PICK l, z : l = Offset(b) /\ z = Offset(b + GroupSize(blockNum, w, b))
    OBVIOUS
  <2>2. z = Offset(Lesser(b + 4 * w, blockNum))
    BY <1>3, <2>1, GroupEndIs
  <2>3. PICK f, g : f = Data(j) /\ g = Data(Other(j))
    OBVIOUS
  <2>4. \A i \in 1..n : Holds(Wanted, f, Offset(b + w * (i - 1)),
                                         Offset(Lesser(b + w * (i - 1) + w, blockNum)))
    <3>1. RunsOf(blockNum, b, w, n) /\ TilingAssumption
      BY <1>3, <1>4, <1>7, CallFacts DEF RunsOf
    <3>2. RunsBounded(blockNum, b, w, n)
      BY <3>1, RunBounds
    <3> SUFFICES ASSUME NEW i \in 1..n
                 PROVE  Holds(Wanted, f, Offset(b + w * (i - 1)),
                                         Offset(Lesser(b + w * (i - 1) + w, blockNum)))
      OBVIOUS
    <3>3. b + w * (i - 1) < blockNum
      BY <3>2 DEF RunsBounded
    <3>4. HoldsBlocks(j, b + w * (i - 1), b + w * (i - 1) + w)
      BY <1>7, <1>9, <3>3 DEF RunsWaited
    <3> QED  BY <2>3, <3>4 DEF HoldsBlocks, Holding
  <2>5. Merging(Wanted, f, g, [head |-> h, rest |-> r, out |-> Offset(b)], Offset(b),
                Offset(Lesser(b + 4 * w, blockNum)))
    BY <1>2, <1>3, <1>4, <1>7, <2>4, GlobalBegins
  <2>6. Merging(Wanted, f, g, m, l, z)
    BY <1>5, <2>1, <2>2, <2>5
  <2>7. Wanted' = Wanted /\ Data(cur[b])' = f /\ Data(Other(cur[b]))' = g
    BY <1>4, <1>6, <2>3, WantedKept DEF Data, Other
  <2>8. MergingAt(b, l, z)'
    BY <1>7, <2>6, <2>7 DEF MergingAt
  <2> QED  BY <2>1, <2>8 DEF MergeUpTo
<1>12. NoFlags(b, x * w)'
  BY <1>6, <1>9 DEF NoFlags
<1>13. LevelData(b)'
  BY <1>8, <1>10, <1>11, <1>12, LevelDataNow
<1>14. Writing(1, 0, 0) /\ Elsewhere(b, 0, 0)
  BY <1>6, ElsewhereQuiet
<1> QED  BY <1>6, <1>13, <1>14 DEF GatheringDone, FlagsGo

\* What is known of a core that merges its group, from element l to before h.
GroupAt(b, l, h) ==
  /\ Underway(b, l, h) /\ l = Offset(b) /\ h = Offset(GroupEnd(b))
  /\ h = Offset(b + GroupSize(blockNum, bind[b], b)) /\ h = UpToBlock(b + 4 * bind[b])
  /\ Leads(b) /\ waits[b] = Runs(b) /\ Elsewhere(b, l, h)

\* The group of blocks a core merges, its bounds named.
LEMMA GroupHere ==
  ASSUME NEW b, GatheringFrom(b), merge[b] # NoMerge
  PROVE  \E l \in Nat, h \in Nat : GroupAt(b, l, h)
<1>1. /\ b \in Cores /\ Called /\ WorkspaceOK /\ cur[b] \in 1..2 /\ LevelData(b) /\ LevelOK(b)
      /\ b \in Nat /\ b < blockNum /\ blockNum \in Nat /\ bind[b] \in Nat \ {0} /\ b \in DOMAIN merge
  BY LevelFacts DEF GatheringFrom
<1>2. GroupEnd(b) \in b..blockNum /\ Offset(GroupEnd(b)) \in Nat /\ Offset(b) \in Nat
  BY <1>1, GroupWithin
<1>3. PICK l \in Nat, h \in Nat : l = Offset(b) /\ h = Offset(GroupEnd(b))
  BY <1>2
<1>4. h <= padded
  <2>1. GroupEnd(b) \in 0..blockNum
    BY <1>1, <1>2
  <2> QED  BY <1>1, <1>3, <2>1, OffsetIn
<1>5. MergingAt(b, l, h) /\ Leads(b) /\ waits[b] = Runs(b)
  BY <1>1, <1>3 DEF LevelData, LevelOK
<1>6. Underway(b, l, h)
  BY <1>1, <1>4, <1>5 DEF Underway
<1>7. GroupEnd(b) = b + GroupSize(blockNum, bind[b], b) /\ GroupEnd(b) = Lesser(b + 4 * bind[b], blockNum)
  <2>1. GroupEnd(b) = b + GroupSize(blockNum, bind[b], b)
    BY DEF GroupEnd
  <2> QED  BY <1>1, <2>1, GroupEndIs
<1>8. Elsewhere(b, l, h)
  BY <1>3, ElsewhereMerge
<1>9. h = Offset(b + GroupSize(blockNum, bind[b], b)) /\ h = UpToBlock(b + 4 * bind[b])
  BY <1>3, <1>7 DEF UpToBlock
<1> QED  BY <1>3, <1>5, <1>6, <1>8, <1>9 DEF GroupAt

\* It goes on with the merge.
LEMMA GlobalRoundOwn ==
  ASSUME NEW b, GatheringFrom(b), MergeRound(b)
  PROVE  GatheringDone(b)
<1>1. merge[b] # NoMerge /\ UNCHANGED <<call, flags, cur, bind, waits, eventID>>
  BY RoundHasMerge
<1>2. PICK l \in Nat, h \in Nat : GroupAt(b, l, h)
  BY <1>1, GroupHere
<1>3. PICK j \in 1..2, w \in Nat \ {0}, x \in 1..4, e \in 0..3 : LevelAt(b, j, w, x, e)
  BY LevelHere
<1>4. /\ Underway(b, l, h) /\ l = Offset(b) /\ h = Offset(b + GroupSize(blockNum, bind[b], b))
      /\ Leads(b) /\ Elsewhere(b, l, h)
  BY <1>2 DEF GroupAt
<1>5. /\ Rewrites(Other(cur[b]), l, h) /\ MergingAt(b, l, h)' /\ merge'[b] # NoMerge
  BY <1>4, RoundStep DEF GatheringFrom
<1>6. /\ j = cur[b] /\ w = bind[b] /\ x = waits[b] /\ e = eventID[b] /\ j = CurOf(e)
      /\ Other(j) \in 1..2 /\ b % w = 0 /\ NoFlags(b, x * w)
  BY <1>3, <1>4 DEF LevelAt
<1>7. Writing(Other(j), l, h)
  <2>1. Called /\ WorkspaceOK
    BY <1>4 DEF Underway
  <2> QED  BY <1>1, <1>5, <1>6, <2>1 DEF Writing
<1>8. PICK m : m = merge'[b]
  OBVIOUS
<1>9. LevelNow(b, j, e, w, x, m)
  BY <1>1, <1>6, <1>8 DEF LevelNow, GatheringFrom
<1>10. MergeUpTo(b, w)
  BY <1>4, <1>5, <1>6 DEF MergeUpTo
<1>11. NoFlags(b, x * w)'
  BY <1>1, <1>6 DEF NoFlags
<1>12. LevelData(b)'
  BY <1>5, <1>8, <1>9, <1>10, <1>11, LevelDataNow
<1> QED  BY <1>1, <1>4, <1>7, <1>12 DEF GatheringDone, FlagsGo

\* It has merged them: the group is its run on the next level.
LEMMA GlobalCopyRestOwn ==
  ASSUME NEW b, GatheringFrom(b), GlobalCopyRest(b)
  PROVE  GatheringDone(b)
<1>1. CopyRest(b) /\ NextLevel(b) /\ UNCHANGED <<call, flags>>
  BY DEF GlobalCopyRest
<1>2. merge[b] # NoMerge
  <2>1. Len(merge[b].rest) = 1
    BY <1>1 DEF CopyRest
  <2>2. Len(NoMerge.rest) = 0
    BY DEF NoMerge
  <2> QED  BY <2>1, <2>2
<1>3. PICK l \in Nat, h \in Nat : GroupAt(b, l, h)
  BY <1>2, GroupHere
<1>4. PICK j \in 1..2, w \in Nat \ {0}, x \in 1..4, e \in 0..3 : LevelAt(b, j, w, x, e)
  BY LevelHere
<1>5. /\ Underway(b, l, h) /\ l = Offset(b) /\ h = UpToBlock(b + 4 * bind[b])
      /\ Leads(b) /\ Elsewhere(b, l, h) /\ waits[b] = Runs(b)
  BY <1>3 DEF GroupAt
<1>6. /\ j = cur[b] /\ w = bind[b] /\ x = waits[b] /\ Other(j) \in 1..2 /\ NoFlags(b, x * w)
      /\ w < ByteRange /\ w < blockNum
  BY <1>4, <1>5 DEF LevelAt
<1>7. PICK k \in 1..2 : k = Other(j)
  BY <1>6
<1>8. Rewrites(k, l, h) /\ Holding(k, l, h)' /\ merge' = [merge EXCEPT ![b] = NoMerge]
  BY <1>1, <1>5, <1>6, <1>7, CopyStep
<1>9. /\ Called /\ WorkspaceOK /\ b \in Nat /\ b < blockNum /\ blockNum \in Nat /\ b \in Cores
      /\ b \in DOMAIN merge
  BY LevelFacts DEF GatheringFrom
<1>10. Writing(k, l, h)
  BY <1>1, <1>8, <1>9 DEF Writing
<1>11. merge'[b] = NoMerge
  BY <1>8, <1>9
<1>12. LevelNow(b, k, e + 1, 4 * w, 1, NoMerge)
  BY <1>1, <1>4, <1>7, <1>11, NextLevelNow
<1>13. RunsWaited(k, b, 4 * w, 1)'
  <2>1. PICK d \in Nat : d = 4 * w
    <3>1. 4 * w \in Nat
      OBVIOUS
    <3> QED  BY <3>1
  <2>2. PICK c \in Nat : c = b + d
    BY <1>9
  <2>3. Offset(b)' = l /\ UpToBlock(c)' = h
    BY <1>1, <1>5, <1>6, <2>1, <2>2, CallKept DEF UpToBlock, Offset
  <2>4. HoldsBlocks(k, b, c)'
    BY <1>8, <2>3 DEF HoldsBlocks, UpToBlock, Holding
  <2>5. \A i \in 1..1 : b + d * (i - 1) = b /\ b + d * (i - 1) + d = c
    BY <1>9, <2>2
  <2>6. RunsWaited(k, b, d, 1)'
    BY <2>4, <2>5 DEF RunsWaited
  <2> QED  BY <2>1, <2>6
<1>14. NoFlags(b, 1 * (4 * w))'
  <2>1. x = 4 \/ blockNum <= b + x * w
    <3>1. TilingAssumption /\ x = QueueNum(blockNum, w, b) /\ x \in Nat
      <4>1. TilingAssumption
        BY <1>9, CallFacts
      <4>2. x = QueueNum(blockNum, w, b)
        BY <1>5, <1>6 DEF Runs
      <4> QED  BY <4>1, <4>2
    <3>2. x < 4 => blockNum <= b + x * w
      BY <1>6, <1>9, <3>1, RunsReachEnd
    <3> QED  BY <3>2
  <2>2. ASSUME NEW f \in flags PROVE ~(b <= f[1] /\ f[1] < b + 1 * (4 * w))
    <3>1. f[1] \in Cores
      BY GatheringFacts DEF GatheringFrom, Gathering
    <3>2. f[1] \in Nat /\ f[1] < blockNum
      BY <3>1, LevelFacts
    <3>3. ~(b <= f[1] /\ f[1] < b + x * w)
      BY <1>6 DEF NoFlags
    <3>4. x * w \in Nat
      OBVIOUS
    <3>5. CASE x = 4
      BY <3>3, <3>5
    <3>6. CASE blockNum <= b + x * w
      BY <1>9, <3>2, <3>3, <3>4, <3>6
    <3> QED  BY <2>1, <3>5, <3>6
  <2> QED  BY <1>1, <2>2 DEF NoFlags
<1>15. LevelData(b)'
  BY <1>12, <1>13, <1>14, LevelDataNow
<1> QED  BY <1>1, <1>5, <1>10, <1>15 DEF GatheringDone, FlagsGo

-----------------------------------------------------------------------------
(* All of them *)

\* Which steps the cores have that merge the blocks.
LEMMA GatheringHas ==
  ASSUME UniqueInv, NEW b \in Cores, pc[b] \in Gathering, Step(b)
  PROVE  /\ pc[b] = "global"
         /\ \/ GlobalSignal(b) \/ GlobalPass(b) \/ GlobalWait(b) \/ GlobalMerge(b)
            \/ GlobalCopyRest(b) \/ MergeRound(b)
<1>1. pc[b] \notin {"tiles", "block", "unique", "chain", "copy"}
  BY DEF Gathering
<1>2. /\ pc[b] \in Gathering
      /\ \/ GlobalSignal(b) \/ GlobalPass(b) \/ GlobalWait(b) \/ GlobalMerge(b)
         \/ GlobalCopyRest(b) \/ MergeRound(b)
  BY <1>1 DEF Step, SortTiles, BlockGroup, BlockCopyRest, BlockLevel, BlockDone,
              TileUnique, Chain, CopyOut
<1>3. MergeRound(b) => pc[b] = "global"
  <2>1. LevelOK(b)
    BY GatheringFacts
  <2> QED  BY <2>1, RoundHasMerge DEF LevelOK, Gathering
<1> QED  BY <1>2, <1>3 DEF GlobalSignal, GlobalPass, GlobalWait, GlobalMerge, GlobalCopyRest

\* A step of a core that merges.
LEMMA GatheringKeepsData ==
  ASSUME UniqueAssumption, UniqueInv, DataOK, NEW b \in Cores, pc[b] \in Gathering, Step(b)
  PROVE  DataOK'
<1>1. /\ pc[b] = "global"
      /\ \/ GlobalSignal(b) \/ GlobalPass(b) \/ GlobalWait(b) \/ GlobalMerge(b)
         \/ GlobalCopyRest(b) \/ MergeRound(b)
  BY GatheringHas
<1>2. \A c \in Cores : pc[c] \in Gathering
  BY OnePhase
<1>3. WorkspaceOK /\ (\A c \in Cores : LevelData(c)) /\ \A f \in flags : FlagData(f[1], f[2])
  BY <1>2 DEF DataOK, GatheringData
<1>4. GatheringFrom(b)
  BY <1>1, <1>3 DEF GatheringFrom
<1>5. GatheringDone(b)
  BY <1>1, <1>4, GlobalSignalOwn, GlobalPassOwn, GlobalWaitOwn, GlobalMergeOwn, GlobalCopyRestOwn,
     GlobalRoundOwn
<1>6. PICK i, lo, hi : Writing(i, lo, hi) /\ Elsewhere(b, lo, hi)
  BY <1>5 DEF GatheringDone
<1>7. FlagsGo(b) /\ LevelData(b)' /\ \A f \in flags' : f \in flags \/ FlagData(f[1], f[2])'
  BY <1>5 DEF GatheringDone
<1>8. Alone(b)
  BY StepAlone
<1>9. \A c \in Cores : LevelData(c)'
  BY <1>4, <1>6, <1>7, <1>8, LevelDataKept
<1>10. \A f \in flags' : FlagData(f[1], f[2])'
  BY <1>4, <1>6, <1>7, FlagDataKept
<1>11. WorkspaceOK'
  BY <1>3, <1>6, WorkspaceKept DEF Writing
<1>12. Cores' = Cores /\ 0 \in Cores
  BY <1>8, CallKept, CallFacts DEF Alone, UniqueInv, ControlOK, Called
<1>13. \A c \in Cores : pc'[c] \in Gathering
  <2>1. pc'[b] \in Gathering
    <3>1. pc = [c \in Cores |-> pc[c]]
      BY DEF UniqueInv, ControlOK
    <3>2. CASE NextLevel(b)
      <4>1. pc'[b] = "sync2" \/ pc'[b] = "global"
        BY <3>1, <3>2 DEF NextLevel
      <4> QED  BY <4>1 DEF Gathering
    <3>3. CASE pc' = pc
      BY <3>3
    <3> QED  BY <1>1, <3>2, <3>3, RoundHasMerge DEF GlobalSignal, GlobalPass, GlobalWait,
                GlobalMerge, GlobalCopyRest
  <2> QED  BY <1>2, <1>8, <2>1 DEF Alone, SameCore
<1>14. GatheringData'
  BY <1>9, <1>10, <1>12 DEF GatheringData
<1>15. SortingData' /\ SortedTogether'
  <2>1. \A c \in Cores : pc'[c] \notin Sorting /\ pc'[c] # "unique"
    BY <1>13 DEF Sorting, Gathering
  <2> QED  BY <1>12, <2>1 DEF SortingData, SortedTogether
<1> QED  BY <1>11, <1>14, <1>15 DEF DataOK

\* Every step keeps the order.
LEMMA NextData ==
  ASSUME UniqueAssumption, BlocksFit, UniqueInv, DataOK, [Next]_vars
  PROVE  DataOK'
<1>1. CASE UNCHANGED vars
  BY <1>1, StutterData
<1>2. CASE SyncAll
  BY <1>2, MergingBeginsData, PackingBeginsData DEF SyncAll
<1>3. CASE \E b \in Cores : Step(b)
  <2>1. PICK b \in Cores : Step(b)
    BY <1>3
  <2>2. pc[b] \in Sorting \/ pc[b] \in Gathering \/ pc[b] \in Packing
    BY DEF UniqueInv, PhaseOK
  <2> QED  BY <2>1, <2>2, SortingKeepsData, GatheringKeepsData, PackingKeepsData
<1> QED  BY <1>1, <1>2, <1>3 DEF Next, Work, Returned

\* When the cores begin to drop duplicates, the workspace holds the sorted tensor, in
\* the buffer all of them look at: for every tensor whose blocks have no more tiles than
\* the counters of BlockSort hold.
THEOREM Sorted == BlocksFit => (Spec => []SortedTogether)
<1> SUFFICES ASSUME BlocksFit PROVE Spec => []SortedTogether
  OBVIOUS
<1>1. Init => UniqueInv /\ DataOK
  BY UniqueAssumption, InitInv, InitData
<1>2. UniqueInv /\ DataOK /\ [Next]_vars => (UniqueInv /\ DataOK)'
  BY UniqueAssumption, NextInv, NextData
<1>3. UniqueInv /\ DataOK => SortedTogether
  BY DEF DataOK
<1> QED  BY <1>1, <1>2, <1>3, PTL DEF Spec

-----------------------------------------------------------------------------
(* A block that loses its duplicates *)

\* In memory m, the part of the sorted tensor x behind key lo up to key hi has lost its
\* duplicates up to key mid: those kept, s, stand in front without indexes, the keys
\* behind mid are untouched, and so are the first key and the last index.
PackedIn(m, x, K, lo, mid, hi, s) ==
  /\ Enumerates(s, K) /\ Len(s) <= mid - lo
  /\ \A j \in 1..Len(s) : m[2 * lo + j] = s[j]
  /\ \A p \in (mid + 1)..hi : KeysOf(m)[p - 1] = x[p]
  /\ m[2 * lo + 1] = x[lo + 1] /\ m[2 * hi] = Index

\* At first it has lost none.
LEMMA NothingPacked ==
  ASSUME Inf \in Nat, NEW m, NEW x, NEW lo \in Nat, NEW hi \in Nat, lo < hi,
         \A p \in (lo + 1)..hi : KeysOf(m)[p - 1] = x[p], m[2 * hi] = Index
  PROVE  PackedIn(m, x, KeptOf(x, lo, lo, FALSE), lo, lo, hi, <<>>)
<1>1. KeptOf(x, lo, lo, FALSE) = {}
  <2>1. \A p : p \notin (lo + 1)..lo
    OBVIOUS
  <2> QED  BY <2>1 DEF KeptOf
<1>2. <<>> \in Seq(Keys) /\ Len(<<>>) = 0
  OBVIOUS
<1>3. Enumerates(<<>>, {})
  BY <1>2 DEF Enumerates
<1>4. m[2 * lo + 1] = x[lo + 1]
  <2>1. lo + 1 \in (lo + 1)..hi /\ (lo + 1) - 1 = lo
    OBVIOUS
  <2>2. KeysOf(m)[lo] = x[lo + 1]
    BY <2>1
  <2> QED  BY <2>2 DEF KeysOf
<1>5. PICK e : e = <<>>
  OBVIOUS
<1>6. Len(e) <= lo - lo /\ \A j \in 1..Len(e) : m[2 * lo + j] = e[j]
  <2>1. Len(e) = 0 /\ lo - lo = 0
    BY <1>2, <1>5
  <2> QED  BY <2>1
<1>7. PICK K : K = KeptOf(x, lo, lo, FALSE)
  OBVIOUS
<1>8. Enumerates(e, K)
  BY <1>1, <1>3, <1>5, <1>7
<1>9. PackedIn(m, x, K, lo, lo, hi, e)
  BY <1>4, <1>6, <1>8 DEF PackedIn
<1> QED  BY <1>5, <1>7, <1>9

\* A write elsewhere does not disturb it.
LEMMA PackedKept ==
  ASSUME NEW m, NEW m2, NEW x, NEW K, NEW lo \in Nat, NEW mid \in Nat, NEW hi \in Nat,
         lo <= mid, mid <= hi, lo < hi, NEW s, PackedIn(m, x, K, lo, mid, hi, s),
         \A p \in (2 * lo + 1)..(2 * hi) : m2[p] = m[p]
  PROVE  PackedIn(m2, x, K, lo, mid, hi, s)
<1>1. /\ Enumerates(s, K) /\ Len(s) <= mid - lo
      /\ \A j \in 1..Len(s) : m[2 * lo + j] = s[j]
      /\ \A p \in (mid + 1)..hi : KeysOf(m)[p - 1] = x[p]
      /\ m[2 * lo + 1] = x[lo + 1] /\ m[2 * hi] = Index
  BY DEF PackedIn
<1>2. PICK l \in Nat : l = Len(s)
  BY <1>1 DEF Enumerates
<1>3. ASSUME NEW j \in 1..l PROVE m2[2 * lo + j] = s[j]
  <2>1. 2 * lo + j \in (2 * lo + 1)..(2 * hi)
    BY <1>1, <1>2
  <2> QED  BY <1>1, <1>2, <2>1
<1>4. ASSUME NEW p \in (mid + 1)..hi PROVE KeysOf(m2)[p - 1] = x[p]
  <2>1. 2 * (p - 1) + 1 \in (2 * lo + 1)..(2 * hi) /\ p - 1 \in Nat
    OBVIOUS
  <2>2. KeysOf(m2)[p - 1] = m2[2 * (p - 1) + 1] /\ KeysOf(m)[p - 1] = m[2 * (p - 1) + 1]
    BY <2>1 DEF KeysOf
  <2> QED  BY <1>1, <2>1, <2>2
<1>5. 2 * lo + 1 \in (2 * lo + 1)..(2 * hi) /\ 2 * hi \in (2 * lo + 1)..(2 * hi)
  OBVIOUS
<1> QED  BY <1>1, <1>2, <1>3, <1>4, <1>5 DEF PackedIn

\* The keys of a tile of the sorted tensor, and what the code makes of them.
TileSeen(x, V, T, mid, inf, z, keys) ==
  /\ TileLength \in Nat \ {0} /\ mid \in Nat /\ mid + TileLength <= T
  /\ inf \in BOOLEAN /\ (inf => Inf \in V /\ mid + TileLength = T)
  /\ z \in Seq(Keys) /\ Len(z) = TileLength
  /\ \A i \in 1..TileLength : z[i] = x[mid + i]
  /\ keys = IF inf THEN Append(Distinct(z), Inf) ELSE Distinct(z)

\* Infinity comes last.
LEMMA WithInf ==
  ASSUME Inf \in Nat \ {0}, NEW u, NEW F, Enumerates(u, F), \A v \in F : v < Inf
  PROVE  Enumerates(Append(u, Inf), F \cup {Inf}) /\ Len(Append(u, Inf)) = Len(u) + 1
<1>1. /\ u \in Seq(Keys)
      /\ \A i \in 1..Len(u), j \in 1..Len(u) : i < j => u[i] < u[j]
      /\ \A j \in 1..Len(u) : u[j] \in F
      /\ \A v \in F : \E j \in 1..Len(u) : u[j] = v
  BY DEF Enumerates
<1>2. PICK n \in Nat : n = Len(u)
  BY <1>1
<1>3. Inf \in Keys
  BY DEF Keys
<1>4. PICK w : w = Append(u, Inf)
  OBVIOUS
<1>5. /\ w \in Seq(Keys) /\ Len(w) = n + 1
      /\ \A i \in 1..n : w[i] = u[i]
      /\ w[n + 1] = Inf
  BY <1>1, <1>2, <1>3, <1>4, Appended
<1>6. ASSUME NEW i \in 1..(n + 1), NEW j \in 1..(n + 1), i < j PROVE w[i] < w[j]
  <2>1. i \in 1..n /\ (j \in 1..n \/ j = n + 1)
    BY <1>6
  <2>2. w[i] = u[i] /\ u[i] < Inf
    BY <1>1, <1>2, <1>5, <2>1
  <2>3. CASE j \in 1..n
    BY <1>1, <1>2, <1>5, <1>6, <2>1, <2>3
  <2>4. CASE j = n + 1
    BY <1>5, <2>2, <2>4
  <2> QED  BY <2>1, <2>3, <2>4
<1>7. ASSUME NEW j \in 1..(n + 1) PROVE w[j] \in F \cup {Inf}
  <2>1. j \in 1..n \/ j = n + 1
    OBVIOUS
  <2> QED  BY <1>1, <1>2, <1>5, <2>1
<1>8. ASSUME NEW v \in F PROVE \E j \in 1..(n + 1) : w[j] = v
  <2>1. PICK j \in 1..n : u[j] = v
    BY <1>1, <1>2
  <2>2. j \in 1..(n + 1)
    OBVIOUS
  <2> QED  BY <1>5, <2>1, <2>2
<1>9. \E j \in 1..(n + 1) : w[j] = Inf
  <2>1. n + 1 \in 1..(n + 1)
    OBVIOUS
  <2> QED  BY <1>5, <2>1
<1> QED  BY <1>2, <1>4, <1>5, <1>6, <1>7, <1>8, <1>9 DEF Enumerates

\* They are what is kept of the tile, and not more than the tile has.
LEMMA TileDistinct ==
  ASSUME Inf \in Nat \ {0}, NEW x, NEW V, NEW n, NEW T, Arranged(x, V, n, T),
         NEW mid, NEW inf, NEW z, NEW keys, TileSeen(x, V, T, mid, inf, z, keys)
  PROVE  /\ Enumerates(keys, KeptOf(x, mid, mid + TileLength, inf))
         /\ Len(keys) <= TileLength
<1>0. PICK L \in Nat \ {0} : L = TileLength
  BY DEF TileSeen
<1>1. /\ mid \in Nat /\ mid + L <= T /\ inf \in BOOLEAN
      /\ inf => Inf \in V /\ mid + L = T
      /\ z \in Seq(Keys) /\ Len(z) = L
      /\ \A i \in 1..L : z[i] = x[mid + i]
      /\ keys = IF inf THEN Append(Distinct(z), Inf) ELSE Distinct(z)
  BY <1>0 DEF TileSeen
<1>2. /\ T \in Nat /\ n \in 1..T
      /\ \A p \in 1..T : x[p] \in Nat /\ x[p] <= Inf
      /\ \A p \in 1..T, q \in 1..T : p <= q => x[p] <= x[q]
  BY ArrangedKeys
<1>3. \A i \in 1..L : mid + i \in 1..T
  BY <1>1, <1>2
<1>4. Ordered(z)
  <2> SUFFICES ASSUME NEW i \in 1..L, NEW j \in 1..L, i <= j PROVE z[i] <= z[j]
    BY <1>1 DEF Ordered
  <2>1. mid + i <= mid + j
    BY <1>1
  <2> QED  BY <1>1, <1>2, <1>3, <2>1
<1>5. PICK u : u = Distinct(z)
  OBVIOUS
<1>6. DistinctOf(z, L, u)
  BY <1>1, <1>4, <1>5, DistinctFacts
<1>7. Enumerates(u, Finite(z)) /\ Len(u) <= L /\ (z[L] = Inf => Len(u) < L)
  BY <1>6 DEF DistinctOf
<1>8. KeptOf(x, mid, mid + L, inf) = Finite(z) \cup (IF inf THEN {Inf} ELSE {})
  <2>1. ASSUME NEW p \in (mid + 1)..(mid + L) PROVE \E i \in 1..L : x[p] = z[i]
    <3>1. p - mid \in 1..L /\ mid + (p - mid) = p
      BY <1>1
    <3> QED  BY <1>1, <3>1
  <2>2. ASSUME NEW i \in 1..L PROVE mid + i \in (mid + 1)..(mid + L) /\ x[mid + i] = z[i]
    BY <1>1
  <2>3. {x[p] : p \in (mid + 1)..(mid + L)} = {z[i] : i \in 1..L}
    BY <2>1, <2>2
  <2>4. Finite(z) = {z[i] : i \in 1..L} \ {Inf}
    BY <1>1 DEF Finite
  <2> QED  BY <2>3, <2>4 DEF KeptOf
<1>9. CASE ~inf
  <2>1. keys = u /\ KeptOf(x, mid, mid + L, inf) = Finite(z)
    BY <1>1, <1>5, <1>8, <1>9
  <2> QED  BY <1>0, <1>7, <2>1
<1>10. CASE inf
  <2>1. keys = Append(u, Inf) /\ KeptOf(x, mid, mid + L, inf) = Finite(z) \cup {Inf}
    BY <1>1, <1>5, <1>8, <1>10
  <2>2. \A v \in Finite(z) : v < Inf
    <3> SUFFICES ASSUME NEW i \in 1..L, z[i] # Inf PROVE z[i] < Inf
      BY <1>1 DEF Finite
    <3>1. z[i] \in Nat /\ z[i] <= Inf
      BY <1>1, <1>2, <1>3
    <3> QED  BY <3>1
  <2>3. Enumerates(keys, Finite(z) \cup {Inf}) /\ Len(keys) = Len(u) + 1
    BY <1>7, <2>1, <2>2, WithInf
  <2>4. z[L] = Inf
    <3>1. L \in 1..L /\ mid + L = T /\ x[n] = Inf /\ T \in 1..T
      BY <1>1, <1>2, <1>10 DEF Arranged
    <3>2. x[T] \in Nat /\ x[T] <= Inf /\ x[n] <= x[T]
      BY <1>2, <3>1
    <3>3. x[T] = Inf
      BY <3>1, <3>2
    <3> QED  BY <1>1, <3>1, <3>3
  <2>5. PICK l \in Nat : l = Len(u)
    BY <1>7 DEF Enumerates
  <2>6. Len(keys) <= L
    BY <1>7, <2>3, <2>4, <2>5
  <2>7. Enumerates(keys, KeptOf(x, mid, mid + L, inf))
    BY <2>1, <2>3
  <2> QED  BY <1>0, <2>6, <2>7
<1> QED  BY <1>1, <1>9, <1>10

\* A block up to key mid, before its next tile.
TileFrom(m, x, V, n, T, lo, mid, hi, s) ==
  /\ Arranged(x, V, n, T) /\ m \in [1..(2 * T) -> Keys \cup {Index}]
  /\ TileLength \in Nat \ {0} /\ lo \in Nat /\ mid \in Nat /\ hi \in Nat
  /\ lo <= mid /\ mid + TileLength <= hi /\ hi <= T
  /\ PackedIn(m, x, KeptOf(x, lo, mid, FALSE), lo, mid, hi, s)

\* How many of the keys s stay in front of the keys of the next tile.
Staying(s, keys) ==
  IF Len(s) > 0 /\ Len(keys) > 0 /\ s[Len(s)] = keys[1] THEN Len(s) - 1 ELSE Len(s)

\* The keys kept before go together with those of the tile.
LEMMA TileJoined ==
  ASSUME Inf \in Nat \ {0}, NEW m, NEW x, NEW V, NEW n, NEW T, NEW lo, NEW mid, NEW hi, NEW s,
         TileFrom(m, x, V, n, T, lo, mid, hi, s),
         NEW inf, NEW keys, Enumerates(keys, KeptOf(x, mid, mid + TileLength, inf)),
         NEW k, k = Staying(s, keys)
  PROVE  \E w : Joined(s, keys, k, w) /\ Enumerates(w, KeptOf(x, lo, mid + TileLength, inf))
<1>0. PICK L \in Nat \ {0} : L = TileLength
  BY DEF TileFrom
<1>1. /\ Arranged(x, V, n, T) /\ lo \in Nat /\ mid \in Nat /\ hi \in Nat
      /\ lo <= mid /\ mid + L <= hi /\ hi <= T
      /\ PackedIn(m, x, KeptOf(x, lo, mid, FALSE), lo, mid, hi, s)
  BY <1>0 DEF TileFrom
<1>2. PICK A, B : A = KeptOf(x, lo, mid, FALSE) /\ B = KeptOf(x, mid, mid + L, inf)
  OBVIOUS
<1>3. Enumerates(s, A) /\ Enumerates(keys, B)
  BY <1>0, <1>1, <1>2 DEF PackedIn
<1>4. s \in Seq(Keys) /\ keys \in Seq(Keys)
  BY <1>3 DEF Enumerates
<1>5. PICK l \in Nat : l = Len(s)
  BY <1>4
<1>6. k \in Nat /\ k <= l
  BY <1>5 DEF Staying
<1>7. PICK u : u = SubSeq(s, 1, k)
  OBVIOUS
<1>8. u \in Seq(Keys) /\ Len(u) = k /\ \A i \in 1..k : u[i] = s[i]
  BY <1>4, <1>5, <1>6, <1>7, FirstOf
<1>9. PICK w : w = u \o keys
  OBVIOUS
<1>10. /\ w \in Seq(Keys) /\ Len(w) = k + Len(keys)
       /\ \A p \in 1..k : w[p] = u[p]
       /\ \A p \in 1..Len(keys) : w[k + p] = keys[p]
  <2>1. u \in Seq(Keys) /\ keys \in Seq(Keys)
    BY <1>4, <1>8
  <2>2. /\ u \o keys \in Seq(Keys) /\ Len(u \o keys) = Len(u) + Len(keys)
        /\ \A p \in 1..Len(u) : (u \o keys)[p] = u[p]
        /\ \A p \in 1..Len(keys) : (u \o keys)[Len(u) + p] = keys[p]
    BY <2>1, Concatenated
  <2> QED  BY <1>8, <1>9, <2>2
<1>11. Joined(s, keys, k, w)
  BY <1>8, <1>10 DEF Joined
<1>12. /\ T \in Nat /\ \A p \in 1..T : x[p] \in Nat /\ x[p] <= Inf
       /\ \A p \in 1..T, q \in 1..T : p <= q => x[p] <= x[q]
  BY <1>1, ArrangedKeys
<1>13. ASSUME NEW a \in A, NEW c \in B PROVE a <= c
  <2>1. PICK p \in (lo + 1)..mid : a = x[p]
    BY <1>2 DEF KeptOf
  <2>2. p \in 1..T /\ p <= mid
    BY <1>1, <1>12
  <2>3. CASE c = Inf
    BY <1>12, <2>1, <2>2, <2>3
  <2>4. CASE c # Inf
    <3>1. PICK q \in (mid + 1)..(mid + L) : c = x[q]
      BY <1>2, <2>4 DEF KeptOf
    <3>2. q \in 1..T /\ p <= q
      BY <1>1, <1>12, <2>2
    <3> QED  BY <1>12, <2>1, <2>2, <3>1, <3>2
  <2> QED  BY <2>3, <2>4
<1>14. k = IF Len(s) > 0 /\ Len(keys) > 0 /\ s[Len(s)] = keys[1] THEN Len(s) - 1 ELSE Len(s)
  BY DEF Staying
<1>15. Enumerates(w, A \cup B)
  BY <1>3, <1>6, <1>11, <1>13, <1>14, EnumeratesBoth
<1>16. A \cup B = KeptOf(x, lo, mid + L, inf)
  <2>1. \A p : p \in (lo + 1)..(mid + L) <=> p \in (lo + 1)..mid \/ p \in (mid + 1)..(mid + L)
    BY <1>1
  <2> DEFINE X == (lo + 1)..mid
             Y == (mid + 1)..(mid + L)
             Z == (lo + 1)..(mid + L)
             I == IF inf THEN {Inf} ELSE {}
  <2>2. /\ A = {x[p] : p \in X} \ {Inf}
        /\ B = ({x[p] : p \in Y} \ {Inf}) \cup I
        /\ KeptOf(x, lo, mid + L, inf) = ({x[p] : p \in Z} \ {Inf}) \cup I
    BY <1>2 DEF KeptOf
  <2>3. \A p : p \in Z <=> p \in X \/ p \in Y
    BY <2>1
  <2> HIDE DEF X, Y, Z, I
  <2> QED  BY <2>2, <2>3
<1> QED  BY <1>0, <1>11, <1>15, <1>16

\* The block afterwards: the keys kept, w, end with the last key that was seen.
TilePacked(m, m2, x, V, T, lo, mid, hi, inf, s, keys, cnt, w) ==
  /\ m2 \in [1..(2 * T) -> Keys \cup {Index}]
  /\ \A p \in 1..(2 * T) : p <= 2 * lo \/ 2 * hi <= p => m2[p] = m[p]
  /\ PackedIn(m2, x, KeptOf(x, lo, mid + TileLength, inf), lo, mid + TileLength, hi, w)
  /\ Len(w) = cnt
  /\ keys # <<>> => cnt > 0 /\ w[cnt] = keys[Len(keys)]
  /\ keys = <<>> => cnt = Len(s) /\ (cnt > 0 => w[cnt] = s[cnt])

\* The keys of the tile are written behind those that stay.
LEMMA TileWritten ==
  ASSUME Inf \in Nat \ {0}, NEW m, NEW x, NEW V, NEW n, NEW T, NEW lo, NEW mid, NEW hi, NEW s,
         TileFrom(m, x, V, n, T, lo, mid, hi, s),
         NEW inf, NEW z, NEW keys, TileSeen(x, V, T, mid, inf, z, keys),
         NEW k, k = Staying(s, keys), NEW m2, m2 = WriteAt(m, 2 * lo + k, keys)
  PROVE  \E w : TilePacked(m, m2, x, V, T, lo, mid, hi, inf, s, keys, k + Len(keys), w)
<1>0. PICK L \in Nat \ {0} : L = TileLength
  BY DEF TileFrom
<1>1. /\ Arranged(x, V, n, T) /\ m \in [1..(2 * T) -> Keys \cup {Index}]
      /\ lo \in Nat /\ mid \in Nat /\ hi \in Nat
      /\ lo <= mid /\ mid + L <= hi /\ hi <= T
      /\ PackedIn(m, x, KeptOf(x, lo, mid, FALSE), lo, mid, hi, s)
  BY <1>0 DEF TileFrom
<1>2. Enumerates(keys, KeptOf(x, mid, mid + TileLength, inf)) /\ Len(keys) <= L
  BY <1>0, <1>1, TileDistinct
<1>3. PICK w : Joined(s, keys, k, w) /\ Enumerates(w, KeptOf(x, lo, mid + TileLength, inf))
  BY <1>2, TileJoined
<1>4. /\ Enumerates(s, KeptOf(x, lo, mid, FALSE)) /\ Len(s) <= mid - lo
      /\ \A j \in 1..Len(s) : m[2 * lo + j] = s[j]
      /\ \A p \in (mid + 1)..hi : KeysOf(m)[p - 1] = x[p]
      /\ m[2 * lo + 1] = x[lo + 1] /\ m[2 * hi] = Index
  BY <1>1 DEF PackedIn
<1>5. s \in Seq(Keys) /\ keys \in Seq(Keys)
  BY <1>2, <1>4 DEF Enumerates
<1>6. PICK l \in Nat, g \in Nat : l = Len(s) /\ g = Len(keys) /\ g <= L /\ l <= mid - lo
  BY <1>2, <1>4, <1>5
<1>7. k \in Nat /\ k <= l
  BY <1>6 DEF Staying
<1>8. T \in Nat
  BY <1>1, ArrangedKeys
<1>9. PICK N \in Nat, o \in Nat : N = 2 * T /\ o = 2 * lo + k /\ o + g <= N /\ o + g < 2 * hi
  BY <1>1, <1>6, <1>7, <1>8
<1>10. PICK S : S = Keys \cup {Index}
  OBVIOUS
<1>11. m \in [1..N -> S] /\ keys \in Seq(S)
  BY <1>1, <1>5, <1>9, <1>10
<1>12. /\ m2 \in [1..N -> S]
       /\ \A p \in 1..N : m2[p] = IF o < p /\ p <= o + g THEN keys[p - o] ELSE m[p]
  <2>1. m2 = WriteAt(m, o, keys)
    BY <1>9
  <2>2. keys \in Seq(S) /\ g \in Nat /\ g = Len(keys) /\ o \in Nat /\ o + g <= N /\ m \in [1..N -> S]
    BY <1>6, <1>9, <1>11
  <2>3. /\ WriteAt(m, o, keys) \in [1..N -> S]
        /\ \A p \in 1..N : WriteAt(m, o, keys)[p] = IF o < p /\ p <= o + g THEN keys[p - o] ELSE m[p]
    BY <2>2, WriteFacts
  <2> QED  BY <2>1, <2>3
<1>13. ASSUME NEW p \in 1..N, p <= 2 * lo \/ 2 * hi <= p PROVE m2[p] = m[p]
  BY <1>1, <1>7, <1>9, <1>12, <1>13
<1>14. /\ w \in Seq(Keys) /\ Len(w) = k + g
       /\ \A i \in 1..k : w[i] = s[i]
       /\ \A i \in 1..g : w[k + i] = keys[i]
  BY <1>3, <1>6 DEF Joined
<1>15. ASSUME NEW j \in 1..(k + g) PROVE m2[2 * lo + j] = w[j]
  <2>1. PICK p \in 1..N : p = 2 * lo + j
    BY <1>1, <1>7, <1>9
  <2>2. CASE j \in 1..k
    <3>1. m2[p] = m[p]
      BY <1>1, <1>7, <1>9, <1>12, <2>1, <2>2
    <3>2. m[2 * lo + j] = s[j]
      BY <1>4, <1>6, <1>7, <2>2
    <3> QED  BY <1>14, <2>1, <2>2, <3>1, <3>2
  <2>3. ASSUME NEW i \in 1..g, j = k + i PROVE m2[2 * lo + j] = w[j]
    <3>1. o < p /\ p <= o + g /\ p - o = i
      <4>1. lo \in Nat /\ k \in Nat
        BY <1>1, <1>7
      <4>2. p = o + i
        BY <1>9, <2>1, <2>3, <4>1
      <4> QED  BY <4>2
    <3>2. m2[p] = keys[i]
      BY <1>12, <3>1
    <3> QED  BY <1>14, <2>1, <2>3, <3>2
  <2>4. ~(j \in 1..k) => j - k \in 1..g /\ j = k + (j - k)
    BY <1>7
  <2> QED  BY <2>2, <2>3, <2>4
<1>16. ASSUME NEW p \in ((mid + L) + 1)..hi PROVE KeysOf(m2)[p - 1] = x[p]
  <2>1. PICK q \in 1..N : q = 2 * (p - 1) + 1 /\ o + g < q
    BY <1>1, <1>6, <1>7, <1>8, <1>9
  <2>2. m2[q] = m[q]
    BY <1>12, <2>1
  <2>3. p \in (mid + 1)..hi /\ p - 1 \in Nat
    BY <1>1
  <2>4. KeysOf(m2)[p - 1] = m2[q] /\ KeysOf(m)[p - 1] = m[q]
    BY <2>1, <2>3 DEF KeysOf
  <2> QED  BY <1>4, <2>2, <2>3, <2>4
<1>17. m2[2 * hi] = Index
  <2>1. 2 * hi \in 1..N
    BY <1>1, <1>8, <1>9
  <2> QED  BY <1>1, <1>4, <1>13, <2>1
\* The first key of the block is still the first.
<1>18. m2[2 * lo + 1] = x[lo + 1]
  <2>1. PICK p \in 1..N : p = 2 * lo + 1
    BY <1>1, <1>8, <1>9
  <2>2. CASE k + g = 0
    <3>1. m2[p] = m[p]
      BY <1>1, <1>7, <1>9, <1>12, <2>1, <2>2
    <3> QED  BY <1>4, <2>1, <3>1
  <2>3. CASE k + g > 0
    <3>1. m2[2 * lo + 1] = w[1]
      <4>1. 1 \in 1..(k + g)
        BY <1>7, <2>3
      <4> QED  BY <1>15, <4>1
    <3>2. PICK b : b = mid + TileLength /\ b = mid + L
      BY <1>0
    <3>3. b \in Nat /\ lo < b /\ b <= T /\ inf \in BOOLEAN /\ (inf => Inf \in V /\ b = T)
      <4>1. inf \in BOOLEAN /\ (inf => Inf \in V /\ mid + TileLength = T)
        BY DEF TileSeen
      <4> QED  BY <1>1, <1>8, <3>2, <4>1
    <3>4. KeepsPart(w, x, V, T, lo, b, inf)
      BY <1>1, <1>3, <3>2, <3>3 DEF KeepsPart
    <3>5. PartKept(w, x, V, n, T, lo, b, inf)
      BY <1>1, <3>4, PartFacts
    <3>6. Len(w) > 0 => w[1] = x[lo + 1]
      BY <3>5 DEF PartKept
    <3> QED  BY <1>14, <2>3, <3>1, <3>6
  <2> QED  BY <1>7, <2>2, <2>3
<1>19. ASSUME keys # <<>> PROVE k + g > 0 /\ w[k + g] = keys[g]
  <2>1. g # 0
    BY <1>5, <1>6, <1>19
  <2> QED  BY <1>7, <1>14, <2>1
<1>20. ASSUME keys = <<>> PROVE k + g = l /\ (k + g > 0 => w[k + g] = s[k + g])
  <2>1. g = 0
    BY <1>6, <1>20
  <2>2. k = l
    BY <1>6, <2>1 DEF Staying
  <2> QED  BY <1>6, <1>14, <2>1, <2>2
<1>21. PICK b \in Nat : b = mid + L
  BY <1>1
<1>22. PICK K : K = KeptOf(x, lo, mid + TileLength, inf)
  OBVIOUS
<1>23. PackedIn(m2, x, K, lo, b, hi, w)
  <2>1. Len(w) <= b - lo
    BY <1>1, <1>6, <1>7, <1>14, <1>21
  <2>2. \A j \in 1..Len(w) : m2[2 * lo + j] = w[j]
    BY <1>14, <1>15
  <2>3. \A p \in (b + 1)..hi : KeysOf(m2)[p - 1] = x[p]
    BY <1>16, <1>21
  <2> QED  BY <1>3, <1>17, <1>18, <1>21, <1>22, <2>1, <2>2, <2>3 DEF PackedIn
<1> QED  BY <1>0, <1>6, <1>9, <1>10, <1>12, <1>13, <1>14, <1>19, <1>21, <1>22, <1>23, <1>20 DEF TilePacked

-----------------------------------------------------------------------------
(* The values of the tensor *)

\* The sorted tensor, with the padding.
Tidy == Ascending(input \o [i \in 1..(padded - total) |-> Inf])

\* The values of the tensor, the least first.
Values == [j \in 1..Cardinality(ToSet(input)) |-> Nth(ToSet(input), j)]

\* The sequence s is the tensor, n keys long, with the padding, x is s sorted.
PaddedSort(s, x, n, T) ==
  /\ s \in Seq(Keys) /\ Len(s) = T /\ x \in Seq(Keys) /\ Len(x) = T
  /\ \A i \in 1..n : s[i] = input[i]
  /\ \A i \in (n + 1)..T : s[i] = Inf
  /\ \A p \in 1..T : \E i \in 1..T : x[p] = s[i]
  /\ \A p \in 1..T, q \in 1..T : p <= q => x[p] <= x[q]
  /\ \A p \in 1..T : \A y \in Nat : x[p] <= y <=> p <= Upto(s, y)

\* The sorted tensor is that.
LEMMA TidySorts ==
  ASSUME UniqueAssumption, Called
  PROVE  \E s : PaddedSort(s, Tidy, total, padded)
<1>1. PICK T \in Nat, n \in Nat : T = padded /\ n = total /\ n <= T
  <2>1. padded \in Nat /\ total \in Nat /\ total <= padded
    BY PaddedFacts, CallFacts
  <2> QED  BY <2>1
<1>2. Inf \in Nat \ {0} /\ Keys = 1..Inf /\ input \in Seq(Keys) /\ Len(input) = n
  BY <1>1 DEF UniqueAssumption, Called, Keys, total
<1>3. PICK q : q = [i \in 1..(T - n) |-> Inf]
  OBVIOUS
<1>4. q \in Seq(Keys) /\ Len(q) = T - n /\ \A i \in 1..(T - n) : q[i] = Inf
  <2>1. T - n \in Nat /\ q \in [1..(T - n) -> Keys]
    BY <1>1, <1>2, <1>3
  <2> QED  BY <1>3, <2>1, IsSequence
<1>5. PICK s : s = input \o q
  OBVIOUS
<1>6. /\ s \in Seq(Keys) /\ Len(s) = T
      /\ \A i \in 1..n : s[i] = input[i]
      /\ \A i \in 1..(T - n) : s[n + i] = q[i]
  <2>1. PICK c \in Seq(Keys), d \in Seq(Keys) : c = input /\ d = q
    BY <1>2, <1>4
  <2>2. /\ c \o d \in Seq(Keys) /\ Len(c \o d) = Len(c) + Len(d)
        /\ \A i \in 1..Len(c) : (c \o d)[i] = c[i]
        /\ \A i \in 1..Len(d) : (c \o d)[Len(c) + i] = d[i]
    BY Concatenated
  <2>3. Len(c) = n /\ Len(d) = T - n /\ s = c \o d
    BY <1>2, <1>4, <1>5, <2>1
  <2>4. Len(s) = T
    BY <1>1, <2>2, <2>3
  <2> QED  BY <2>1, <2>2, <2>3, <2>4
<1>7. ASSUME NEW i \in (n + 1)..T PROVE s[i] = Inf
  <2>1. i - n \in 1..(T - n) /\ n + (i - n) = i
    OBVIOUS
  <2> QED  BY <1>4, <1>6, <2>1
<1>8. PICK x : x = Ascending(s)
  OBVIOUS
<1>9. /\ x \in Seq(Keys) /\ Len(x) = T /\ Rising(x, 1, T + 1)
      /\ \A p \in 1..T : \E i \in 1..T : x[p] = s[i]
  <2>1. PICK t : t = T /\ s \in Seq(Keys) /\ t \in Nat /\ t = Len(s)
    BY <1>1, <1>6
  <2>2. /\ Ascending(s) \in Seq(Keys) /\ Len(Ascending(s)) = t /\ Rising(Ascending(s), 1, t + 1)
        /\ \A p \in 1..t : \E i \in 1..t : Ascending(s)[p] = s[i]
    BY <1>2, <2>1, AscendingCounts
  <2> QED  BY <1>8, <2>1, <2>2
<1>10. \A p \in 1..T, q2 \in 1..T : p <= q2 => x[p] <= x[q2]
  <2>1. \A p : p \in 1..T => p \in 1..((T + 1) - 1)
    OBVIOUS
  <2> QED  BY <1>9, <2>1 DEF Rising
<1>11. \A p \in 1..T : \A y \in Nat : x[p] <= y <=> p <= Upto(s, y)
  <2>1. s \in Seq(0..Inf)
    <3>1. \A i \in 1..Len(s) : s[i] \in 0..Inf
      <4>1. \A i \in 1..Len(s) : s[i] \in Keys
        BY <1>6
      <4> QED  BY <1>2, <4>1
    <3> QED  BY <1>6, <3>1, Retyped
  <2>2. \A p \in 1..Len(s) : \A y \in Nat : Ascending(s)[p] <= y <=> p <= Upto(s, y)
    BY <1>2, <2>1, AscendingFacts
  <2> QED  BY <1>6, <1>8, <2>2
<1>12. PaddedSort(s, x, n, T)
  BY <1>6, <1>7, <1>9, <1>10, <1>11 DEF PaddedSort
<1>13. x = Tidy
  BY <1>1, <1>3, <1>5, <1>8 DEF Tidy
<1> QED  BY <1>1, <1>12, <1>13

\* Each value of s is some key of x.
LEMMA ValueFound ==
  ASSUME Inf \in Nat, NEW s, NEW x, NEW n, NEW T \in Nat, PaddedSort(s, x, n, T), NEW i \in 1..T
  PROVE  \E p \in 1..T : x[p] = s[i]
<1>1. /\ s \in Seq(Keys) /\ Len(s) = T /\ x \in Seq(Keys) /\ Len(x) = T
      /\ \A p \in 1..T : \A y \in Nat : x[p] <= y <=> p <= Upto(s, y)
  BY DEF PaddedSort
<1>2. \A e \in 1..T : s[e] \in Nat /\ 1 <= s[e] /\ x[e] \in Nat
  <2>1. \A e \in 1..T : s[e] \in Keys /\ x[e] \in Keys
    BY <1>1
  <2> QED  BY <2>1 DEF Keys
<1>3. PICK v \in Nat : v = s[i] /\ v - 1 \in Nat
  BY <1>2
<1> DEFINE A == {e \in 1..((T + 1) - 1) : s[e] <= v - 1}
           B == {e \in 1..((T + 1) - 1) : s[e] <= v}
<1>4. Upto(s, v - 1) = Cardinality(A) /\ Upto(s, v) = Cardinality(B)
  BY <1>1 DEF Upto, Num
<1>5. A \subseteq B /\ i \in B /\ i \notin A
  BY <1>2, <1>3
<1>6. IsFiniteSet(B) /\ Cardinality(B) \in 0..T
  <2>1. 1 \in Int /\ T + 1 \in Int /\ 1 <= T + 1
    OBVIOUS
  <2>2. IsFiniteSet(B) /\ Num(s, 1, T + 1, v) \in Nat /\ Num(s, 1, T + 1, v) <= (T + 1) - 1
    BY <2>1, NumBound
  <2> QED  BY <2>2 DEF Num
<1> HIDE DEF A, B
<1>7. A \in SUBSET B /\ B # A
  BY <1>5
<1>8. IsFiniteSet(A) /\ Cardinality(A) <= Cardinality(B) /\ Cardinality(A) # Cardinality(B)
  BY <1>6, <1>7, FS_Subset
<1>9. Cardinality(A) \in Nat
  BY <1>8, FS_CardinalityType
<1>10. PICK p \in 1..T : p = Cardinality(B)
  BY <1>6, <1>8, <1>9
<1>11. x[p] <= v
  BY <1>1, <1>3, <1>4, <1>10
<1>12. ~(x[p] <= v - 1)
  <2>1. ~(p <= Upto(s, v - 1))
    BY <1>4, <1>6, <1>8, <1>9, <1>10
  <2> QED  BY <1>1, <1>3, <2>1
<1> QED  BY <1>2, <1>3, <1>11, <1>12

\* The finite keys come first.
LEMMA FiniteFirst ==
  ASSUME UniqueAssumption, Called, NEW s, NEW x, NEW n, NEW T, n = total, T = padded,
         PaddedSort(s, x, n, T), NEW F, F = FiniteKeys(input)
  PROVE  /\ F \in 0..n /\ \A p \in 1..T : x[p] # Inf <=> p <= F
         /\ F < n <=> Inf \in ToSet(input)
<1>1. T \in Nat /\ n \in Nat /\ n <= T
  BY PaddedFacts, CallFacts
<1>2. Inf \in Nat \ {0} /\ Keys = 1..Inf /\ input \in Seq(Keys) /\ Len(input) = n
  BY <1>1 DEF UniqueAssumption, Called, Keys, total
<1>3. /\ s \in Seq(Keys) /\ Len(s) = T /\ x \in Seq(Keys) /\ Len(x) = T
      /\ \A i \in 1..n : s[i] = input[i]
      /\ \A i \in (n + 1)..T : s[i] = Inf
      /\ \A p \in 1..T : \A y \in Nat : x[p] <= y <=> p <= Upto(s, y)
  BY DEF PaddedSort
<1>4. \A e \in 1..T : s[e] \in Nat /\ s[e] <= Inf /\ x[e] \in Nat /\ x[e] <= Inf
  <2>1. \A e \in 1..T : s[e] \in Keys /\ x[e] \in Keys
    BY <1>3
  <2> QED  BY <1>2, <2>1
<1>5. PICK g \in Nat : g = Inf - 1
  BY <1>2
<1> DEFINE A == {i \in 1..n : input[i] # Inf}
<1>6. F = Cardinality(A)
  BY <1>2 DEF FiniteKeys
<1>7. Upto(s, g) = F
  <2>1. ASSUME NEW e \in 1..T PROVE s[e] <= g <=> e \in A
    <3>1. s[e] <= g <=> s[e] # Inf
      BY <1>4, <1>5, <1>2
    <3>2. CASE e \in 1..n
      BY <1>3, <3>1, <3>2
    <3>3. CASE e \notin 1..n
      <4>1. e \in (n + 1)..T
        BY <1>1, <3>3
      <4>2. s[e] = Inf
        BY <1>3, <4>1
      <4> QED  BY <3>1, <3>3, <4>2
    <3> QED  BY <3>2, <3>3
  <2>2. \A e : e \in 1..((T + 1) - 1) <=> e \in 1..T
    BY <1>1
  <2>3. \A e : e \in A => e \in 1..T
    BY <1>1
  <2> HIDE DEF A
  <2>4. {e \in 1..((T + 1) - 1) : s[e] <= g} = A
    BY <2>1, <2>2, <2>3
  <2> QED  BY <1>3, <1>6, <2>4 DEF Upto, Num
<1>8. IsFiniteSet(1..n) /\ Cardinality(1..n) = n
  <2>1. 1 \in Int /\ n \in Int
    BY <1>1
  <2>2. IsFiniteSet(1..n) /\ Cardinality(1..n) = IF 1 > n THEN 0 ELSE n - 1 + 1
    BY <2>1, FS_Interval
  <2> QED  BY <1>1, <2>2
<1>9. A \in SUBSET (1..n)
  OBVIOUS
<1>10. IsFiniteSet(A) /\ F <= n /\ (F = n => A = 1..n)
  <2> HIDE DEF A
  <2>1. IsFiniteSet(A) /\ Cardinality(A) <= Cardinality(1..n) /\ (Cardinality(1..n) = Cardinality(A) => 1..n = A)
    BY <1>8, <1>9, FS_Subset
  <2> QED  BY <1>6, <1>8, <2>1
<1>11. F \in Nat
  BY <1>6, <1>10, FS_CardinalityType
<1>12. ASSUME NEW p \in 1..T PROVE x[p] # Inf <=> p <= F
  <2>1. x[p] <= g <=> p <= F
    BY <1>3, <1>5, <1>7
  <2> QED  BY <1>2, <1>4, <1>5, <2>1
<1>13. Inf \in ToSet(input) <=> \E i \in 1..n : i \notin A
  <2>1. DOMAIN input = 1..n
    BY <1>2
  <2>2. ToSet(input) = {input[i] : i \in 1..n}
    BY <2>1 DEF ToSet
  <2> QED  BY <2>2
<1>14. F = n <=> \A i \in 1..n : i \in A
  <2>1. ASSUME \A i \in 1..n : i \in A PROVE F = n
    <3>1. A = 1..n
      BY <1>9, <2>1
    <3> QED  BY <1>6, <1>8, <3>1
  <2>2. ASSUME F = n PROVE \A i \in 1..n : i \in A
    <3>1. A = 1..n
      BY <1>10, <2>2
    <3> HIDE DEF A
    <3> QED  BY <3>1
  <2> QED  BY <2>1, <2>2
<1> QED  BY <1>1, <1>10, <1>11, <1>12, <1>13, <1>14

\* The sorted tensor has the values of the tensor.
LEMMA TidyFacts ==
  ASSUME UniqueAssumption, OrdinaryCalls, Called
  PROVE  /\ Arranged(Tidy, ToSet(input), total, padded)
         /\ tileNum(blockNum - 1) = 1 \/ Tidy[Offset(blockNum - 1) + 1] # Inf
         /\ blockNum = 1 \/ Tidy[1] # Inf
<1>1. PICK T \in Nat, n \in Nat : T = padded /\ n = total /\ n <= T /\ 1 <= n
  <2>1. padded \in Nat /\ total \in Nat \ {0} /\ total <= padded
    BY PaddedFacts, CallFacts
  <2> QED  BY <2>1
<1>2. Inf \in Nat \ {0} /\ Keys = 1..Inf /\ input \in Seq(Keys) /\ Len(input) = n
  BY <1>1 DEF UniqueAssumption, Called, Keys, total
<1>3. PICK x, V : x = Tidy /\ V = ToSet(input)
  OBVIOUS
<1>4. PICK s : PaddedSort(s, x, n, T)
  BY <1>1, <1>3, TidySorts
<1>5. PICK F : F = FiniteKeys(input)
  OBVIOUS
<1>6. /\ F \in 0..n /\ \A p \in 1..T : x[p] # Inf <=> p <= F
      /\ F < n <=> Inf \in V
  <2>1. /\ F \in 0..n /\ \A p \in 1..T : x[p] # Inf <=> p <= F
        /\ F < n <=> Inf \in ToSet(input)
    BY <1>1, <1>4, <1>5, FiniteFirst
  <2> QED  BY <1>3, <2>1
<1>7. /\ s \in Seq(Keys) /\ Len(s) = T /\ x \in Seq(Keys) /\ Len(x) = T
      /\ \A i \in 1..n : s[i] = input[i]
      /\ \A i \in (n + 1)..T : s[i] = Inf
      /\ \A p \in 1..T : \E i \in 1..T : x[p] = s[i]
      /\ \A p \in 1..T, q \in 1..T : p <= q => x[p] <= x[q]
  BY <1>4 DEF PaddedSort
<1>8. V = {input[i] : i \in 1..n} /\ V \subseteq Keys
  BY <1>2, <1>3 DEF ToSet
<1>9. ASSUME NEW p \in 1..T, x[p] # Inf PROVE x[p] \in V
  <2>1. PICK i \in 1..T : x[p] = s[i]
    BY <1>7
  <2>2. i \in 1..n
    <3>1. ~(i \in (n + 1)..T)
      BY <1>7, <1>9, <2>1
    <3> QED  BY <1>1, <3>1
  <2> QED  BY <1>7, <1>8, <2>1, <2>2
<1>10. ASSUME NEW p \in 1..n PROVE x[p] \in V
  <2>1. p \in 1..T
    BY <1>1
  <2>2. CASE x[p] # Inf
    BY <1>9, <2>1, <2>2
  <2>3. CASE x[p] = Inf
    <3>1. F < n
      BY <1>6, <2>1, <2>3
    <3> QED  BY <1>6, <2>3, <3>1
  <2> QED  BY <2>2, <2>3
<1>11. ASSUME NEW v \in V PROVE \E p \in 1..T : x[p] = v
  <2>1. PICK i \in 1..n : v = input[i]
    BY <1>8
  <2>2. PICK j \in 1..T : j = i
    BY <1>1
  <2>3. s[j] = v
    BY <1>7, <2>1, <2>2
  <2>4. Inf \in Nat /\ T \in Nat /\ PaddedSort(s, x, n, T)
    BY <1>2, <1>4
  <2>5. \E p \in 1..T : x[p] = s[j]
    BY <2>4, ValueFound
  <2> QED  BY <2>3, <2>5
<1>12. x[n] = Inf <=> Inf \in V
  <2>1. n \in 1..T
    BY <1>1
  <2>2. x[n] # Inf <=> n <= F
    BY <1>6, <2>1
  <2> QED  BY <1>1, <1>6, <2>2
<1>13. Ordered(x)
  BY <1>7 DEF Ordered
<1>14. Arranged(x, V, n, T)
  <2>1. n \in 1..T
    BY <1>1
  <2> QED  BY <1>1, <1>7, <1>8, <1>9, <1>10, <1>11, <1>12, <1>13, <2>1 DEF Arranged
<1>15. (blockNum = 1 \/ F > 0) /\ (tileNum(blockNum - 1) = 1 \/ F > Offset(blockNum - 1))
  <2>1. Ordinary(input, aivNum)
    <3>1. <<input, aivNum>> \in Calls
      BY DEF Called
    <3>2. \A c \in Calls : Ordinary(c[1], c[2])
      BY DEF OrdinaryCalls
    <3> QED  BY <3>1, <3>2
  <2>2. blockNum \in Nat
    BY CallFacts
  <2> QED  BY <1>5, <2>1, <2>2 DEF Ordinary, tileNum, Offset, blockNum, total
<1>16. ASSUME F > Offset(blockNum - 1) PROVE x[Offset(blockNum - 1) + 1] # Inf
  <2>1. PICK o \in Nat : o = Offset(blockNum - 1)
    <3>1. blockNum - 1 \in 0..blockNum /\ blockNum \in (blockNum - 1)..blockNum
      BY CallFacts
    <3> QED  BY <3>1, OffsetGrows
  <2>2. o + 1 \in 1..T /\ o + 1 <= F
    BY <1>1, <1>6, <1>16, <2>1
  <2> QED  BY <1>6, <2>1, <2>2
<1>17. ASSUME blockNum # 1 PROVE x[1] # Inf
  <2>1. 1 \in 1..T /\ 1 <= F
    BY <1>1, <1>6, <1>15, <1>17
  <2> QED  BY <1>6, <2>1
<1> QED  BY <1>1, <1>3, <1>14, <1>15, <1>16, <1>17

\* The values are listed, and there is room for them.
LEMMA ValuesFacts ==
  ASSUME UniqueAssumption, Called
  PROVE  Enumerates(Values, ToSet(input)) /\ Len(Values) <= padded
<1>1. PICK n \in Nat : n = total /\ n <= padded /\ padded \in Nat
  <2>1. padded \in Nat /\ total \in Nat \ {0} /\ total <= padded
    BY PaddedFacts, CallFacts
  <2> QED  BY <2>1
<1>2. Inf \in Nat \ {0} /\ Keys = 1..Inf /\ input \in Seq(Keys) /\ Len(input) = n
  BY <1>1 DEF UniqueAssumption, Called, Keys, total
<1>3. PICK V : V = ToSet(input)
  OBVIOUS
<1>4. V = {input[i] : i \in 1..n} /\ V \subseteq 1..Inf
  <2>1. DOMAIN input = 1..n
    BY <1>2
  <2>2. V = {input[i] : i \in 1..n}
    BY <1>3, <2>1 DEF ToSet
  <2>3. \A i \in 1..n : input[i] \in Keys
    BY <1>2
  <2>4. V \subseteq Keys
    BY <2>2, <2>3
  <2> QED  BY <1>2, <2>2, <2>4
<1>5. PICK c : Counter(c, V, Inf)
  BY <1>2, <1>4, CountUp
<1>6. PICK q \in Nat : q = Cardinality(V)
  <2>1. c \in [0..Inf -> Nat] /\ c[Inf] = Cardinality(V) /\ Inf \in 0..Inf
    BY <1>2, <1>5 DEF Counter
  <2> QED  BY <2>1
<1>7. PICK w : w = [j \in 1..q |-> Nth(V, j)]
  OBVIOUS
<1>8. w = Values
  BY <1>3, <1>6, <1>7 DEF Values
<1>9. ASSUME NEW j \in 1..q PROVE w[j] \in V /\ c[w[j]] = j
  <2>1. j \in 1..Cardinality(V) /\ Inf \in Nat
    BY <1>2, <1>6
  <2>2. Nth(V, j) \in V /\ c[Nth(V, j)] = j
    BY <1>4, <1>5, <2>1, NthFacts
  <2> QED  BY <1>7, <2>2
<1>10. /\ c \in [0..Inf -> Nat] /\ c[0] = 0 /\ c[Inf] = q
       /\ \A i \in 1..Inf : c[i] = c[i - 1] + (IF i \in V THEN 1 ELSE 0)
       /\ \A i \in 0..Inf, j \in 0..Inf : i <= j => c[i] <= c[j]
  BY <1>5, <1>6 DEF Counter
<1>11. w \in Seq(Keys) /\ Len(w) = q
  <2>1. \A j \in 1..q : w[j] \in Keys
    BY <1>2, <1>4, <1>9
  <2>2. w \in [1..q -> Keys]
    BY <1>7, <2>1
  <2> QED  BY <2>2, IsSequence
<1>12. ASSUME NEW i \in 1..q, NEW j \in 1..q, i < j PROVE w[i] < w[j]
  <2>1. PICK a \in V, b \in V : a = w[i] /\ b = w[j] /\ c[a] = i /\ c[b] = j
    BY <1>9
  <2>2. a \in 0..Inf /\ b \in 0..Inf /\ a \in Nat /\ b \in Nat
    BY <1>2, <1>4
  <2>3. b <= a => c[b] <= c[a]
    BY <1>10, <2>2
  <2>4. ~(b <= a)
    BY <1>12, <2>1, <2>3
  <2> QED  BY <2>1, <2>2, <2>4
<1>13. ASSUME NEW v \in V PROVE \E j \in 1..q : w[j] = v
  <2>1. v \in 1..Inf /\ v \in 0..Inf /\ v - 1 \in 0..Inf /\ Inf \in 0..Inf /\ v <= Inf
    BY <1>2, <1>4
  <2>2. c[v] = c[v - 1] + 1 /\ c[v - 1] \in Nat /\ c[v] \in Nat /\ c[v] <= q
    BY <1>10, <2>1
  <2>3. PICK j \in 1..q : j = c[v]
    BY <2>2
  <2>4. PICK a \in V : a = w[j] /\ c[a] = j
    BY <1>9
  <2>5. a \in 1..Inf /\ a \in 0..Inf /\ a - 1 \in 0..Inf
    BY <1>2, <1>4
  <2>6. c[a] = c[a - 1] + 1 /\ c[a - 1] \in Nat /\ c[a] \in Nat
    BY <1>10, <2>5
  <2>7. a <= v - 1 => c[a] <= c[v - 1]
    BY <1>10, <2>1, <2>5
  <2>8. v <= a - 1 => c[v] <= c[a - 1]
    BY <1>10, <2>1, <2>5
  <2>9. c[a] = c[v]
    BY <2>3, <2>4
  <2>10. ~(a <= v - 1) /\ ~(v <= a - 1)
    BY <2>2, <2>6, <2>7, <2>8, <2>9
  <2>11. a \in Nat /\ v \in Nat
    BY <1>2, <2>1, <2>5
  <2>12. a = v
    BY <2>10, <2>11
  <2> QED  BY <2>4, <2>12
<1>14. Enumerates(w, V)
  BY <1>9, <1>11, <1>12, <1>13 DEF Enumerates
<1>15. q <= n
  <2>1. IsFiniteSet(1..n) /\ Cardinality(1..n) = n
    <3>1. 1 \in Int /\ n \in Int
      OBVIOUS
    <3>2. IsFiniteSet(1..n) /\ Cardinality(1..n) = IF 1 > n THEN 0 ELSE n - 1 + 1
      BY <3>1, FS_Interval
    <3> QED  BY <3>2
  <2>2. PICK f : f = [i \in 1..n |-> input[i]]
    OBVIOUS
  <2>3. f \in Surjection(1..n, V)
    <3>1. f \in [1..n -> V]
      BY <1>4, <2>2
    <3>2. \A v \in V : \E i \in 1..n : f[i] = v
      BY <1>4, <2>2
    <3> QED  BY <3>1, <3>2 DEF Surjection
  <2>4. Cardinality(V) <= Cardinality(1..n)
    BY <2>1, <2>3, FS_Surjection
  <2> QED  BY <1>6, <2>1, <2>4
<1> QED  BY <1>1, <1>3, <1>8, <1>11, <1>14, <1>15

-----------------------------------------------------------------------------
(* The tiles of a block *)

\* Infinity is added to the last tile, if the tensor has it.
AddsInf(b, t) == b = blockNum - 1 /\ t = tileNum(b) /\ Inf \in ToSet(input)

\* The key behind which tile t + 1 of block b begins.
TileEnd(b, t) == Offset(b) + t * TileLength

\* What is kept of the first t tiles of block b.
KeptTiles(b, t) == KeptOf(Tidy, Offset(b), TileEnd(b, t), AddsInf(b, t))

\* The first t tiles of a block from key o to e of T, n of them those of the tensor.
BlockAt(b, o, e, N, n, T) ==
  /\ o = Offset(b) /\ e = Offset(b + 1) /\ N = tileNum(b) /\ n = total /\ T = padded
  /\ o \in Nat /\ e \in Nat /\ N \in Nat \ {0} /\ T \in Nat /\ n \in 1..T
  /\ TileLength \in Nat \ {0} /\ o < n /\ o < e /\ e <= T
  /\ b < blockNum - 1 => e < n
  /\ b = blockNum - 1 => e = T
  /\ TileEnd(b, 0) = o /\ TileEnd(b, N) = e
  /\ \A t \in 0..N : TileEnd(b, t) \in Nat /\ o <= TileEnd(b, t) /\ TileEnd(b, t) <= e
  /\ \A t \in 1..N : o < TileEnd(b, t)
  /\ \A t \in 0..(N - 1) : TileEnd(b, t + 1) = TileEnd(b, t) + TileLength /\ TileEnd(b, t) < e

\* Less than a tile is padding.
LEMMA PaddingShort ==
  ASSUME Called
  PROVE  padded - TileLength < total
<1>1. TilingAssumption /\ total \in Nat \ {0} /\ aivNum \in Nat \ {0} /\ TileLength \in Nat \ {0}
  BY CallFacts DEF TilingAssumption
<1>2. total \in (((TileNum(total) - 1) * TileLength) + 1)..(TileNum(total) * TileLength)
  BY <1>1, BlocksPartition
<1>3. PICK q \in Int, L \in Nat \ {0} : q = TileNum(total) /\ L = TileLength
  <2>1. total + TileLength - 1 \in Nat
    BY <1>1
  <2> QED  BY <1>1, <2>1 DEF TileNum
<1>4. PICK x \in Int : x = (q - 1) * L /\ q * L = x + L
  OBVIOUS
<1>5. total \in (x + 1)..(x + L) /\ padded = x + L
  BY <1>2, <1>3, <1>4 DEF padded
<1> QED  BY <1>1, <1>3, <1>4, <1>5

\* A block and its tiles.
LEMMA BlockTiles ==
  ASSUME Called, NEW b \in Cores
  PROVE  \E o, e, N, n, T : BlockAt(b, o, e, N, n, T)
<1>1. /\ blockNum \in Nat \ {0} /\ b \in 0..(blockNum - 1) /\ b \in 0..blockNum
      /\ b + 1 \in 0..blockNum /\ blockNum - 1 \in Cores /\ total \in Nat \ {0}
  BY CallFacts
<1>2. PICK L \in Nat \ {0} : L = TileLength
  BY CallFacts DEF TilingAssumption
<1>3. PICK o \in Nat, e \in Nat : o = Offset(b) /\ e = Offset(b + 1)
  BY <1>1, OffsetIn
<1>4. PICK T \in Nat, n \in Nat : T = padded /\ n = total /\ 1 <= n /\ n <= T /\ T - L < n
  BY <1>1, <1>2, PaddedFacts, PaddingShort
<1>5. PICK N \in Nat \ {0} : N = tileNum(b)
  BY BlockFacts
<1>6. e = o + N * L
  BY <1>2, <1>3, <1>5, BlockFacts
<1>7. e <= T
  BY <1>1, <1>3, <1>4, OffsetIn
<1>8. \A x \in Nat, y \in Nat : x * L \in Nat /\ (x <= y => x * L <= y * L)
  BY TimesGrows
<1>9. \A t : TileEnd(b, t) = o + t * L
  BY <1>2, <1>3 DEF TileEnd
<1>10. ASSUME NEW t \in 0..N PROVE TileEnd(b, t) \in Nat /\ o <= TileEnd(b, t) /\ TileEnd(b, t) <= e
  <2>1. t \in Nat /\ t <= N
    OBVIOUS
  <2>2. PICK x \in Nat, y \in Nat : x = t * L /\ y = N * L /\ x <= y
    BY <1>8, <2>1
  <2> QED  BY <1>6, <1>9, <2>2
<1>11. ASSUME NEW t \in Nat PROVE TileEnd(b, t + 1) = TileEnd(b, t) + L
  <2>1. (t + 1) * L = t * L + L /\ t * L \in Nat
    OBVIOUS
  <2> QED  BY <1>9, <2>1
<1>12. TileEnd(b, 0) = o /\ TileEnd(b, N) = e
  <2>1. 0 * L = 0
    OBVIOUS
  <2> QED  BY <1>6, <1>9, <2>1
<1>13. ASSUME NEW t \in 0..(N - 1) PROVE TileEnd(b, t + 1) = TileEnd(b, t) + L /\ TileEnd(b, t) < e
  <2>1. t \in 0..N /\ t + 1 \in 0..N /\ t \in Nat
    OBVIOUS
  <2>2. TileEnd(b, t) \in Nat /\ TileEnd(b, t + 1) <= e /\ TileEnd(b, t + 1) = TileEnd(b, t) + L
    BY <1>10, <1>11, <2>1
  <2> QED  BY <2>2
<1>14. ASSUME NEW t \in 1..N PROVE o < TileEnd(b, t)
  <2>1. t - 1 \in 0..N /\ t - 1 \in Nat /\ (t - 1) + 1 = t
    OBVIOUS
  <2>2. TileEnd(b, t - 1) \in Nat /\ o <= TileEnd(b, t - 1) /\ TileEnd(b, t) = TileEnd(b, t - 1) + L
    BY <1>10, <1>11, <2>1
  <2> QED  BY <2>2
<1>15. o < e
  <2>1. N \in 1..N
    OBVIOUS
  <2> QED  BY <1>12, <1>14, <2>1
\* The last block begins at least a tile before the end.
<1>16. PICK l \in Nat : l = Offset(blockNum - 1) /\ l + L <= T
  <2>1. PICK c \in Cores : c = blockNum - 1 /\ c + 1 = blockNum /\ c \in 0..blockNum
    BY <1>1
  <2>2. PICK M \in Nat \ {0}, x \in Nat : M = tileNum(c) /\ x = Offset(c)
    BY <2>1, BlockFacts, OffsetIn
  <2>3. Offset(c + 1) = x + M * L
    BY <1>2, <2>2, BlockFacts
  <2>4. T = x + M * L
    BY <1>4, <2>1, <2>3, PaddedFacts
  <2>5. PICK y \in Nat : y = M * L /\ L <= y
    <3>1. PICK u \in Nat : M = u + 1
      BY <2>2
    <3>2. u * L \in Nat /\ M * L = u * L + L
      BY <3>1
    <3> QED  BY <3>2
  <2> QED  BY <2>1, <2>2, <2>4, <2>5
<1>17. o <= l
  <2>1. blockNum - 1 \in b..blockNum
    BY <1>1
  <2> QED  BY <1>1, <1>3, <1>16, <2>1, OffsetGrows
<1>18. b < blockNum - 1 => e <= l
  <2>1. b < blockNum - 1 => blockNum - 1 \in (b + 1)..blockNum
    BY <1>1
  <2>2. b < blockNum - 1 => Offset(b + 1) <= Offset(blockNum - 1)
    BY <1>1, <2>1, OffsetGrows
  <2> QED  BY <1>3, <1>16, <2>2
<1>19. b = blockNum - 1 => e = T
  BY <1>1, <1>3, <1>4, PaddedFacts
<1>20. o < n /\ (b < blockNum - 1 => e < n)
  BY <1>4, <1>16, <1>17, <1>18
<1>21. BlockAt(b, o, e, N, n, T)
  BY <1>2, <1>3, <1>4, <1>5, <1>7, <1>10, <1>12, <1>13, <1>14, <1>15, <1>19, <1>20 DEF BlockAt
<1> QED  BY <1>21

\* The last block has as many tiles as any other.
LEMMA LastHasMost ==
  ASSUME Called, NEW b \in Cores
  PROVE  tileNum(b) <= tileNum(blockNum - 1)
<1>1. blockNum \in Nat \ {0} /\ b \in 0..(blockNum - 1) /\ blockNum - 1 \in Cores
  BY CallFacts
<1>2. PICK s, q : /\ s = ShortBlockNum(total, aivNum) /\ s \in Int
                  /\ q = ShortBlockTileNum(total, aivNum)
  <2>1. total \in Nat \ {0} /\ aivNum \in Nat \ {0} /\ TileLength \in Nat \ {0}
    BY CallFacts DEF TilingAssumption
  <2>2. total + TileLength - 1 \in Nat
    BY <2>1
  <2>3. TileNum(total) \in Int
    BY <2>1, <2>2 DEF TileNum
  <2>4. BlockNum(total, aivNum) = blockNum
    BY DEF blockNum
  <2>5. TileNum(total) % blockNum \in Int
    BY <1>1, <2>3
  <2>6. ShortBlockNum(total, aivNum) \in Int
    BY <1>1, <2>4, <2>5 DEF ShortBlockNum
  <2> QED  BY <2>6
<1>3. /\ tileNum(b) = IF s > b THEN q ELSE q + 1
      /\ tileNum(blockNum - 1) = IF s > blockNum - 1 THEN q ELSE q + 1
  BY <1>2 DEF tileNum, BlockTileNum
<1>4. tileNum(b) \in Nat /\ tileNum(blockNum - 1) \in Nat
  BY <1>1, BlockFacts
<1>5. CASE s > blockNum - 1
  <2>1. s > b
    BY <1>1, <1>2, <1>5
  <2> QED  BY <1>3, <1>4, <1>5, <2>1
<1>6. CASE ~(s > blockNum - 1)
  <2>1. tileNum(blockNum - 1) = q + 1 /\ (tileNum(b) = q \/ tileNum(b) = q + 1)
    BY <1>3, <1>6
  <2>2. CASE tileNum(b) = q
    BY <1>4, <2>1, <2>2
  <2>3. CASE tileNum(b) = q + 1
    BY <1>4, <2>1, <2>3
  <2> QED  BY <2>1, <2>2, <2>3
<1> QED  BY <1>5, <1>6

\* A block of several tiles begins with a finite key, and so does the first of several
\* blocks.
LEMMA BeginsFinite ==
  ASSUME UniqueAssumption, OrdinaryCalls, Called,
         NEW b \in Cores, (b = 0 /\ blockNum # 1) \/ tileNum(b) > 1
  PROVE  Tidy[Offset(b) + 1] # Inf
<1>1. /\ blockNum \in Nat \ {0} /\ b \in 0..(blockNum - 1) /\ blockNum - 1 \in Cores
      /\ b \in 0..blockNum /\ blockNum - 1 \in b..blockNum /\ 0 \in Cores
  BY CallFacts
<1>2. CASE b = 0 /\ blockNum # 1
  <2>1. Offset(0) = 0 /\ 0 + 1 = 1
    BY <1>1, BlockFacts
  <2> QED  BY <1>2, <2>1, TidyFacts
<1>3. CASE tileNum(b) > 1
  <2>1. PICK c \in Cores : c = blockNum - 1
    BY <1>1
  <2>2. tileNum(c) # 1
    <3>1. tileNum(b) <= tileNum(c) /\ tileNum(b) \in Nat /\ tileNum(c) \in Nat
      BY <2>1, LastHasMost, BlockFacts
    <3> QED  BY <1>3, <3>1
  <2>3. Tidy[Offset(c) + 1] # Inf
    BY <2>1, <2>2, TidyFacts
  <2>4. PICK o \in Nat, l \in Nat : o = Offset(b) /\ l = Offset(c) /\ o <= l
    BY <1>1, <2>1, OffsetGrows
  <2>5. PICK o2, e2, N2, n2, T2 : BlockAt(c, o2, e2, N2, n2, T2)
    BY BlockTiles
  <2>6. l < padded /\ padded \in Nat
    BY <2>4, <2>5 DEF BlockAt
  <2>7. PICK x, T : x = Tidy /\ T = padded /\ T \in Nat
    BY <2>6
  <2>8. Arranged(x, ToSet(input), total, T)
    BY <2>7, TidyFacts
  <2>9. Inf \in Nat
    BY DEF UniqueAssumption
  <2>10. /\ \A p \in 1..T : x[p] \in Nat /\ x[p] <= Inf
         /\ \A p \in 1..T, q \in 1..T : p <= q => x[p] <= x[q]
    BY <2>8, <2>9, ArrangedKeys
  <2>11. o + 1 \in 1..T /\ l + 1 \in 1..T /\ o + 1 <= l + 1
    BY <2>4, <2>6, <2>7
  <2>12. x[o + 1] <= x[l + 1] /\ x[o + 1] \in Nat /\ x[l + 1] \in Nat /\ x[l + 1] <= Inf
    BY <2>10, <2>11
  <2>13. x[l + 1] # Inf
    BY <2>3, <2>4, <2>7
  <2>14. x[o + 1] # Inf
    BY <2>9, <2>12, <2>13
  <2> QED  BY <2>4, <2>7, <2>14
<1> QED  BY <1>2, <1>3

\* What depends on the call alone does not change.
LEMMA TilesStay ==
  ASSUME UNCHANGED call
  PROVE  /\ Tidy' = Tidy /\ Values' = Values /\ padded' = padded /\ total' = total
         /\ input' = input /\ blockNum' = blockNum /\ Cores' = Cores
         /\ \A b, t : /\ TileEnd(b, t)' = TileEnd(b, t) /\ (AddsInf(b, t)' <=> AddsInf(b, t))
                      /\ KeptTiles(b, t)' = KeptTiles(b, t)
         /\ \A b : Offset(b)' = Offset(b) /\ tileNum(b)' = tileNum(b)
<1>1. /\ input' = input /\ blockNum' = blockNum /\ Cores' = Cores
      /\ \A b : Offset(b)' = Offset(b) /\ tileNum(b)' = tileNum(b)
  BY CallKept
<1>2. total' = total
  BY <1>1 DEF total
<1>3. padded' = padded
  BY <1>2 DEF padded
<1>4. Tidy' = Tidy
  BY <1>1, <1>2, <1>3 DEF Tidy
<1>5. Values' = Values
  BY <1>1 DEF Values
<1>6. \A b, t : TileEnd(b, t)' = TileEnd(b, t)
  BY <1>1 DEF TileEnd
<1>7. \A b, t : AddsInf(b, t)' <=> AddsInf(b, t)
  BY <1>1 DEF AddsInf
<1>8. \A b, t : KeptTiles(b, t)' = KeptTiles(b, t)
  BY <1>1, <1>4, <1>6, <1>7 DEF KeptTiles, KeptOf
<1> QED  BY <1>1, <1>2, <1>3, <1>4, <1>5, <1>6, <1>7, <1>8

-----------------------------------------------------------------------------
(* What the cores have kept *)

\* The keys s are what core b has kept so far.
KeptBy(b, s) ==
  /\ PackedIn(buf[cur[0]], Tidy, KeptTiles(b, tile[b]), Offset(b), TileEnd(b, tile[b]), Offset(b + 1), s)
  /\ uniq[b] = Len(s)
  /\ Len(s) > 0 => lastVal[b] = s[Len(s)]
  /\ tile[b] = tileNum(b) => counts[b] = Len(s)

\* A core has lost the duplicates of its first tiles, or of all.
PackedAt(b) ==
  /\ cur[b] = cur[0]
  /\ tile[b] <= tileNum(b) /\ (pc[b] = "unique" <=> tile[b] < tileNum(b))
  /\ tile[b] > 0 => (hasInf[b] <=> b = blockNum - 1 /\ Inf \in ToSet(input))
  /\ \E s : KeptBy(b, s)

\* Behind the barriers every core has; before, none has begun.
BlocksOK ==
  \A b \in Cores : IF pc[b] \in Packing THEN PackedAt(b) ELSE tile[b] = 0 /\ uniq[b] = 0

\* What is in the output is in its place, and all that the cores that are done kept is
\* there.
OutputOK ==
  /\ \A k \in 1..padded : dst[k] # Unwritten => k <= Len(Values) /\ dst[k] = Values[k]
  /\ \A b \in Cores : pc[b] = "done" =>
       \A v \in KeptTiles(b, tileNum(b)) : \E k \in 1..padded : dst[k] = v
  /\ dstCnt = IF pc[blockNum - 1] = "done" THEN Len(Values) ELSE 0

\* The inductive invariant: which keys each block has kept, and where the output has them.
PackOK == MemoryOK /\ BlocksOK /\ OutputOK

\* Core b has come to tile t of its block, in memory m, and kept the keys s.
KeptUpTo(b, t, m, s) ==
  PackedIn(m, Tidy, KeptTiles(b, t), Offset(b), TileEnd(b, t), Offset(b + 1), s)

\* What is to be shown of a core after a step.
LEMMA PackedNow ==
  ASSUME UNCHANGED call, NEW b, NEW t, NEW m, NEW s, t = tile'[b], m = buf'[cur'[0]],
         KeptUpTo(b, t, m, s), uniq'[b] = Len(s), Len(s) > 0 => lastVal'[b] = s[Len(s)],
         t = tileNum(b) => counts'[b] = Len(s),
         cur'[b] = cur'[0], t <= tileNum(b), pc'[b] = "unique" <=> t < tileNum(b),
         t > 0 => (hasInf'[b] <=> b = blockNum - 1 /\ Inf \in ToSet(input))
  PROVE  PackedAt(b)'
<1>1. /\ Tidy' = Tidy /\ input' = input /\ blockNum' = blockNum
      /\ Offset(b)' = Offset(b) /\ Offset(b + 1)' = Offset(b + 1) /\ tileNum(b)' = tileNum(b)
      /\ TileEnd(b, t)' = TileEnd(b, t) /\ KeptTiles(b, t)' = KeptTiles(b, t)
  BY TilesStay
<1>2. TileEnd(b, tile[b])' = TileEnd(b, t)
  BY <1>1 DEF TileEnd
<1>3. KeptTiles(b, tile[b])' = KeptTiles(b, t)
  BY <1>1 DEF KeptTiles, TileEnd, AddsInf
<1>4. KeptBy(b, s)'
  BY <1>1, <1>2, <1>3 DEF KeptBy, KeptUpTo, PackedIn, KeysOf
<1>5. \E u : KeptBy(b, u)'
  BY <1>4
<1> QED  BY <1>1, <1>5 DEF PackedAt

\* A step leaves what core b has alone.
SameBlock(b) ==
  /\ UNCHANGED call /\ cur'[b] = cur[b] /\ cur'[0] = cur[0] /\ tile'[b] = tile[b]
  /\ hasInf'[b] = hasInf[b] /\ uniq'[b] = uniq[b] /\ lastVal'[b] = lastVal[b]
  /\ counts'[b] = counts[b] /\ (pc'[b] = "unique" <=> pc[b] = "unique")
  /\ \A p \in (2 * Offset(b) + 1)..(2 * Offset(b + 1)) : buf'[cur[0]][p] = buf[cur[0]][p]

\* It still has it.
LEMMA PackedStays ==
  ASSUME Called, NEW b \in Cores, tile[b] \in Nat, PackedAt(b), SameBlock(b)
  PROVE  PackedAt(b)'
<1>1. PICK s : KeptBy(b, s)
  BY DEF PackedAt
<1>2. PICK t \in Nat : t = tile[b]
  OBVIOUS
<1>3. PICK m, m2 : m = buf[cur[0]] /\ m2 = buf'[cur[0]]
  OBVIOUS
<1>4. PICK o, e, N, n, T : BlockAt(b, o, e, N, n, T)
  BY BlockTiles
<1>5. /\ o = Offset(b) /\ e = Offset(b + 1) /\ N = tileNum(b) /\ N \in Nat
      /\ o \in Nat /\ e \in Nat /\ o < e
      /\ \A i \in 0..N : TileEnd(b, i) \in Nat /\ o <= TileEnd(b, i) /\ TileEnd(b, i) <= e
  BY <1>4 DEF BlockAt
<1>6. t <= N
  BY <1>2, <1>5 DEF PackedAt
<1>7. PICK mid \in Nat : mid = TileEnd(b, t) /\ o <= mid /\ mid <= e
  <2>1. t \in 0..N
    BY <1>5, <1>6
  <2> QED  BY <1>5, <2>1
<1>8. PICK K : K = KeptTiles(b, t)
  OBVIOUS
<1>9. PackedIn(m, Tidy, K, o, mid, e, s)
  BY <1>1, <1>2, <1>3, <1>5, <1>7, <1>8 DEF KeptBy
<1>10. \A p \in (2 * o + 1)..(2 * e) : m2[p] = m[p]
  BY <1>3, <1>5 DEF SameBlock
<1>11. PackedIn(m2, Tidy, K, o, mid, e, s)
  BY <1>5, <1>7, <1>9, <1>10, PackedKept
<1>12. KeptUpTo(b, t, m2, s)
  BY <1>5, <1>7, <1>8, <1>11 DEF KeptUpTo
<1>13. /\ UNCHANGED call /\ t = tile'[b] /\ m2 = buf'[cur'[0]] /\ cur'[b] = cur'[0]
       /\ uniq'[b] = Len(s) /\ (Len(s) > 0 => lastVal'[b] = s[Len(s)])
       /\ t = tileNum(b) => counts'[b] = Len(s)
  BY <1>1, <1>2, <1>3 DEF SameBlock, KeptBy, PackedAt
<1>14. /\ t <= tileNum(b) /\ (pc'[b] = "unique" <=> t < tileNum(b))
       /\ t > 0 => (hasInf'[b] <=> b = blockNum - 1 /\ Inf \in ToSet(input))
  BY <1>2 DEF SameBlock, PackedAt
<1> QED  BY <1>12, <1>13, <1>14, PackedNow

\* Nobody wrote in the output or got done.
LEMMA OutputStays ==
  ASSUME Called, OutputOK, UNCHANGED <<call, output>>,
         \A c \in Cores : pc'[c] = "done" <=> pc[c] = "done"
  PROVE  OutputOK'
<1>1. /\ Values' = Values /\ padded' = padded /\ blockNum' = blockNum /\ Cores' = Cores
      /\ \A b, t : KeptTiles(b, t)' = KeptTiles(b, t)
      /\ \A b : tileNum(b)' = tileNum(b)
  BY TilesStay
<1>2. dst' = dst /\ dstCnt' = dstCnt
  BY DEF output
<1>3. blockNum - 1 \in Cores
  BY CallFacts
<1>4. /\ \A k \in 1..padded : dst[k] # Unwritten => k <= Len(Values) /\ dst[k] = Values[k]
      /\ \A b \in Cores : pc[b] = "done" =>
           \A v \in KeptTiles(b, tileNum(b)) : \E k \in 1..padded : dst[k] = v
      /\ dstCnt = IF pc[blockNum - 1] = "done" THEN Len(Values) ELSE 0
  BY DEF OutputOK
<1>5. ASSUME NEW b \in Cores, pc'[b] = "done", NEW v \in KeptTiles(b, tileNum(b))'
      PROVE  \E k \in 1..padded : dst'[k] = v
  <2>1. PICK N : N = tileNum(b)
    OBVIOUS
  <2>2. KeptTiles(b, tileNum(b))' = KeptTiles(b, N)
    <3>1. KeptTiles(b, N)' = KeptTiles(b, N) /\ tileNum(b)' = N
      BY <1>1, <2>1
    <3> QED  BY <3>1 DEF KeptTiles, TileEnd, AddsInf
  <2>3. v \in KeptTiles(b, tileNum(b))
    BY <1>5, <2>1, <2>2
  <2> QED  BY <1>2, <1>4, <1>5, <2>3
<1> QED  BY <1>1, <1>2, <1>3, <1>4, <1>5 DEF OutputOK

-----------------------------------------------------------------------------
(* Up to the second barrier *)

\* Nothing is kept yet, and nothing is in the output.
LEMMA InitPack ==
  ASSUME UniqueAssumption, Init
  PROVE  PackOK
<1>1. /\ buf = [i \in 1..2 |-> [k \in 1..(2 * padded) |-> Index]]
      /\ counts = [b \in Cores |-> 0] /\ dst = [k \in 1..padded |-> Unwritten] /\ dstCnt = 0
      /\ pc = [b \in Cores |-> "tiles"] /\ tile = [b \in Cores |-> 0] /\ uniq = [b \in Cores |-> 0]
      /\ lastVal = [b \in Cores |-> stale] /\ stale \in Stale
  BY DEF Init
<1>2. Called
  BY InitInv DEF UniqueInv, ControlOK, Called
<1>3. padded \in Nat /\ blockNum - 1 \in Cores
  BY <1>2, PaddedFacts, CallFacts
<1>4. stale \in Keys \cup {Index}
  BY <1>1 DEF UniqueAssumption
<1>5. MemoryOK
  <2>1. 0 \in 0..padded
    BY <1>3
  <2> QED  BY <1>1, <1>4, <2>1 DEF MemoryOK
<1>6. \A b \in Cores : pc[b] = "tiles" /\ tile[b] = 0 /\ uniq[b] = 0
  BY <1>1
<1>7. BlocksOK
  BY <1>6 DEF BlocksOK, Packing
<1>8. OutputOK
  BY <1>1, <1>3, <1>6 DEF OutputOK
<1> QED  BY <1>5, <1>7, <1>8 DEF PackOK

\* What is in memory after a step before the duplicates are dropped.
LEMMA MemoryStays ==
  ASSUME MemoryOK, UNCHANGED <<call, output, packing>>, WorkspaceOK'
  PROVE  MemoryOK'
<1>1. padded' = padded /\ Cores' = Cores
  BY TilesStay
<1>2. dst' = dst /\ dstCnt' = dstCnt /\ counts' = counts /\ uniq' = uniq /\ lastVal' = lastVal
  BY DEF output, packing
<1>3. (buf \in [1..2 -> [1..(2 * padded) -> Keys \cup {Index}]])'
  BY DEF WorkspaceOK
<1> QED  BY <1>1, <1>2, <1>3 DEF MemoryOK

\* A step of a core that sorts or merges.
LEMMA BeforePacking ==
  ASSUME Called, PackOK, UNCHANGED <<call, output, packing>>, WorkspaceOK',
         \A c \in Cores : pc[c] \notin Packing /\ pc'[c] \notin Packing
  PROVE  PackOK'
<1>1. MemoryOK'
  BY MemoryStays DEF PackOK
<1>2. tile' = tile /\ uniq' = uniq /\ Cores' = Cores
  BY CallKept DEF packing
<1>3. \A c \in Cores : tile[c] = 0 /\ uniq[c] = 0
  BY DEF PackOK, BlocksOK
<1>4. BlocksOK'
  BY <1>2, <1>3 DEF BlocksOK
<1>5. OutputOK'
  <2>1. \A c \in Cores : pc'[c] = "done" <=> pc[c] = "done"
    BY DEF Packing
  <2> QED  BY <2>1, OutputStays DEF PackOK
<1> QED  BY <1>1, <1>4, <1>5 DEF PackOK

\* All blocks are sorted together.
LEMMA PackingStarts ==
  ASSUME UniqueAssumption, Called, PackOK, UNCHANGED <<call, output, packing>>, WorkspaceOK',
         \A c \in Cores : pc[c] \notin Packing /\ pc'[c] = "unique" /\ cur'[c] \in 1..2,
         SortedTogether'
  PROVE  PackOK'
<1>1. MemoryOK'
  BY MemoryStays DEF PackOK
<1>2. /\ Cores' = Cores /\ padded' = padded /\ total' = total /\ input' = input /\ Tidy' = Tidy
      /\ tile' = tile /\ uniq' = uniq /\ blockNum - 1 \in Cores /\ 0 \in Cores /\ padded \in Nat
  BY TilesStay, CallFacts, PaddedFacts DEF packing
<1>3. \A c \in Cores : tile[c] = 0 /\ uniq[c] = 0
  BY DEF PackOK, BlocksOK
<1>4. PICK m : m = buf'[cur'[0]]
  OBVIOUS
<1>5. (\A b \in Cores : cur'[b] = cur'[0]) /\ KeysAt(m, 0, padded) = Tidy
  <2>1. (\A b \in Cores : pc[b] = "unique" /\ tile[b] = 0)'
    BY <1>2, <1>3
  <2>2. (/\ \A b \in Cores : cur[b] = cur[0]
         /\ KeysAt(buf[cur[0]], 0, padded) = Ascending(input \o [i \in 1..(padded - total) |-> Inf]))'
    BY <2>1 DEF SortedTogether
  <2>3. KeysAt(buf[cur[0]], 0, padded)' = Tidy
    BY <1>2, <2>2 DEF Tidy
  <2> QED  BY <1>2, <1>4, <2>2, <2>3 DEF KeysAt
<1>6. Indexed(padded, m)
  <2>1. (\A i \in 1..2 : Indexed(padded, buf[i]))'
    BY DEF WorkspaceOK
  <2>2. cur'[0] \in 1..2
    BY <1>2
  <2> QED  BY <1>2, <1>4, <2>1, <2>2 DEF Indexed
<1>7. ASSUME NEW b \in Cores PROVE PackedAt(b)'
  <2>1. PICK o, e, N, n, T : BlockAt(b, o, e, N, n, T)
    BY BlockTiles
  <2>2. /\ o = Offset(b) /\ e = Offset(b + 1) /\ N = tileNum(b) /\ N \in Nat \ {0}
        /\ o \in Nat /\ e \in Nat /\ o < e /\ T = padded /\ T \in Nat /\ e <= T
        /\ TileEnd(b, 0) = o
    BY <2>1 DEF BlockAt
  <2>3. \A p \in (o + 1)..e : KeysOf(m)[p - 1] = Tidy[p]
    <3> SUFFICES ASSUME NEW p \in (o + 1)..e PROVE KeysOf(m)[p - 1] = Tidy[p]
      OBVIOUS
    <3>1. p \in 1..T /\ p - 1 \in Nat /\ 0 + p - 1 = p - 1
      BY <2>2
    <3>2. KeysAt(m, 0, padded)[p] = m[2 * (0 + p - 1) + 1]
      BY <2>2, <3>1 DEF KeysAt
    <3>3. KeysOf(m)[p - 1] = m[2 * (p - 1) + 1]
      BY <3>1 DEF KeysOf
    <3> QED  BY <1>5, <3>1, <3>2, <3>3
  <2>4. m[2 * e] = Index
    <3>1. e - 1 \in 0..(T - 1) /\ 2 * (e - 1) + 2 = 2 * e
      BY <2>2
    <3>2. m[2 * (e - 1) + 2] = Index
      BY <1>6, <2>2, <3>1 DEF Indexed
    <3> QED  BY <3>1, <3>2
  <2>5. PackedIn(m, Tidy, KeptOf(Tidy, o, o, FALSE), o, o, e, <<>>)
    <3>1. Inf \in Nat
      BY DEF UniqueAssumption
    <3> QED  BY <2>2, <2>3, <2>4, <3>1, NothingPacked
  <2>6. KeptTiles(b, 0) = KeptOf(Tidy, o, o, FALSE)
    <3>1. AddsInf(b, 0) = FALSE
      BY <2>2 DEF AddsInf
    <3> QED  BY <2>2, <3>1 DEF KeptTiles
  <2>7. PICK s : s = <<>> /\ Len(s) = 0
    OBVIOUS
  <2>8. KeptUpTo(b, 0, m, s)
    BY <2>2, <2>5, <2>6, <2>7 DEF KeptUpTo
  <2>9. PICK t : t = 0
    OBVIOUS
  <2>10. /\ t = tile'[b] /\ uniq'[b] = Len(s) /\ ~(Len(s) > 0) /\ t # tileNum(b) /\ ~(t > 0)
         /\ cur'[b] = cur'[0] /\ t <= tileNum(b) /\ t < tileNum(b) /\ pc'[b] = "unique"
    BY <1>2, <1>3, <1>5, <2>2, <2>7, <2>9
  <2>11. KeptUpTo(b, t, m, s)
    BY <2>8, <2>9
  <2> QED  BY <1>4, <2>10, <2>11, PackedNow
<1>8. BlocksOK'
  BY <1>2, <1>7 DEF BlocksOK, Packing
<1>9. OutputOK'
  <2>1. \A c \in Cores : pc'[c] = "done" <=> pc[c] = "done"
    BY DEF Packing
  <2> QED  BY <2>1, OutputStays DEF PackOK
<1> QED  BY <1>1, <1>8, <1>9 DEF PackOK

-----------------------------------------------------------------------------
(* Dropping the duplicates of a tile *)

\* What a core does with a tile: it has found the keys, cnt are kept now, m2 is the
\* memory then.
Drops(b, t, inf, keys, cnt, m2) ==
  /\ pc[b] = "unique" /\ t = tile[b]
  /\ hasInf' = [hasInf EXCEPT ![b] = inf]
  /\ uniq' = [uniq EXCEPT ![b] = cnt]
  /\ buf' = [buf EXCEPT ![cur[b]] = m2]
  /\ lastVal' = [lastVal EXCEPT ![b] = IF keys = <<>> THEN lastVal[b] ELSE keys[Len(keys)]]
  /\ counts' = IF t = tileNum(b) - 1 THEN [counts EXCEPT ![b] = cnt] ELSE counts
  /\ tile' = [tile EXCEPT ![b] = t + 1]
  /\ pc' = [pc EXCEPT ![b] = IF t # tileNum(b) - 1 THEN pc[b]
                             ELSE IF blockNum > 1 THEN "chain" ELSE "copy"]
  /\ UNCHANGED <<call, flags, output, sorting>>

\* How it comes by them.
Finds(b, t, inf, keys, cnt, m2) ==
  /\ inf = IF t = 0 THEN b = blockNum - 1 /\ ReadAt(cur[b], 2 * (total - 1)) = Inf ELSE hasInf[b]
  /\ keys = IF t = tileNum(b) - 1 /\ inf
              THEN Append(Distinct(KeysAt(buf[cur[b]], TileEnd(b, t), TileLength)), Inf)
              ELSE Distinct(KeysAt(buf[cur[b]], TileEnd(b, t), TileLength))
  /\ cnt = uniq[b] + Len(keys) - (IF keys # <<>> /\ t # 0 /\ lastVal[b] = keys[1] THEN 1 ELSE 0)
  /\ m2 = WriteAt(buf[cur[b]], 2 * Offset(b) + cnt - Len(keys), keys)

\* A step on a tile is that, and nothing else.
LEMMA TileDropped ==
  ASSUME NEW b, TileUnique(b)
  PROVE  \E t, inf, keys, cnt, m2 : Drops(b, t, inf, keys, cnt, m2) /\ Finds(b, t, inf, keys, cnt, m2)
<1> DEFINE i == IF tile[b] = 0
                  THEN b = blockNum - 1 /\ ReadAt(cur[b], 2 * (total - 1)) = Inf
                  ELSE hasInf[b]
           o == Distinct(KeysAt(buf[cur[b]], Offset(b) + tile[b] * TileLength, TileLength))
           s == IF tile[b] = tileNum(b) - 1 /\ i THEN Append(o, Inf) ELSE o
           c == uniq[b] + Len(s) - (IF s # <<>> /\ tile[b] # 0 /\ lastVal[b] = s[1] THEN 1 ELSE 0)
           m == WriteAt(buf[cur[b]], 2 * Offset(b) + c - Len(s), s)
<1>1. /\ pc[b] = "unique"
      /\ hasInf' = [hasInf EXCEPT ![b] = i]
      /\ uniq' = [uniq EXCEPT ![b] = c]
      /\ buf' = [buf EXCEPT ![cur[b]] = m]
      /\ lastVal' = [lastVal EXCEPT ![b] = IF s = <<>> THEN lastVal[b] ELSE s[Len(s)]]
      /\ counts' = IF tile[b] = tileNum(b) - 1 THEN [counts EXCEPT ![b] = c] ELSE counts
      /\ tile' = [tile EXCEPT ![b] = tile[b] + 1]
      /\ pc' = [pc EXCEPT ![b] = IF ~(tile[b] = tileNum(b) - 1) THEN pc[b]
                                 ELSE IF blockNum > 1 THEN "chain" ELSE "copy"]
      /\ UNCHANGED <<call, flags, output, sorting>>
  BY Zenon DEF TileUnique
<1>2. PICK t : t = tile[b]
  OBVIOUS
<1>3. Offset(b) + tile[b] * TileLength = TileEnd(b, t)
  BY <1>2 DEF TileEnd
<1>4. PICK inf : inf = i
  OBVIOUS
<1>5. PICK keys : keys = s
  OBVIOUS
<1>6. PICK cnt : cnt = c
  OBVIOUS
<1>7. PICK m2 : m2 = m
  OBVIOUS
<1>8. Finds(b, t, inf, keys, cnt, m2)
  BY <1>2, <1>3, <1>4, <1>5, <1>6, <1>7, Zenon DEF Finds
<1> HIDE DEF i, o, s, c, m
<1>9. Drops(b, t, inf, keys, cnt, m2)
  BY <1>1, <1>2, <1>4, <1>5, <1>6, <1>7, Zenon DEF Drops
<1> QED  BY <1>8, <1>9

\* The memory m of a core that has come to tile t of its block, and kept the keys s.
DropsFrom(b, t, m, s, o, e, N, n, T, mid) ==
  /\ BlockAt(b, o, e, N, n, T) /\ t \in 0..(N - 1) /\ mid = TileEnd(b, t)
  /\ m = buf[cur[b]] /\ cur[b] = cur[0] /\ cur[0] \in 1..2
  /\ m \in [1..(2 * T) -> Keys \cup {Index}]
  /\ PackedIn(m, Tidy, KeptOf(Tidy, o, mid, FALSE), o, mid, e, s)
  /\ uniq[b] = Len(s) /\ (Len(s) > 0 => lastVal[b] = s[Len(s)])
  /\ t > 0 => (hasInf[b] <=> b = blockNum - 1 /\ Inf \in ToSet(input))

\* That is what the core has before it drops the duplicates of the tile.
LEMMA TileBefore ==
  ASSUME UniqueAssumption, UniqueInv, PackOK, NEW b \in Cores, pc[b] = "unique", NEW t, t = tile[b]
  PROVE  \E m, s, o, e, N, n, T, mid : DropsFrom(b, t, m, s, o, e, N, n, T, mid)
<1>1. Called /\ ControlOK
  BY DEF UniqueInv, ControlOK, Called
<1>2. PICK o, e, N, n, T : BlockAt(b, o, e, N, n, T)
  BY <1>1, BlockTiles
<1>3. o = Offset(b) /\ e = Offset(b + 1) /\ N = tileNum(b) /\ N \in Nat \ {0} /\ T = padded
  BY <1>2 DEF BlockAt
<1>4. t \in Nat /\ cur[0] \in 1..2
  <2>1. 0 \in Cores
    BY <1>1, CallFacts
  <2>2. cur \in [Cores -> 1..2] /\ tile \in [Cores -> Nat]
    BY <1>1 DEF ControlOK
  <2> QED  BY <2>1, <2>2
<1>5. PackedAt(b)
  BY DEF PackOK, BlocksOK, Packing
<1>6. t < N /\ cur[b] = cur[0] /\ (t > 0 => (hasInf[b] <=> b = blockNum - 1 /\ Inf \in ToSet(input)))
  BY <1>3, <1>5 DEF PackedAt
<1>7. t \in 0..(N - 1)
  BY <1>3, <1>4, <1>6
<1>8. PICK s : KeptBy(b, s)
  BY <1>5 DEF PackedAt
<1>9. PICK m, mid : m = buf[cur[b]] /\ mid = TileEnd(b, t)
  OBVIOUS
<1>10. m \in [1..(2 * T) -> Keys \cup {Index}]
  <2>1. buf \in [1..2 -> [1..(2 * T) -> Keys \cup {Index}]]
    BY <1>3 DEF PackOK, MemoryOK
  <2> QED  BY <1>4, <1>6, <1>9, <2>1
<1>11. KeptTiles(b, t) = KeptOf(Tidy, o, mid, FALSE)
  <2>1. AddsInf(b, t) = FALSE
    BY <1>3, <1>6 DEF AddsInf
  <2> QED  BY <1>3, <1>9, <2>1 DEF KeptTiles
<1>12. /\ PackedIn(m, Tidy, KeptOf(Tidy, o, mid, FALSE), o, mid, e, s)
       /\ uniq[b] = Len(s) /\ (Len(s) > 0 => lastVal[b] = s[Len(s)])
  BY <1>3, <1>6, <1>8, <1>9, <1>11 DEF KeptBy
<1>13. DropsFrom(b, t, m, s, o, e, N, n, T, mid)
  BY <1>2, <1>4, <1>6, <1>7, <1>9, <1>10, <1>12 DEF DropsFrom
<1> QED  BY <1>13

\* The core knows whether infinity is to be added in its block.
LEMMA InfSeen ==
  ASSUME UniqueAssumption, OrdinaryCalls, Called, NEW b \in Cores,
         NEW t, NEW m, NEW s, NEW o, NEW e, NEW N, NEW n, NEW T, NEW mid,
         DropsFrom(b, t, m, s, o, e, N, n, T, mid), hasInf[b] \in BOOLEAN,
         NEW inf, inf = IF t = 0 THEN b = blockNum - 1 /\ ReadAt(cur[b], 2 * (total - 1)) = Inf
                                 ELSE hasInf[b]
  PROVE  inf <=> b = blockNum - 1 /\ Inf \in ToSet(input)
<1>1. /\ BlockAt(b, o, e, N, n, T) /\ t \in 0..(N - 1) /\ mid = TileEnd(b, t) /\ m = buf[cur[b]]
      /\ PackedIn(m, Tidy, KeptOf(Tidy, o, mid, FALSE), o, mid, e, s)
      /\ t > 0 => (hasInf[b] <=> b = blockNum - 1 /\ Inf \in ToSet(input))
  BY DEF DropsFrom
<1>2. /\ n = total /\ T = padded /\ T \in Nat /\ n \in 1..T /\ o \in Nat /\ o < n /\ N \in Nat
      /\ b = blockNum - 1 => e = T
      /\ TileEnd(b, 0) = o
  BY <1>1 DEF BlockAt
<1>3. CASE t > 0
  <2>1. inf = hasInf[b]
    BY <1>2, <1>3
  <2> QED  BY <1>1, <1>3, <2>1
<1>4. CASE t = 0 /\ b = blockNum - 1
  <2>1. inf <=> ReadAt(cur[b], 2 * (total - 1)) = Inf
    BY <1>4
  <2>2. ReadAt(cur[b], 2 * (total - 1)) = m[2 * (n - 1) + 1]
    <3>1. 2 * (n - 1) >= 0
      BY <1>2
    <3> QED  BY <1>1, <1>2, <3>1 DEF ReadAt
  <2>3. KeysOf(m)[n - 1] = Tidy[n]
    <3>1. n \in (mid + 1)..e
      BY <1>1, <1>2, <1>4
    <3>2. \A p \in (mid + 1)..e : KeysOf(m)[p - 1] = Tidy[p]
      BY <1>1 DEF PackedIn
    <3> QED  BY <3>1, <3>2
  <2>4. KeysOf(m)[n - 1] = m[2 * (n - 1) + 1]
    <3>1. n - 1 \in Nat
      BY <1>2
    <3> QED  BY <3>1 DEF KeysOf
  <2>5. Tidy[n] = Inf <=> Inf \in ToSet(input)
    <3>1. Arranged(Tidy, ToSet(input), n, T)
      BY <1>2, TidyFacts
    <3> QED  BY <3>1 DEF Arranged
  <2> QED  BY <1>4, <2>1, <2>2, <2>3, <2>4, <2>5
<1>5. CASE t = 0 /\ b # blockNum - 1
  BY <1>5
<1>6. t > 0 \/ t = 0
  BY <1>1, <1>2
<1> QED  BY <1>3, <1>4, <1>5, <1>6

\* The keys it finds are those of the tile.
LEMMA TileRead ==
  ASSUME UniqueAssumption, OrdinaryCalls, Called, NEW b \in Cores,
         NEW t, NEW m, NEW s, NEW o, NEW e, NEW N, NEW n, NEW T, NEW mid,
         DropsFrom(b, t, m, s, o, e, N, n, T, mid), hasInf[b] \in BOOLEAN,
         NEW inf, NEW keys, NEW cnt, NEW m2, Finds(b, t, inf, keys, cnt, m2)
  PROVE  \E z : /\ TileSeen(Tidy, ToSet(input), T, mid, AddsInf(b, t + 1), z, keys)
                /\ inf <=> b = blockNum - 1 /\ Inf \in ToSet(input)
<1>1. /\ BlockAt(b, o, e, N, n, T) /\ t \in 0..(N - 1) /\ mid = TileEnd(b, t) /\ m = buf[cur[b]]
      /\ PackedIn(m, Tidy, KeptOf(Tidy, o, mid, FALSE), o, mid, e, s)
  BY DEF DropsFrom
<1>2. PICK L \in Nat \ {0} : L = TileLength
  BY <1>1 DEF BlockAt
<1>3. /\ N = tileNum(b) /\ N \in Nat \ {0} /\ T = padded /\ n = total /\ T \in Nat /\ o \in Nat /\ e \in Nat
      /\ e <= T
      /\ b = blockNum - 1 => e = T
      /\ TileEnd(b, N) = e /\ \A i \in 0..N : TileEnd(b, i) \in Nat /\ TileEnd(b, i) <= e
      /\ \A i \in 0..(N - 1) : TileEnd(b, i + 1) = TileEnd(b, i) + L
  BY <1>1, <1>2 DEF BlockAt
<1>4. /\ inf = IF t = 0 THEN b = blockNum - 1 /\ ReadAt(cur[b], 2 * (total - 1)) = Inf ELSE hasInf[b]
      /\ keys = IF t = N - 1 /\ inf THEN Append(Distinct(KeysAt(m, mid, L)), Inf)
                                    ELSE Distinct(KeysAt(m, mid, L))
  BY <1>1, <1>2, <1>3 DEF Finds
<1>5. inf <=> b = blockNum - 1 /\ Inf \in ToSet(input)
  BY <1>4, InfSeen
<1>6. mid \in Nat /\ mid + L <= e /\ TileEnd(b, t + 1) = mid + L
  <2>1. t \in 0..N /\ t + 1 \in 0..N
    BY <1>1, <1>3
  <2> QED  BY <1>1, <1>3, <2>1
<1>7. PICK z : z = KeysAt(m, mid, L)
  OBVIOUS
<1>8. PICK x, V : x = Tidy /\ V = ToSet(input)
  OBVIOUS
<1>9. \A p \in 1..T : x[p] \in Keys
  <2>1. Inf \in Nat /\ Arranged(x, V, n, T)
    BY <1>3, <1>8, TidyFacts DEF UniqueAssumption
  <2> QED  BY <2>1, ArrangedKeys
<1>10. \A p \in (mid + 1)..e : KeysOf(m)[p - 1] = x[p]
  BY <1>1, <1>8 DEF PackedIn
<1>11. KeyRun(Keys, m, mid, L, z)
  <2>1. ASSUME NEW d \in mid..(mid + L - 1) PROVE KeysOf(m)[d] \in Keys
    <3>1. d + 1 \in (mid + 1)..e /\ d + 1 \in 1..T /\ (d + 1) - 1 = d
      BY <1>3, <1>6
    <3> QED  BY <1>9, <1>10, <3>1
  <2>2. KeyRun(Keys, m, mid, L, KeysAt(m, mid, L))
    BY <1>6, <2>1, KeysAtFacts
  <2> QED  BY <1>7, <2>2
<1>12. z \in Seq(Keys) /\ Len(z) = L /\ \A i \in 1..L : z[i] = KeysOf(m)[(mid + i) - 1]
  BY <1>11 DEF KeyRun
<1>13. ASSUME NEW i \in 1..L PROVE z[i] = x[mid + i]
  <2>1. mid + i \in (mid + 1)..e
    BY <1>3, <1>6
  <2> QED  BY <1>10, <1>12, <2>1
<1>14. PICK add : add = AddsInf(b, t + 1)
  OBVIOUS
<1>15. add \in BOOLEAN /\ (add <=> t = N - 1 /\ inf)
  <2>1. AddsInf(b, t + 1) <=> b = blockNum - 1 /\ t + 1 = N /\ Inf \in V
    BY <1>3, <1>8 DEF AddsInf
  <2>2. t + 1 = N <=> t = N - 1
    BY <1>1, <1>3
  <2>3. AddsInf(b, t + 1) <=> t = N - 1 /\ inf
    BY <1>5, <1>8, <2>1, <2>2
  <2>4. AddsInf(b, t + 1) \in BOOLEAN
    BY DEF AddsInf
  <2> QED  BY <1>14, <2>3, <2>4
<1>16. ASSUME add PROVE Inf \in V /\ mid + L = T
  <2>1. t = N - 1 /\ b = blockNum - 1 /\ Inf \in V
    BY <1>5, <1>8, <1>15, <1>16
  <2>2. t + 1 = N
    BY <1>3, <2>1
  <2> QED  BY <1>3, <1>6, <2>1, <2>2
<1>17. keys = IF add THEN Append(Distinct(z), Inf) ELSE Distinct(z)
  BY <1>4, <1>7, <1>15
<1>18. mid + L <= T
  BY <1>3, <1>6
<1>19. TileSeen(x, V, T, mid, add, z, keys)
  BY <1>2, <1>6, <1>12, <1>13, <1>15, <1>16, <1>17, <1>18 DEF TileSeen
<1> QED  BY <1>5, <1>8, <1>14, <1>19

\* What the core has kept then, in memory m2.
DropsTo(b, t, m, m2, keys, cnt, w) ==
  /\ m2 \in [1..(2 * padded) -> Keys \cup {Index}]
  /\ \A p \in 1..(2 * padded) : p <= 2 * Offset(b) \/ 2 * Offset(b + 1) <= p => m2[p] = m[p]
  /\ KeptUpTo(b, t + 1, m2, w)
  /\ w \in Seq(Keys) /\ cnt = Len(w) /\ cnt \in 0..padded
  /\ keys # <<>> => cnt > 0 /\ keys[Len(keys)] = w[cnt]
  /\ keys = <<>> => (cnt > 0 => lastVal[b] = w[cnt])

\* After it has, these are the keys of one tile more, each once.
LEMMA TileKept ==
  ASSUME UniqueAssumption, OrdinaryCalls, Called, NEW b \in Cores,
         NEW t, NEW m, NEW s, NEW o, NEW e, NEW N, NEW n, NEW T, NEW mid,
         DropsFrom(b, t, m, s, o, e, N, n, T, mid), hasInf[b] \in BOOLEAN,
         NEW inf, NEW keys, NEW cnt, NEW m2, Finds(b, t, inf, keys, cnt, m2)
  PROVE  \E w : DropsTo(b, t, m, m2, keys, cnt, w)
<1>1. /\ BlockAt(b, o, e, N, n, T) /\ t \in 0..(N - 1) /\ mid = TileEnd(b, t) /\ m = buf[cur[b]]
      /\ m \in [1..(2 * T) -> Keys \cup {Index}]
      /\ PackedIn(m, Tidy, KeptOf(Tidy, o, mid, FALSE), o, mid, e, s)
      /\ uniq[b] = Len(s) /\ (Len(s) > 0 => lastVal[b] = s[Len(s)])
  BY DEF DropsFrom
<1>2. PICK L \in Nat \ {0} : L = TileLength
  BY <1>1 DEF BlockAt
<1>3. /\ o = Offset(b) /\ e = Offset(b + 1) /\ N = tileNum(b) /\ N \in Nat \ {0}
      /\ T = padded /\ n = total /\ T \in Nat /\ n \in 1..T
      /\ o \in Nat /\ e \in Nat /\ o < e /\ e <= T
      /\ TileEnd(b, 0) = o
      /\ \A i \in 0..N : TileEnd(b, i) \in Nat /\ o <= TileEnd(b, i) /\ TileEnd(b, i) <= e
      /\ \A i \in 1..N : o < TileEnd(b, i)
      /\ \A i \in 0..(N - 1) : TileEnd(b, i + 1) = TileEnd(b, i) + L
  BY <1>1, <1>2 DEF BlockAt
<1>4. mid \in Nat /\ o <= mid /\ mid + L <= e /\ TileEnd(b, t + 1) = mid + L
  <2>1. t \in 0..N /\ t + 1 \in 0..N
    BY <1>1, <1>3
  <2> QED  BY <1>1, <1>3, <2>1
<1>5. PICK x, V : x = Tidy /\ V = ToSet(input)
  OBVIOUS
<1>6. Arranged(x, V, n, T) /\ Inf \in Nat \ {0}
  BY <1>3, <1>5, TidyFacts DEF UniqueAssumption
<1>7. PICK add, z : add = AddsInf(b, t + 1) /\ TileSeen(x, V, T, mid, add, z, keys)
  BY <1>5, TileRead
<1>8. PICK A : A = KeptOf(x, o, mid, FALSE) /\ Enumerates(s, A)
  BY <1>1, <1>5 DEF PackedIn
<1>9. TileFrom(m, x, V, n, T, o, mid, e, s)
  BY <1>1, <1>2, <1>3, <1>4, <1>5, <1>6 DEF TileFrom
<1>10. s \in Seq(Keys) /\ keys \in Seq(Keys)
  <2>1. Enumerates(keys, KeptOf(x, mid, mid + TileLength, add))
    BY <1>6, <1>7, TileDistinct
  <2> QED  BY <1>8, <2>1 DEF Enumerates
<1>11. PICK l \in Nat, g \in Nat : l = Len(s) /\ g = Len(keys)
  BY <1>10
\* In front of the first tile nothing is kept, in front of the others something is.
<1>12. t = 0 <=> l = 0
  <2>1. CASE t = 0
    <3>1. mid = o
      BY <1>1, <1>3, <2>1
    <3>2. A = {}
      <4>1. \A p : p \notin (o + 1)..mid
        BY <1>3, <3>1
      <4> QED  BY <1>8, <4>1 DEF KeptOf
    <3>3. \A j \in 1..l : s[j] \in A
      BY <1>8, <1>11 DEF Enumerates
    <3>4. ~(1 \in 1..l)
      BY <3>2, <3>3
    <3> QED  BY <2>1, <3>4
  <2>2. CASE t # 0
    <3>0. t \in Nat /\ N \in Nat /\ t <= N - 1
      BY <1>1, <1>3
    <3>1. t \in 1..N /\ N > 1
      BY <2>2, <3>0
    <3>2. o < mid
      BY <1>1, <1>3, <3>1
    <3>3. x[o + 1] # Inf
      BY <1>3, <1>5, <3>1, BeginsFinite
    <3>4. KeepsPart(s, x, V, T, o, mid, FALSE)
      <4>1. o \in Nat /\ mid \in Nat /\ o < mid /\ mid <= T
        BY <1>3, <1>4, <3>2
      <4>2. Enumerates(s, KeptOf(x, o, mid, FALSE))
        BY <1>8
      <4> QED  BY <4>1, <4>2 DEF KeepsPart
    <3>5. PartKept(s, x, V, n, T, o, mid, FALSE)
      BY <1>6, <3>4, PartFacts
    <3>6. Len(s) > 0
      BY <3>3, <3>5 DEF PartKept
    <3> QED  BY <1>11, <2>2, <3>6
  <2> QED  BY <2>1, <2>2
<1>13. PICK k : k = Staying(s, keys)
  OBVIOUS
<1>14. k = l - (IF keys # <<>> /\ t # 0 /\ lastVal[b] = keys[1] THEN 1 ELSE 0)
  <2>1. k = IF l > 0 /\ g > 0 /\ s[l] = keys[1] THEN l - 1 ELSE l
    BY <1>11, <1>13 DEF Staying
  <2>2. keys # <<>> <=> g > 0
    BY <1>10, <1>11
  <2>3. l > 0 => lastVal[b] = s[l]
    BY <1>1, <1>11
  <2>4. CASE l > 0 /\ g > 0 /\ s[l] = keys[1]
    <3>1. k = l - 1 /\ keys # <<>> /\ t # 0 /\ lastVal[b] = keys[1]
      BY <1>12, <2>1, <2>2, <2>3, <2>4
    <3> QED  BY <3>1
  <2>5. CASE ~(l > 0 /\ g > 0 /\ s[l] = keys[1])
    <3>1. k = l
      BY <2>1, <2>5
    <3>2. l > 0 <=> t # 0
      BY <1>11, <1>12
    <3>3. ~(keys # <<>> /\ t # 0 /\ lastVal[b] = keys[1])
      BY <2>2, <2>3, <2>5, <3>2
    <3>4. l - 0 = l
      BY <1>11
    <3> QED  BY <3>1, <3>3, <3>4
  <2> QED  BY <2>4, <2>5
<1>15. k \in Nat /\ k <= l
  BY <1>11, <1>13 DEF Staying
<1>16. cnt = k + g
  <2>1. cnt = l + g - (IF keys # <<>> /\ t # 0 /\ lastVal[b] = keys[1] THEN 1 ELSE 0)
    BY <1>1, <1>11 DEF Finds
  <2> QED  BY <1>11, <1>14, <2>1
<1>17. m2 = WriteAt(m, 2 * o + k, keys)
  <2>1. m2 = WriteAt(m, 2 * o + cnt - g, keys)
    BY <1>1, <1>3, <1>11 DEF Finds
  <2>2. 2 * o + cnt - g = 2 * o + k
    BY <1>3, <1>11, <1>15, <1>16
  <2> QED  BY <2>1, <2>2
<1>18. PICK w : TilePacked(m, m2, x, V, T, o, mid, e, add, s, keys, k + Len(keys), w)
  BY <1>6, <1>7, <1>9, <1>13, <1>17, TileWritten
<1>19. /\ m2 \in [1..(2 * T) -> Keys \cup {Index}]
       /\ \A p \in 1..(2 * T) : p <= 2 * o \/ 2 * e <= p => m2[p] = m[p]
       /\ PackedIn(m2, x, KeptOf(x, o, mid + L, add), o, mid + L, e, w)
       /\ Len(w) = cnt
       /\ keys # <<>> => cnt > 0 /\ w[cnt] = keys[Len(keys)]
       /\ keys = <<>> => cnt = Len(s) /\ (cnt > 0 => w[cnt] = s[cnt])
  BY <1>2, <1>11, <1>16, <1>18 DEF TilePacked
<1>20. KeptTiles(b, t + 1) = KeptOf(x, o, mid + L, add)
  BY <1>3, <1>4, <1>5, <1>7 DEF KeptTiles
<1>21. KeptUpTo(b, t + 1, m2, w)
  BY <1>3, <1>4, <1>5, <1>19, <1>20 DEF KeptUpTo
<1>22. w \in Seq(Keys) /\ Len(w) <= (mid + L) - o
  <2>1. Enumerates(w, KeptOf(x, o, mid + L, add)) /\ Len(w) <= (mid + L) - o
    BY <1>19 DEF PackedIn
  <2> QED  BY <2>1 DEF Enumerates
<1>23. cnt \in 0..padded
  <2>1. cnt \in Nat /\ cnt <= (mid + L) - o
    BY <1>19, <1>22
  <2> QED  BY <1>3, <1>4, <2>1
<1>24. keys = <<>> => (cnt > 0 => lastVal[b] = w[cnt])
  BY <1>1, <1>19
<1>25. DropsTo(b, t, m, m2, keys, cnt, w)
  BY <1>3, <1>19, <1>21, <1>22, <1>23, <1>24 DEF DropsTo
<1> QED  BY <1>25

-----------------------------------------------------------------------------

\* A core that drops the duplicates of a tile keeps what it is to keep, and leaves the
\* other blocks alone.
LEMMA TileUniquePacks ==
  ASSUME UniqueAssumption, OrdinaryCalls, UniqueInv, PackOK, NEW b \in Cores, TileUnique(b)
  PROVE  PackOK'
<1>1. Called /\ ControlOK
  BY DEF UniqueInv, ControlOK, Called
<1>2. PICK t, inf, keys, cnt, m2 : Drops(b, t, inf, keys, cnt, m2) /\ Finds(b, t, inf, keys, cnt, m2)
  BY TileDropped
<1>3. /\ pc[b] = "unique" /\ t = tile[b]
      /\ hasInf' = [hasInf EXCEPT ![b] = inf]
      /\ uniq' = [uniq EXCEPT ![b] = cnt]
      /\ buf' = [buf EXCEPT ![cur[b]] = m2]
      /\ lastVal' = [lastVal EXCEPT ![b] = IF keys = <<>> THEN lastVal[b] ELSE keys[Len(keys)]]
      /\ counts' = IF t = tileNum(b) - 1 THEN [counts EXCEPT ![b] = cnt] ELSE counts
      /\ tile' = [tile EXCEPT ![b] = t + 1]
      /\ pc' = [pc EXCEPT ![b] = IF t # tileNum(b) - 1 THEN pc[b]
                                 ELSE IF blockNum > 1 THEN "chain" ELSE "copy"]
      /\ UNCHANGED <<call, output, sorting>>
  BY <1>2 DEF Drops
<1>4. PICK m, s, o, e, N, n, T, mid : DropsFrom(b, t, m, s, o, e, N, n, T, mid)
  BY <1>3, TileBefore
<1>5. hasInf[b] \in BOOLEAN
  BY <1>1 DEF ControlOK
<1>6. PICK w : DropsTo(b, t, m, m2, keys, cnt, w)
  BY <1>1, <1>2, <1>4, <1>5, TileKept
<1>7. inf <=> b = blockNum - 1 /\ Inf \in ToSet(input)
  BY <1>1, <1>2, <1>4, <1>5, TileRead
<1>8. /\ m2 \in [1..(2 * padded) -> Keys \cup {Index}]
      /\ \A p \in 1..(2 * padded) : p <= 2 * Offset(b) \/ 2 * Offset(b + 1) <= p => m2[p] = m[p]
      /\ KeptUpTo(b, t + 1, m2, w)
      /\ w \in Seq(Keys) /\ cnt = Len(w) /\ cnt \in 0..padded
      /\ keys # <<>> => cnt > 0 /\ keys[Len(keys)] = w[cnt]
      /\ keys = <<>> => (cnt > 0 => lastVal[b] = w[cnt])
  BY <1>6 DEF DropsTo
<1>9. /\ BlockAt(b, o, e, N, n, T) /\ t \in 0..(N - 1) /\ m = buf[cur[b]] /\ cur[b] = cur[0]
      /\ cur[0] \in 1..2
  BY <1>4 DEF DropsFrom
<1>10. N = tileNum(b) /\ N \in Nat \ {0} /\ T = padded /\ T \in Nat
  BY <1>9 DEF BlockAt
<1>11. /\ Cores' = Cores /\ padded' = padded /\ cur' = cur
       /\ \A c \in Cores : pc[c] \in Packing
  BY <1>3, TilesStay, OnePhase DEF sorting, Packing
<1>12. /\ buf \in [1..2 -> [1..(2 * padded) -> Keys \cup {Index}]]
       /\ counts \in [Cores -> 0..padded]
       /\ dst \in [1..padded -> Keys \cup {Unwritten}] /\ dstCnt \in 0..padded
       /\ uniq \in [Cores -> 0..padded] /\ lastVal \in [Cores -> Keys \cup {Index}]
  BY DEF PackOK, MemoryOK
<1>13. buf'[cur[0]] = m2
  BY <1>3, <1>9, <1>12
<1>14. MemoryOK'
  <2>1. buf' \in [1..2 -> [1..(2 * padded) -> Keys \cup {Index}]]
    BY <1>3, <1>8, <1>9, <1>12
  <2>2. counts' \in [Cores -> 0..padded] /\ uniq' \in [Cores -> 0..padded]
    BY <1>3, <1>8, <1>12
  <2>3. lastVal' \in [Cores -> Keys \cup {Index}]
    <3>1. keys # <<>> => keys[Len(keys)] \in Keys
      BY <1>8
    <3> QED  BY <1>3, <1>12, <3>1
  <2>4. dst' = dst /\ dstCnt' = dstCnt
    BY <1>3 DEF output
  <2> QED  BY <1>11, <1>12, <2>1, <2>2, <2>3, <2>4 DEF MemoryOK
<1>15. /\ pc \in [Cores -> {"tiles", "block", "sync1", "global", "sync2",
                            "unique", "chain", "copy", "done"}]
       /\ tile \in [Cores -> Nat] /\ hasInf \in [Cores -> BOOLEAN]
  BY <1>1 DEF ControlOK
<1>16. PackedAt(b)'
  <2>1. PICK t2 : t2 = t + 1
    OBVIOUS
  <2>2. t2 = tile'[b] /\ m2 = buf'[cur'[0]] /\ cur'[b] = cur'[0] /\ UNCHANGED call
    BY <1>3, <1>9, <1>11, <1>13, <1>15, <2>1
  <2>3. KeptUpTo(b, t2, m2, w) /\ uniq'[b] = Len(w)
    BY <1>3, <1>8, <1>12, <2>1
  <2>4. Len(w) > 0 => lastVal'[b] = w[Len(w)]
    BY <1>3, <1>8, <1>12
  <2>5. t2 = tileNum(b) => counts'[b] = Len(w)
    <3>1. t2 = tileNum(b) => t = tileNum(b) - 1
      BY <1>9, <1>10, <2>1
    <3> QED  BY <1>3, <1>8, <1>12, <3>1
  <2>6. t2 <= tileNum(b)
    BY <1>9, <1>10, <2>1
  <2>7. pc'[b] = "unique" <=> t2 < tileNum(b)
    <3>1. t2 < tileNum(b) <=> t # tileNum(b) - 1
      BY <1>9, <1>10, <2>1
    <3>2. pc'[b] = IF t # tileNum(b) - 1 THEN "unique" ELSE IF blockNum > 1 THEN "chain" ELSE "copy"
      BY <1>3, <1>15
    <3> QED  BY <3>1, <3>2
  <2>8. t2 > 0 => (hasInf'[b] <=> b = blockNum - 1 /\ Inf \in ToSet(input))
    <3>1. hasInf'[b] = inf
      BY <1>3, <1>15
    <3> QED  BY <1>7, <3>1
  <2> QED  BY <2>2, <2>3, <2>4, <2>5, <2>6, <2>7, <2>8, PackedNow
<1>17. ASSUME NEW c \in Cores, c # b PROVE PackedAt(c)'
  <2>1. PackedAt(c)
    BY <1>11 DEF PackOK, BlocksOK
  <2>2. \A p \in (2 * Offset(c) + 1)..(2 * Offset(c + 1)) : buf'[cur[0]][p] = buf[cur[0]][p]
    <3> SUFFICES ASSUME NEW p \in (2 * Offset(c) + 1)..(2 * Offset(c + 1))
                 PROVE  buf'[cur[0]][p] = buf[cur[0]][p]
      OBVIOUS
    <3>1. /\ blockNum \in Nat /\ b \in 0..(blockNum - 1) /\ c \in 0..(blockNum - 1)
          /\ b \in 0..blockNum /\ c \in 0..blockNum /\ b + 1 \in 0..blockNum /\ c + 1 \in 0..blockNum
      BY <1>1, CallFacts
    <3>2. /\ Offset(c) \in Nat /\ Offset(c + 1) \in Nat /\ Offset(c + 1) <= padded
          /\ Offset(b) \in Nat /\ Offset(b + 1) \in Nat
      BY <1>1, <3>1, OffsetIn
    <3>3. Offset(c + 1) <= Offset(b) \/ Offset(b + 1) <= Offset(c)
      <4>1. CASE c < b
        <5>1. b \in (c + 1)..blockNum
          BY <3>1, <4>1
        <5> QED  BY <1>1, <3>1, <5>1, OffsetGrows
      <4>2. CASE b < c
        <5>1. c \in (b + 1)..blockNum
          BY <3>1, <4>2
        <5> QED  BY <1>1, <3>1, <5>1, OffsetGrows
      <4> QED  BY <1>17, <3>1, <4>1, <4>2
    <3>4. p \in 1..(2 * padded) /\ (p <= 2 * Offset(b) \/ 2 * Offset(b + 1) <= p)
      BY <1>10, <3>2, <3>3
    <3> QED  BY <1>8, <1>9, <1>13, <3>4
  <2>3. /\ cur'[c] = cur[c] /\ cur'[0] = cur[0] /\ tile'[c] = tile[c] /\ hasInf'[c] = hasInf[c]
        /\ uniq'[c] = uniq[c] /\ lastVal'[c] = lastVal[c] /\ counts'[c] = counts[c]
        /\ pc'[c] = pc[c]
    BY <1>3, <1>11, <1>12, <1>15, <1>17
  <2>4. SameBlock(c)
    BY <1>3, <2>2, <2>3 DEF SameBlock
  <2>5. tile[c] \in Nat
    BY <1>15
  <2> QED  BY <1>1, <2>1, <2>4, <2>5, PackedStays
<1>18. BlocksOK'
  <2>1. \A c \in Cores : PackedAt(c)'
    BY <1>16, <1>17
  <2>2. \A c \in Cores : pc'[c] \in Packing
    <3>1. pc'[b] \in Packing
      BY <1>3, <1>15 DEF Packing
    <3> QED  BY <1>3, <1>11, <1>15, <3>1
  <2> QED  BY <1>11, <2>1, <2>2 DEF BlocksOK
<1>19. OutputOK'
  <2>1. \A c \in Cores : pc'[c] = "done" <=> pc[c] = "done"
    BY <1>3, <1>15
  <2>2. UNCHANGED <<call, output>> /\ OutputOK
    BY <1>3 DEF PackOK
  <2> QED  BY <1>1, <2>1, <2>2, OutputStays
<1> QED  BY <1>14, <1>18, <1>19 DEF PackOK

-----------------------------------------------------------------------------
(* Where a block goes in the output *)

\* How many keys fewer than it kept a block is counted for.
Shared(b, i) == IF SameAcross(b, i) THEN 1 ELSE 0

\* acc[i] is what core b has counted up to block i.
CountsUpTo(acc, b) ==
  /\ acc \in [0..b -> Nat] /\ acc[0] = 0
  /\ \A i \in 1..b : acc[i] = acc[i - 1] + counts[i - 1] - Shared(b, i - 1)

\* The last of it is lastAccUniqueCnt.
LEMMA BeforeCounts ==
  ASSUME NEW b \in Nat, NEW acc, CountsUpTo(acc, b)
  PROVE  Before(b) = acc[b]
<1> DEFINE Count(f) == [i \in 0..b |-> IF i = 0 THEN 0
                                       ELSE f[i - 1] + counts[i - 1] - (IF SameAcross(b, i - 1) THEN 1 ELSE 0)]
<1>1. acc = Count(acc)
  <2> DEFINE V(i) == IF i = 0 THEN 0
                     ELSE acc[i - 1] + counts[i - 1] - (IF SameAcross(b, i - 1) THEN 1 ELSE 0)
  <2>1. \A i \in 0..b : acc[i] = V(i)
    <3> SUFFICES ASSUME NEW i \in 0..b PROVE acc[i] = V(i)
      OBVIOUS
    <3>1. CASE i = 0
      BY <3>1 DEF CountsUpTo
    <3>2. CASE i # 0
      <4>1. i \in 1..b
        BY <3>2
      <4> QED  BY <3>2, <4>1 DEF CountsUpTo, Shared
    <3> QED  BY <3>1, <3>2
  <2>2. Count(acc) = [i \in 0..b |-> V(i)]
    OBVIOUS
  <2>3. acc \in [0..b -> Nat]
    BY DEF CountsUpTo
  <2> HIDE DEF V, Count
  <2> QED  BY <2>1, <2>2, <2>3
<1> DEFINE h == CHOOSE f : f = Count(f)
<1>2. h = Count(h)
  BY <1>1
<1>3. Before(b) = h[b]
  BY DEF Before
<1> HIDE DEF h
<1>4. \A i \in 0..b : h[i] = IF i = 0 THEN 0 ELSE h[i - 1] + counts[i - 1] - Shared(b, i - 1)
  <2> DEFINE V(i) == IF i = 0 THEN 0
                     ELSE h[i - 1] + counts[i - 1] - (IF SameAcross(b, i - 1) THEN 1 ELSE 0)
  <2>1. h = [i \in 0..b |-> V(i)]
    BY <1>2
  <2> HIDE DEF V
  <2>2. \A i \in 0..b : h[i] = V(i)
    BY <2>1
  <2> QED  BY <2>2 DEF V, Shared
<1> HIDE DEF Count
<1> DEFINE Good == {k \in Nat : k <= b => h[k] = acc[k]}
<1>5. 0 \in Good
  <2>1. 0 \in 0..b
    OBVIOUS
  <2> QED  BY <1>4, <2>1 DEF CountsUpTo
<1>6. ASSUME NEW k \in Nat, k \in Good PROVE k + 1 \in Good
  <2> SUFFICES ASSUME k + 1 <= b PROVE h[k + 1] = acc[k + 1]
    OBVIOUS
  <2>1. h[k] = acc[k] /\ k + 1 \in 0..b /\ k + 1 \in 1..b /\ k + 1 # 0 /\ (k + 1) - 1 = k
    BY <1>6
  <2>2. h[k + 1] = h[k] + counts[k] - Shared(b, k)
    BY <1>4, <2>1
  <2>3. acc[k + 1] = acc[k] + counts[k] - Shared(b, k)
    <3>1. acc[k + 1] = acc[(k + 1) - 1] + counts[(k + 1) - 1] - Shared(b, (k + 1) - 1)
      BY <2>1 DEF CountsUpTo
    <3> QED  BY <2>1, <3>1
  <2> QED  BY <2>1, <2>2, <2>3
<1>7. b \in Good
  <2> HIDE DEF Good
  <2> QED  BY <1>5, <1>6, NatInd
<1> QED  BY <1>3, <1>7

\* Core c has lost its duplicates, the keys s are left in memory m.
Whole(c, m, o, e, N, n, T, s) ==
  /\ BlockAt(c, o, e, N, n, T) /\ m = buf[cur[0]] /\ cur[c] = cur[0]
  /\ PackedIn(m, Tidy, KeptTiles(c, N), o, e, e, s)
  /\ KeepsPart(s, Tidy, ToSet(input), T, o, e, AddsInf(c, N))
  /\ counts[c] = Len(s)

\* A core that has come past its last tile has.
LEMMA WrittenWhole ==
  ASSUME UniqueAssumption, UniqueInv, PackOK, NEW c \in Cores, pc[c] \in Packing, pc[c] # "unique"
  PROVE  \E m, o, e, N, n, T, s : Whole(c, m, o, e, N, n, T, s)
<1>1. Called
  BY DEF UniqueInv, ControlOK, Called
<1>2. PackedAt(c)
  BY DEF PackOK, BlocksOK
<1>3. PICK o, e, N, n, T : BlockAt(c, o, e, N, n, T)
  BY <1>1, BlockTiles
<1>4. /\ o = Offset(c) /\ e = Offset(c + 1) /\ N = tileNum(c) /\ N \in Nat \ {0} /\ T = padded
      /\ o \in Nat /\ e \in Nat /\ o < e /\ e <= T /\ TileEnd(c, N) = e /\ (c = blockNum - 1 => e = T)
  BY <1>3 DEF BlockAt
<1>5. tile[c] = N
  <2>1. tile[c] \in Nat
    BY DEF UniqueInv, ControlOK
  <2> QED  BY <1>2, <1>4, <2>1 DEF PackedAt
<1>6. PICK s : KeptBy(c, s)
  BY <1>2 DEF PackedAt
<1>7. PICK m : m = buf[cur[0]]
  OBVIOUS
<1>8. PackedIn(m, Tidy, KeptTiles(c, N), o, e, e, s) /\ counts[c] = Len(s)
  BY <1>4, <1>5, <1>6, <1>7 DEF KeptBy
<1>9. KeptTiles(c, N) = KeptOf(Tidy, o, e, AddsInf(c, N))
  BY <1>4 DEF KeptTiles
<1>10. Enumerates(s, KeptOf(Tidy, o, e, AddsInf(c, N)))
  BY <1>8, <1>9 DEF PackedIn
<1>11. AddsInf(c, N) \in BOOLEAN /\ (AddsInf(c, N) => Inf \in ToSet(input) /\ e = T)
  BY <1>4 DEF AddsInf
<1>12. KeepsPart(s, Tidy, ToSet(input), T, o, e, AddsInf(c, N))
  BY <1>4, <1>10, <1>11 DEF KeepsPart
<1>13. cur[c] = cur[0]
  BY <1>2 DEF PackedAt
<1> QED  BY <1>3, <1>7, <1>8, <1>12, <1>13 DEF Whole

\* The cores before one that copies have lost their duplicates, too.
LEMMA OthersWritten ==
  ASSUME UniqueInv, NEW b \in Cores, pc[b] = "copy"
  PROVE  /\ \A c \in Cores : c <= b => pc[c] \in Packing /\ pc[c] # "unique"
         /\ \A c \in Cores : pc[c] \in Packing
<1>1. \A c \in Cores : c < b => pc[c] \in Written
  BY DEF UniqueInv, PackingOK, Packing, Written
<1>2. \A c \in Cores : c <= b => c < b \/ c = b
  BY CallFacts DEF UniqueInv, ControlOK, Called
<1>3. \A c \in Cores : pc[c] \in Packing
  BY OnePhase DEF Packing
<1> QED  BY <1>1, <1>2, <1>3 DEF Written

\* What a core that copies finds of the blocks up to its own.
LEMMA BlocksRead ==
  ASSUME UniqueAssumption, UniqueInv, PackOK, NEW b \in Cores, pc[b] = "copy",
         NEW c \in Cores, c <= b
  PROVE  \E m, o, e, N, n, T, s : Whole(c, m, o, e, N, n, T, s)
<1>1. pc[c] \in Packing /\ pc[c] # "unique"
  BY OthersWritten
<1> QED  BY <1>1, WrittenWhole

\* The tensor in order.
LEMMA WholeArranged ==
  ASSUME UniqueAssumption, OrdinaryCalls, Called, NEW c \in Cores,
         NEW m, NEW o, NEW e, NEW N, NEW n, NEW T, NEW s, Whole(c, m, o, e, N, n, T, s)
  PROVE  /\ Inf \in Nat /\ Arranged(Tidy, ToSet(input), n, T)
         /\ PartKept(s, Tidy, ToSet(input), n, T, o, e, AddsInf(c, N))
         /\ o = Offset(c) /\ e = Offset(c + 1) /\ o \in Nat /\ e \in Nat /\ o < e /\ e <= T
         /\ T \in Nat /\ n \in 1..T /\ o < n /\ (c < blockNum - 1 => e < n)
         /\ s \in Seq(Keys) /\ Len(s) \in Nat /\ Len(s) <= e - o /\ T = padded
<1>1. /\ o = Offset(c) /\ e = Offset(c + 1) /\ o \in Nat /\ e \in Nat /\ o < e /\ e <= T
      /\ T \in Nat /\ n \in 1..T /\ o < n /\ (c < blockNum - 1 => e < n) /\ n = total /\ T = padded
  BY DEF Whole, BlockAt
<1>2. Inf \in Nat /\ Arranged(Tidy, ToSet(input), n, T)
  BY <1>1, TidyFacts DEF UniqueAssumption
<1>3. KeepsPart(s, Tidy, ToSet(input), T, o, e, AddsInf(c, N))
  BY DEF Whole
<1>4. PartKept(s, Tidy, ToSet(input), n, T, o, e, AddsInf(c, N))
  BY <1>2, <1>3, PartFacts
<1>5. s \in Seq(Keys) /\ Len(s) <= e - o
  BY DEF Whole, PackedIn, Enumerates
<1>6. Len(s) \in Nat
  BY <1>5
<1> QED  BY <1>1, <1>2, <1>4, <1>5, <1>6

\* A block shares its last key with the next one if that begins with it.  The float in
\* front of an empty block is an index.
LEMMA SharedKey ==
  ASSUME UniqueAssumption, OrdinaryCalls, UniqueInv, PackOK, NEW b \in Cores, pc[b] = "copy",
         NEW c \in Cores, c < b,
         NEW m, NEW o, NEW e, NEW N, NEW n, NEW T, NEW s, Whole(c, m, o, e, N, n, T, s)
  PROVE  Shared(b, c) = IF Len(s) > 0 /\ Tidy[e + 1] = s[Len(s)] THEN 1 ELSE 0
<1>1. Called /\ blockNum \in Nat /\ b \in 0..(blockNum - 1) /\ c \in 0..(blockNum - 1)
      /\ Cores = 0..(blockNum - 1)
  <2>1. Called
    BY DEF UniqueInv, ControlOK, Called
  <2> QED  BY <2>1, CallFacts
<1>2. c + 1 \in Cores /\ c + 1 <= b /\ c < blockNum - 1 /\ b <= b
  BY <1>1
<1>3. /\ Inf \in Nat /\ Arranged(Tidy, ToSet(input), n, T)
      /\ PartKept(s, Tidy, ToSet(input), n, T, o, e, AddsInf(c, N))
      /\ o = Offset(c) /\ e = Offset(c + 1) /\ o \in Nat /\ e \in Nat /\ o < e /\ e <= T
      /\ T \in Nat /\ n \in 1..T /\ e < n
      /\ s \in Seq(Keys) /\ Len(s) \in Nat
  BY <1>1, <1>2, WholeArranged
<1>4. m = buf[cur[b]]
  <2>1. PICK m1, o1, e1, N1, n1, T1, s1 : Whole(b, m1, o1, e1, N1, n1, T1, s1)
    BY <1>2, BlocksRead
  <2> QED  BY <2>1 DEF Whole
<1>5. m[2 * e + 1] = Tidy[e + 1]
  <2>1. PICK m1, o1, e1, N1, n1, T1, s1 : Whole(c + 1, m1, o1, e1, N1, n1, T1, s1)
    BY <1>2, BlocksRead
  <2>2. o1 = e /\ m1 = m
    BY <1>3, <2>1 DEF Whole, BlockAt
  <2> QED  BY <2>1, <2>2 DEF Whole, PackedIn
<1>6. ReadAt(cur[b], 2 * Offset(c + 1)) = Tidy[e + 1]
  <2>1. PICK k \in Nat : k = 2 * e
    BY <1>3
  <2>2. ReadAt(cur[b], k) = m[k + 1]
    BY <1>4, <2>1 DEF ReadAt
  <2> QED  BY <1>3, <1>5, <2>1, <2>2
<1>7. PICK l \in Nat : l = Len(s) /\ counts[c] = l
  BY <1>3 DEF Whole
<1>8. CASE l > 0
  <2>1. m[2 * o + l] = s[l]
    <3>1. l \in 1..Len(s)
      BY <1>7, <1>8
    <3> QED  BY <3>1 DEF Whole, PackedIn
  <2>2. ReadAt(cur[b], 2 * Offset(c) + counts[c] - 1) = s[l]
    <3>1. PICK k \in Nat : k = 2 * o + (l - 1) /\ k + 1 = 2 * o + l
      BY <1>3, <1>8
    <3>2. ReadAt(cur[b], k) = m[k + 1]
      BY <1>4, <3>1 DEF ReadAt
    <3>3. 2 * Offset(c) + counts[c] - 1 = k
      BY <1>3, <1>7, <3>1
    <3> QED  BY <2>1, <3>1, <3>2, <3>3
  <2>3. SameAcross(b, c) <=> Tidy[e + 1] = s[l]
    BY <1>6, <2>2 DEF SameAcross
  <2> QED  BY <1>7, <1>8, <2>3 DEF Shared
<1>9. CASE l = 0
  <2>1. c # 0
    <3> SUFFICES ASSUME c = 0 PROVE FALSE
      OBVIOUS
    <3>0. c = 0 /\ blockNum # 1
      BY <1>1
    <3>1. Tidy[o + 1] # Inf
      BY <1>1, <1>3, <3>0, BeginsFinite
    <3> QED  BY <1>3, <1>7, <1>9, <3>1 DEF PartKept
  <2>2. PICK d \in Cores : d = c - 1 /\ d + 1 = c /\ d <= b
    BY <1>1, <2>1
  <2>3. PICK m1, o1, e1, N1, n1, T1, s1 : Whole(d, m1, o1, e1, N1, n1, T1, s1)
    BY <2>2, BlocksRead
  <2>4. o1 \in Nat /\ e1 \in Nat /\ o1 < e1 /\ e1 = o /\ m1 = m /\ m1[2 * e1] = Index
    BY <1>3, <2>2, <2>3 DEF Whole, BlockAt, PackedIn
  <2>5. ReadAt(cur[b], 2 * Offset(c) + counts[c] - 1) = Index
    <3>1. PICK k \in Nat : k = 2 * o - 1 /\ k + 1 = 2 * o
      BY <1>3, <2>4
    <3>2. ReadAt(cur[b], k) = m[k + 1]
      BY <1>4, <3>1 DEF ReadAt
    <3>3. 2 * Offset(c) + counts[c] - 1 = k
      BY <1>3, <1>7, <1>9, <3>1
    <3> QED  BY <2>4, <3>1, <3>2, <3>3
  <2>6. Tidy[e + 1] # Index
    <3>1. e + 1 \in 1..T
      BY <1>3
    <3>2. 1 <= Tidy[e + 1] /\ Tidy[e + 1] \in Nat
      BY <1>3, <3>1, ArrangedKeys
    <3> QED  BY <3>2 DEF Index
  <2>7. ~SameAcross(b, c)
    BY <1>6, <2>5, <2>6 DEF SameAcross
  <2> QED  BY <1>7, <1>9, <2>7 DEF Shared
<1> QED  BY <1>8, <1>9

\* The least value comes first.
LEMMA FirstValue ==
  ASSUME UniqueAssumption, OrdinaryCalls, Called
  PROVE  1 <= Len(Values) /\ Values[1] = Tidy[1] /\ Len(Values) \in Nat
<1>1. PICK x, V, n, T, w : x = Tidy /\ V = ToSet(input) /\ n = total /\ T = padded /\ w = Values
  OBVIOUS
<1>2. Inf \in Nat /\ Arranged(x, V, n, T) /\ Enumerates(w, V)
  BY <1>1, TidyFacts, ValuesFacts DEF UniqueAssumption
<1>3. /\ T \in Nat /\ n \in 1..T /\ V \subseteq Nat
      /\ \A p \in 1..T : x[p] \in Nat /\ x[p] <= Inf
      /\ \A p \in 1..T, q \in 1..T : p <= q => x[p] <= x[q]
  BY <1>2, ArrangedKeys
<1>4. PICK l \in Nat :
        /\ l = Len(w)
        /\ \A j \in 1..l : w[j] \in Nat /\ w[j] <= Inf /\ w[j] \in V
        /\ \A i \in 1..l, j \in 1..l : i <= j <=> w[i] <= w[j]
        /\ \A v \in V : \E j \in 1..l : w[j] = v
  BY <1>2, Increases
<1>5. 1 \in 1..n /\ 1 \in 1..T
  BY <1>3
<1>6. x[1] \in V
  BY <1>2, <1>5 DEF Arranged
<1>7. PICK j \in 1..l : w[j] = x[1]
  BY <1>4, <1>6
<1>8. 1 \in 1..l /\ 1 <= j
  BY <1>4, <1>7
<1>9. w[1] <= x[1]
  BY <1>4, <1>7, <1>8
<1>10. x[1] <= w[1]
  <2>1. CASE w[1] = Inf
    BY <1>3, <1>5, <2>1
  <2>2. CASE w[1] # Inf
    <3>1. PICK p \in 1..T : x[p] = w[1]
      BY <1>2, <1>4, <1>8, <2>2 DEF Arranged
    <3>2. 1 <= p
      BY <1>3
    <3> QED  BY <1>3, <1>5, <3>1, <3>2
  <2> QED  BY <2>1, <2>2
<1>11. w[1] = x[1]
  BY <1>3, <1>4, <1>5, <1>8, <1>9, <1>10
<1> QED  BY <1>1, <1>4, <1>8, <1>11

\* So many values come before block c.
Rank(r, c) == r \in Nat /\ r + 1 <= Len(Values) /\ Values[r + 1] = Tidy[Offset(c) + 1]

\* What a core that copies counts up to a block is the number of values before the block.
LEMMA BlockRanks ==
  ASSUME UniqueAssumption, OrdinaryCalls, UniqueInv, PackOK, NEW b \in Cores, pc[b] = "copy"
  PROVE  Rank(Before(b), b)
<1>1. /\ Called /\ blockNum \in Nat /\ b \in 0..(blockNum - 1) /\ b \in Nat
      /\ Cores = 0..(blockNum - 1) /\ 0 \in Cores
  <2>1. Called
    BY DEF UniqueInv, ControlOK, Called
  <2>2. blockNum \in Nat \ {0} /\ Cores = 0..(blockNum - 1)
    BY <2>1, CallFacts
  <2> QED  BY <2>1, <2>2
<1> DEFINE D(i) == counts[i - 1] - Shared(b, i - 1)
<1>2. ASSUME NEW c \in Cores, c < b
      PROVE  /\ D(c + 1) \in Nat
             /\ \A r : Rank(r, c) => Rank(r + D(c + 1), c + 1)
  <2>1. c < blockNum - 1 /\ c <= b
    BY <1>1, <1>2
  <2>2. PICK m, o, e, N, n, T, s : Whole(c, m, o, e, N, n, T, s)
    BY <2>1, BlocksRead
  <2>3. /\ Inf \in Nat /\ Arranged(Tidy, ToSet(input), n, T)
        /\ o = Offset(c) /\ e = Offset(c + 1) /\ e < n /\ Len(s) \in Nat
    BY <1>1, <2>1, <2>2, WholeArranged
  <2>4. Shared(b, c) = IF Len(s) > 0 /\ Tidy[e + 1] = s[Len(s)] THEN 1 ELSE 0
    BY <1>2, <2>2, SharedKey
  <2>5. PICK d : d = Len(s) - (IF Len(s) > 0 /\ Tidy[e + 1] = s[Len(s)] THEN 1 ELSE 0)
    OBVIOUS
  <2>6. D(c + 1) = d
    <3>1. (c + 1) - 1 = c /\ counts[c] = Len(s)
      BY <1>1, <2>2 DEF Whole
    <3> QED  BY <2>4, <2>5, <3>1
  <2>7. d \in Nat
    BY <2>3, <2>5
  <2>8. ASSUME NEW r, Rank(r, c) PROVE Rank(r + d, c + 1)
    <3>1. AddsInf(c, N) = FALSE
      BY <1>1, <2>1 DEF AddsInf
    <3>2. KeepsPart(s, Tidy, ToSet(input), T, o, e, FALSE)
      BY <2>2, <3>1 DEF Whole
    <3>3. Enumerates(Values, ToSet(input))
      BY <1>1, ValuesFacts
    <3>4. RankedPart(Values, Tidy, ToSet(input), n, T, s, o, e, FALSE, r)
      BY <2>3, <2>8, <3>2, <3>3 DEF RankedPart, Rank
    <3>5. d \in Nat /\ (r + d) + 1 <= Len(Values) /\ Values[(r + d) + 1] = Tidy[e + 1]
      <4>1. PICK w, x, V : w = Values /\ x = Tidy /\ V = ToSet(input)
        OBVIOUS
      <4>2. Inf \in Nat /\ NextPart(w, x, V, n, T, s, o, e, r, d)
        BY <2>3, <2>5, <3>4, <4>1 DEF NextPart
      <4>3. NextFound(w, x, e, r, d)
        BY <4>2, NextRank
      <4> QED  BY <4>1, <4>3 DEF NextFound
    <3>6. r + d \in Nat
      BY <2>7, <2>8 DEF Rank
    <3> QED  BY <2>3, <3>5, <3>6 DEF Rank
  <2> QED  BY <2>6, <2>7, <2>8
<1>3. ASSUME NEW i \in 1..b PROVE D(i) \in Nat /\ \A r : Rank(r, i - 1) => Rank(r + D(i), i)
  <2>1. PICK c \in Cores : c = i - 1 /\ c < b /\ c + 1 = i
    BY <1>1
  <2> HIDE DEF D
  <2> QED  BY <1>2, <2>1
<1> DEFINE step == [i \in 1..b |-> [x \in Nat |-> x + D(i)]]
<1>4. step \in [1..b -> [Nat -> Nat]]
  <2> HIDE DEF D
  <2>1. \A i \in 1..b : [x \in Nat |-> x + D(i)] \in [Nat -> Nat]
    BY <1>3
  <2> QED  BY <2>1
<1>5. \A i \in 1..b : \A x \in Nat : step[i][x] = x + D(i)
  OBVIOUS
<1> HIDE DEF step
<1>6. PICK acc : Iterates(acc, b, Nat, 0, step)
  BY <1>1, <1>4, Iterated
<1>7. acc \in [0..b -> Nat] /\ acc[0] = 0 /\ \A i \in 1..b : acc[i] = step[i][acc[i - 1]]
  BY <1>6 DEF Iterates
<1>8. ASSUME NEW i \in 1..b PROVE acc[i] = acc[i - 1] + D(i)
  <2>1. i - 1 \in 0..b
    BY <1>1
  <2>2. acc[i - 1] \in Nat
    BY <1>7, <2>1
  <2> HIDE DEF D
  <2> QED  BY <1>5, <1>7, <2>2
<1>9. Before(b) = acc[b]
  <2>1. CountsUpTo(acc, b)
    BY <1>7, <1>8 DEF CountsUpTo
  <2> QED  BY <1>1, <2>1, BeforeCounts
<1> HIDE DEF D
<1> DEFINE Good == {k \in Nat : k <= b => Rank(acc[k], k)}
<1>10. 0 \in Good
  <2>1. Offset(0) = 0 /\ 0 + 1 = 1
    BY <1>1, BlockFacts
  <2>2. 1 <= Len(Values) /\ Values[1] = Tidy[1]
    BY <1>1, FirstValue
  <2> QED  BY <1>7, <2>1, <2>2 DEF Rank
<1>11. ASSUME NEW k \in Nat, k \in Good PROVE k + 1 \in Good
  <2> SUFFICES ASSUME k + 1 <= b PROVE Rank(acc[k + 1], k + 1)
    OBVIOUS
  <2>1. PICK i \in 1..b : i = k + 1 /\ i - 1 = k
    BY <1>1
  <2>2. Rank(acc[k], k)
    BY <1>1, <1>11
  <2>3. acc[i] = acc[k] + D(i)
    BY <1>8, <2>1
  <2>4. Rank(acc[k] + D(i), i)
    BY <1>3, <2>1, <2>2
  <2> QED  BY <2>1, <2>3, <2>4
<1>12. b \in Good
  <2> HIDE DEF Good
  <2> QED  BY <1>1, <1>10, <1>11, NatInd
<1> QED  BY <1>1, <1>9, <1>12

-----------------------------------------------------------------------------
(* Copying a block to the output *)

\* The values of the tensor behind the first r begin with the keys s of core b, and end
\* with them if the core is the last.
CopiedTo(b, s, r) ==
  /\ r \in Nat /\ r + Len(s) <= Len(Values) /\ Len(Values) <= padded /\ Len(Values) \in Nat
  /\ \A j \in 1..Len(s) : Values[r + j] = s[j]
  /\ b = blockNum - 1 => r + Len(s) = Len(Values)

\* The place the code adds up for a block is where its keys come among the values.
LEMMA BlockPlace ==
  ASSUME UniqueAssumption, OrdinaryCalls, UniqueInv, PackOK, NEW b \in Cores, pc[b] = "copy",
         NEW m, NEW o, NEW e, NEW N, NEW n, NEW T, NEW s, Whole(b, m, o, e, N, n, T, s)
  PROVE  CopiedTo(b, s, Before(b))
<1>1. Called
  BY DEF UniqueInv, ControlOK, Called
<1>2. PICK r, w, x, V, inf : r = Before(b) /\ w = Values /\ x = Tidy /\ V = ToSet(input) /\ inf = AddsInf(b, N)
  OBVIOUS
<1>3. /\ Inf \in Nat /\ Arranged(x, V, n, T) /\ o = Offset(b) /\ o < n /\ T = padded
      /\ Len(s) \in Nat
  BY <1>1, <1>2, WholeArranged
<1>4. KeepsPart(s, x, V, T, o, e, inf)
  BY <1>2 DEF Whole
<1>5. Enumerates(w, V) /\ Len(w) <= padded
  BY <1>1, <1>2, ValuesFacts
<1>6. r \in Nat /\ r + 1 <= Len(w) /\ w[r + 1] = x[o + 1]
  <2>1. Rank(Before(b), b)
    BY BlockRanks
  <2> QED  BY <1>2, <1>3, <2>1 DEF Rank
<1>7. RankedPart(w, x, V, n, T, s, o, e, inf, r)
  BY <1>3, <1>4, <1>5, <1>6 DEF RankedPart
<1>8. Continues(w, r, s)
  BY <1>3, <1>7, PartRank
<1>9. PICK l \in Nat, q \in Nat : l = Len(s) /\ q = Len(w)
  <2>1. Len(w) \in Nat
    BY <1>5 DEF Enumerates
  <2> QED  BY <1>3, <2>1
<1>10. \A j \in 1..l : r + j \in 1..q /\ w[r + j] = s[j]
  BY <1>8, <1>9 DEF Continues
<1>11. r + l <= q
  <2>1. CASE l = 0
    BY <1>6, <1>9, <2>1
  <2>2. CASE l # 0
    <3>1. l \in 1..l
      BY <2>2
    <3>2. r + l \in 1..q
      BY <1>10, <3>1
    <3> QED  BY <3>2
  <2> QED  BY <2>1, <2>2
<1>12. b = blockNum - 1 => r + l = q
  <2> SUFFICES ASSUME b = blockNum - 1 PROVE r + l = q
    OBVIOUS
  <2>1. e = T
    BY DEF Whole, BlockAt
  <2>2. N = tileNum(b)
    BY DEF Whole, BlockAt
  <2>3. inf <=> Inf \in V
    BY <1>2, <2>2 DEF AddsInf
  <2>4. r + Len(s) = Len(w)
    BY <1>3, <1>7, <2>1, <2>3, LastRank
  <2> QED  BY <1>9, <2>4
<1> QED  BY <1>2, <1>3, <1>5, <1>6, <1>9, <1>10, <1>11, <1>12 DEF CopiedTo

\* The sequence z is written in d behind position r.
Fits(d, r, z, l, P, V) ==
  /\ P \in Nat /\ d \in [1..P -> V] /\ z \in Seq(V)
  /\ l \in Nat /\ l = Len(z) /\ r \in Nat /\ r + l <= P

\* There it is found.
Found(d2, d, r, z, l, P, V) ==
  /\ d2 \in [1..P -> V]
  /\ \A p \in 1..P : d2[p] = IF r < p /\ p <= r + l THEN z[p - r] ELSE d[p]

\* Writing z does that.
LEMMA SequenceWritten ==
  ASSUME NEW d, NEW r, NEW z, NEW l, NEW P, NEW V, Fits(d, r, z, l, P, V)
  PROVE  Found(WriteAt(d, r, z), d, r, z, l, P, V)
<1>1. /\ P \in Nat /\ d \in [1..P -> V] /\ z \in Seq(V)
      /\ l \in Nat /\ l = Len(z) /\ r \in Nat /\ r + l <= P
  BY DEF Fits
<1>2. /\ WriteAt(d, r, z) \in [1..P -> V]
      /\ \A p \in 1..P : WriteAt(d, r, z)[p] = IF r < p /\ p <= r + l THEN z[p - r] ELSE d[p]
  BY <1>1, WriteFacts
<1> QED  BY <1>2 DEF Found

\* The output then: it has the values there and is otherwise as it was.
OutputThen(b, s, r) ==
  /\ dst' \in [1..padded -> Keys \cup {Unwritten}]
  /\ \A p \in 1..padded : dst'[p] = IF r < p /\ p <= r + Len(s) THEN Values[p] ELSE dst[p]
  /\ dstCnt' = IF b = blockNum - 1 THEN Len(Values) ELSE dstCnt

\* That is what copying the block makes of it.
LEMMA BlockCopied ==
  ASSUME UniqueAssumption, OrdinaryCalls, UniqueInv, PackOK, NEW b \in Cores, CopyOut(b),
         NEW m, NEW o, NEW e, NEW N, NEW n, NEW T, NEW s, Whole(b, m, o, e, N, n, T, s)
  PROVE  OutputThen(b, s, Before(b))
<1> DEFINE keys == [j \in 1..counts[b] |-> ReadAt(cur[b], 2 * Offset(b) + j - 1)]
<1>1. /\ pc[b] = "copy"
      /\ dst' = WriteAt(dst, Before(b), keys)
      /\ dstCnt' = IF b = blockNum - 1 THEN Before(b) + counts[b] ELSE dstCnt
  BY Zenon DEF CopyOut
<1>2. CopiedTo(b, s, Before(b))
  BY <1>1, BlockPlace
<1>3. PICK r \in Nat, l \in Nat : r = Before(b) /\ l = Len(s) /\ counts[b] = l
  <2>1. Len(s) \in Nat /\ counts[b] = Len(s)
    BY DEF Whole, PackedIn, Enumerates
  <2> QED  BY <1>2, <2>1 DEF CopiedTo
<1>4. PICK q \in Nat : /\ q = Len(Values) /\ q <= padded /\ r + l <= q
                       /\ \A j \in 1..l : Values[r + j] = s[j]
                       /\ b = blockNum - 1 => r + l = q
  BY <1>2, <1>3 DEF CopiedTo
<1>5. ASSUME NEW j \in 1..l PROVE keys[j] = s[j]
  <2>1. m = buf[cur[b]] /\ o = Offset(b) /\ o \in Nat /\ m[2 * o + j] = s[j]
    BY <1>3 DEF Whole, BlockAt, PackedIn
  <2>2. PICK k \in Nat : k = 2 * o + (j - 1) /\ k + 1 = 2 * o + j
    BY <2>1
  <2>3. ReadAt(cur[b], k) = m[k + 1]
    BY <2>1, <2>2 DEF ReadAt
  <2>4. 2 * Offset(b) + j - 1 = k
    BY <2>1, <2>2
  <2>5. keys[j] = ReadAt(cur[b], 2 * Offset(b) + j - 1)
    BY <1>3
  <2> QED  BY <2>1, <2>2, <2>3, <2>4, <2>5
<1>6. s \in Seq(Keys)
  BY DEF Whole, PackedIn, Enumerates
<1>7. PICK V : V = Keys \cup {Unwritten}
  OBVIOUS
<1>8. keys \in Seq(V) /\ Len(keys) = l
  <2>1. \A j \in 1..l : keys[j] \in V
    BY <1>3, <1>5, <1>6, <1>7
  <2>2. DOMAIN keys = 1..l /\ keys = [j \in 1..l |-> keys[j]]
    BY <1>3
  <2> HIDE DEF keys
  <2>3. keys \in [1..l -> V]
    BY <2>1, <2>2
  <2> QED  BY <2>3, IsSequence
<1> HIDE DEF keys
<1>9. PICK P \in Nat : P = padded
  <2>1. Called
    BY DEF UniqueInv, ControlOK, Called
  <2> QED  BY <2>1, PaddedFacts
<1>10. dst \in [1..P -> V] /\ dstCnt \in 0..padded
  BY <1>7, <1>9 DEF PackOK, MemoryOK
<1>11. /\ dst' \in [1..P -> V]
       /\ \A p \in 1..P : dst'[p] = IF r < p /\ p <= r + l THEN keys[p - r] ELSE dst[p]
  <2>1. Fits(dst, r, keys, l, P, V)
    BY <1>4, <1>8, <1>9, <1>10 DEF Fits
  <2>2. Found(WriteAt(dst, r, keys), dst, r, keys, l, P, V)
    BY <2>1, SequenceWritten
  <2>3. dst' = WriteAt(dst, r, keys)
    BY <1>1, <1>3
  <2> QED  BY <2>2, <2>3 DEF Found
<1>12. ASSUME NEW p \in 1..P PROVE dst'[p] = IF r < p /\ p <= r + l THEN Values[p] ELSE dst[p]
  <2>1. dst'[p] = IF r < p /\ p <= r + l THEN keys[p - r] ELSE dst[p]
    BY <1>11
  <2>2. CASE r < p /\ p <= r + l
    <3>1. p - r \in 1..l /\ r + (p - r) = p
      BY <1>9, <2>2
    <3>2. Values[r + (p - r)] = s[p - r] /\ keys[p - r] = s[p - r]
      BY <1>4, <1>5, <3>1
    <3> QED  BY <2>1, <2>2, <3>1, <3>2
  <2> QED  BY <2>1, <2>2
<1>13. dst' \in [1..padded -> Keys \cup {Unwritten}]
  BY <1>7, <1>9, <1>11
<1>14. dstCnt' = IF b = blockNum - 1 THEN Len(Values) ELSE dstCnt
  BY <1>1, <1>3, <1>4
<1>15. \A p \in 1..padded : dst'[p] = IF r < p /\ p <= r + Len(s) THEN Values[p] ELSE dst[p]
  BY <1>3, <1>9, <1>12
<1> QED  BY <1>3, <1>13, <1>14, <1>15 DEF OutputThen

\* A core that copies its block writes nothing but values in their places.
LEMMA OutputAfter ==
  ASSUME UniqueAssumption, OrdinaryCalls, UniqueInv, PackOK, NEW b \in Cores, CopyOut(b)
  PROVE  \E r, m, o, e, N, n, T, s :
           Whole(b, m, o, e, N, n, T, s) /\ CopiedTo(b, s, r) /\ OutputThen(b, s, r)
<1>1. pc[b] = "copy" /\ b \in Cores /\ b <= b
  <2>1. b \in Nat
    BY CallFacts DEF UniqueInv, ControlOK, Called
  <2> QED  BY <2>1 DEF CopyOut
<1>2. PICK m, o, e, N, n, T, s : Whole(b, m, o, e, N, n, T, s)
  BY <1>1, BlocksRead
<1>3. CopiedTo(b, s, Before(b)) /\ OutputThen(b, s, Before(b))
  BY <1>1, <1>2, BlockPlace, BlockCopied
<1> QED  BY <1>2, <1>3

\* What is in the output stays there.
LEMMA OutputKept ==
  ASSUME UniqueAssumption, OrdinaryCalls, UniqueInv, PackOK, NEW b \in Cores, CopyOut(b)
  PROVE  \A k \in 1..padded : dst[k] # Unwritten => dst'[k] = dst[k]
<1>1. PICK r, m, o, e, N, n, T, s :
        Whole(b, m, o, e, N, n, T, s) /\ CopiedTo(b, s, r) /\ OutputThen(b, s, r)
  BY OutputAfter
<1>2. \A k \in 1..padded : dst'[k] = IF r < k /\ k <= r + Len(s) THEN Values[k] ELSE dst[k]
  BY <1>1 DEF OutputThen
<1>3. \A k \in 1..padded : dst[k] # Unwritten => dst[k] = Values[k]
  BY DEF PackOK, OutputOK
<1> QED  BY <1>2, <1>3

\* Keys are kept, and infinity.
LEMMA KeptKeys ==
  ASSUME UniqueAssumption, OrdinaryCalls, UniqueInv, PackOK, NEW c \in Cores,
         pc[c] \in Packing, pc[c] # "unique"
  PROVE  /\ \A v \in KeptTiles(c, tileNum(c)) : v \in Keys /\ v # Unwritten
         /\ \A m, o, e, N, n, T, s : Whole(c, m, o, e, N, n, T, s) =>
              \A v \in KeptTiles(c, tileNum(c)) : \E j \in 1..Len(s) : s[j] = v
<1>1. ASSUME NEW m, NEW o, NEW e, NEW N, NEW n, NEW T, NEW s, Whole(c, m, o, e, N, n, T, s)
      PROVE  /\ s \in Seq(Keys)
             /\ \A v \in KeptTiles(c, tileNum(c)) : \E j \in 1..Len(s) : s[j] = v
  <2>1. N = tileNum(c) /\ Enumerates(s, KeptTiles(c, N))
    BY <1>1 DEF Whole, BlockAt, PackedIn
  <2> QED  BY <2>1 DEF Enumerates
<1>2. PICK m, o, e, N, n, T, s : Whole(c, m, o, e, N, n, T, s)
  BY WrittenWhole
<1>3. ASSUME NEW v \in KeptTiles(c, tileNum(c)) PROVE v \in Keys /\ v # Unwritten
  <2>1. PICK j \in 1..Len(s) : s[j] = v
    BY <1>1, <1>2
  <2>2. v \in Keys
    BY <1>1, <1>2, <2>1
  <2> QED  BY <2>2 DEF Keys, Unwritten
<1> QED  BY <1>1, <1>3

\* Nothing but the output changes for the others.
LEMMA CopyOutPacks ==
  ASSUME UniqueAssumption, OrdinaryCalls, UniqueInv, PackOK, NEW b \in Cores, CopyOut(b)
  PROVE  PackOK'
<1>1. /\ Called /\ tile \in [Cores -> Nat]
      /\ pc \in [Cores -> {"tiles", "block", "sync1", "global", "sync2",
                           "unique", "chain", "copy", "done"}]
  BY DEF UniqueInv, ControlOK, Called
<1>2. /\ pc[b] = "copy" /\ pc' = [pc EXCEPT ![b] = "done"]
      /\ UNCHANGED <<call, buf, flags, sorting, packing>>
  BY DEF CopyOut
<1>3. /\ buf' = buf /\ cur' = cur /\ tile' = tile /\ hasInf' = hasInf /\ uniq' = uniq
      /\ lastVal' = lastVal /\ counts' = counts /\ UNCHANGED call
  BY <1>2 DEF sorting, packing
<1>4. /\ Values' = Values /\ padded' = padded /\ blockNum' = blockNum /\ Cores' = Cores
      /\ \A c, t : KeptTiles(c, t)' = KeptTiles(c, t)
      /\ \A c : tileNum(c)' = tileNum(c)
  BY <1>3, TilesStay
<1>5. \A c \in Cores : pc[c] \in Packing /\ (c # b => pc'[c] = pc[c])
  BY <1>1, <1>2, OthersWritten
<1>6. pc'[b] = "done" /\ blockNum - 1 \in Cores
  <2>1. blockNum \in Nat \ {0} /\ Cores = 0..(blockNum - 1)
    BY <1>1, CallFacts
  <2>2. pc'[b] = "done"
    BY <1>1, <1>2
  <2> QED  BY <2>1, <2>2
<1>7. PICK r, m, o, e, N, n, T, s :
        Whole(b, m, o, e, N, n, T, s) /\ CopiedTo(b, s, r) /\ OutputThen(b, s, r)
  BY OutputAfter
<1>8. PICK l \in Nat, q \in Nat, P \in Nat :
        /\ l = Len(s) /\ q = Len(Values) /\ P = padded /\ r \in Nat /\ r + l <= q /\ q <= P
        /\ \A j \in 1..l : Values[r + j] = s[j]
  <2>1. Len(s) \in Nat
    BY <1>7 DEF Whole, PackedIn, Enumerates
  <2>2. padded \in Nat
    BY <1>1, PaddedFacts
  <2> QED  BY <1>7, <2>1, <2>2 DEF CopiedTo
<1>9. /\ dst' \in [1..padded -> Keys \cup {Unwritten}]
      /\ \A k \in 1..padded : dst'[k] = IF r < k /\ k <= r + l THEN Values[k] ELSE dst[k]
      /\ dstCnt' = IF b = blockNum - 1 THEN q ELSE dstCnt
  BY <1>7, <1>8 DEF OutputThen
<1>10. /\ \A k \in 1..padded : dst[k] # Unwritten => k <= q /\ dst[k] = Values[k]
       /\ \A c \in Cores : pc[c] = "done" =>
            \A v \in KeptTiles(c, tileNum(c)) : \E k \in 1..padded : dst[k] = v
       /\ dstCnt = IF pc[blockNum - 1] = "done" THEN q ELSE 0
  BY <1>8 DEF PackOK, OutputOK
<1>11. MemoryOK'
  <2>1. /\ buf \in [1..2 -> [1..(2 * padded) -> Keys \cup {Index}]]
        /\ counts \in [Cores -> 0..padded] /\ dstCnt \in 0..padded
        /\ uniq \in [Cores -> 0..padded] /\ lastVal \in [Cores -> Keys \cup {Index}]
    BY DEF PackOK, MemoryOK
  <2>2. dstCnt' \in 0..padded
    BY <1>8, <1>9, <2>1
  <2> QED  BY <1>3, <1>4, <1>9, <2>1, <2>2 DEF MemoryOK
<1>12. BlocksOK'
  <2>1. ASSUME NEW c \in Cores PROVE PackedAt(c)' /\ pc'[c] \in Packing
    <3>1. PackedAt(c) /\ tile[c] \in Nat
      BY <1>1, <1>5 DEF PackOK, BlocksOK
    <3>2. pc'[c] = "unique" <=> pc[c] = "unique"
      BY <1>2, <1>5, <1>6
    <3>3. SameBlock(c)
      BY <1>3, <3>2 DEF SameBlock
    <3>4. pc'[c] \in Packing
      BY <1>5, <1>6 DEF Packing
    <3> QED  BY <1>1, <3>1, <3>3, <3>4, PackedStays
  <2> QED  BY <1>4, <2>1 DEF BlocksOK
<1>13. \A k \in 1..padded : dst'[k] # Unwritten => k <= q /\ dst'[k] = Values[k]
  BY <1>8, <1>9, <1>10
<1>14. ASSUME NEW c \in Cores, pc'[c] = "done", NEW v \in KeptTiles(c, tileNum(c))
       PROVE  \E k \in 1..padded : dst'[k] = v
  <2>1. CASE c = b
    <3>1. pc[b] \in Packing /\ pc[b] # "unique"
      BY <1>2 DEF Packing
    <3>2. PICK j \in 1..l : s[j] = v
      BY <1>7, <1>8, <1>14, <2>1, <3>1, KeptKeys
    <3>3. PICK k \in 1..P : k = r + j /\ r < k /\ k <= r + l
      BY <1>8
    <3>4. dst'[k] = Values[k] /\ Values[k] = s[j]
      BY <1>8, <1>9, <3>3
    <3> QED  BY <1>8, <3>2, <3>3, <3>4
  <2>2. CASE c # b
    <3>1. pc[c] = "done"
      BY <1>5, <1>14, <2>2
    <3>2. PICK k \in 1..padded : dst[k] = v
      BY <1>10, <1>14, <3>1
    <3>3. v # Unwritten
      <4>1. pc[c] \in Packing /\ pc[c] # "unique"
        BY <3>1 DEF Packing
      <4> QED  BY <1>14, <4>1, KeptKeys
    <3>4. dst'[k] = dst[k]
      BY <3>2, <3>3, OutputKept
    <3> QED  BY <3>2, <3>4
  <2> QED  BY <2>1, <2>2
<1>15. dstCnt' = IF pc'[blockNum - 1] = "done" THEN q ELSE 0
  BY <1>5, <1>6, <1>9, <1>10
<1>16. ASSUME NEW c \in Cores', pc'[c] = "done", NEW v \in KeptTiles(c, tileNum(c))'
       PROVE  \E k \in 1..padded : dst'[k] = v
  <2>1. KeptTiles(c, tileNum(c))' = KeptTiles(c, tileNum(c))
    <3>1. PICK t : t = tileNum(c)
      OBVIOUS
    <3>2. KeptTiles(c, t)' = KeptTiles(c, t) /\ tileNum(c)' = t
      BY <1>4, <3>1
    <3> QED  BY <3>1, <3>2 DEF KeptTiles, TileEnd, AddsInf
  <2> QED  BY <1>4, <1>14, <1>16, <2>1
<1>17. OutputOK'
  <2>1. Len(Values') = q
    BY <1>4, <1>8
  <2> QED  BY <1>4, <1>13, <1>15, <1>16, <2>1 DEF OutputOK
<1> QED  BY <1>11, <1>12, <1>17 DEF PackOK

\* A core that tells the next one to go on changes nothing else.
LEMMA ChainPacks ==
  ASSUME UniqueInv, PackOK, NEW b \in Cores, Chain(b)
  PROVE  PackOK'
<1>1. /\ Called /\ tile \in [Cores -> Nat]
      /\ pc \in [Cores -> {"tiles", "block", "sync1", "global", "sync2",
                           "unique", "chain", "copy", "done"}]
  BY DEF UniqueInv, ControlOK, Called
<1>2. /\ pc[b] = "chain" /\ pc' = [pc EXCEPT ![b] = "copy"]
      /\ UNCHANGED <<call, buf, output, sorting, packing>>
  BY DEF Chain
<1>3. /\ buf' = buf /\ cur' = cur /\ tile' = tile /\ hasInf' = hasInf /\ uniq' = uniq
      /\ lastVal' = lastVal /\ counts' = counts /\ dst' = dst /\ dstCnt' = dstCnt /\ UNCHANGED call
  BY <1>2 DEF sorting, packing, output
<1>4. padded' = padded /\ Cores' = Cores
  BY <1>3, TilesStay
<1>5. \A c \in Cores : pc[c] \in Packing
  BY <1>2, OnePhase DEF Packing
<1>6. \A c \in Cores : pc'[c] = IF c = b THEN "copy" ELSE pc[c]
  BY <1>1, <1>2
<1>7. MemoryOK'
  BY <1>3, <1>4 DEF PackOK, MemoryOK
<1>8. BlocksOK'
  <2>1. ASSUME NEW c \in Cores PROVE PackedAt(c)' /\ pc'[c] \in Packing
    <3>1. PackedAt(c) /\ tile[c] \in Nat
      BY <1>1, <1>5 DEF PackOK, BlocksOK
    <3>2. pc'[c] = "unique" <=> pc[c] = "unique"
      BY <1>2, <1>6
    <3>3. SameBlock(c)
      BY <1>3, <3>2 DEF SameBlock
    <3>4. pc'[c] \in Packing
      BY <1>5, <1>6 DEF Packing
    <3> QED  BY <1>1, <3>1, <3>3, <3>4, PackedStays
  <2> QED  BY <1>4, <2>1 DEF BlocksOK
<1>9. OutputOK'
  <2>1. \A c \in Cores : pc'[c] = "done" <=> pc[c] = "done"
    BY <1>2, <1>6
  <2>2. UNCHANGED <<call, output>> /\ OutputOK
    BY <1>2 DEF PackOK
  <2> QED  BY <1>1, <2>1, <2>2, OutputStays
<1> QED  BY <1>7, <1>8, <1>9 DEF PackOK

-----------------------------------------------------------------------------
(* All steps *)

\* A core that sorts or merges leaves the output alone, and what the dropping of the
\* duplicates counts.
LEMMA OutputIdle ==
  ASSUME NEW b,
         \/ SortTiles(b) \/ BlockGroup(b) \/ BlockCopyRest(b) \/ BlockLevel(b) \/ BlockDone(b)
         \/ GlobalSignal(b) \/ GlobalPass(b) \/ GlobalWait(b) \/ GlobalMerge(b)
         \/ GlobalCopyRest(b) \/ MergeRound(b)
  PROVE  UNCHANGED <<call, output, packing>>
<1>1. CASE SortTiles(b) \/ BlockGroup(b) \/ BlockCopyRest(b) \/ BlockLevel(b)
  BY <1>1 DEF SortTiles, BlockGroup, BlockCopyRest, BlockLevel
<1>2. CASE BlockDone(b)
  BY <1>2 DEF BlockDone
<1>3. CASE GlobalSignal(b) \/ GlobalPass(b) \/ GlobalWait(b)
  BY <1>3 DEF GlobalSignal, GlobalPass, GlobalWait
<1>4. CASE GlobalMerge(b) \/ GlobalCopyRest(b)
  BY <1>4 DEF GlobalMerge, GlobalCopyRest
<1>5. CASE MergeRound(b)
  BY <1>5, Zenon DEF MergeRound
<1> QED  BY <1>1, <1>2, <1>3, <1>4, <1>5

\* A core that sorts its block.
LEMMA SortingPacks ==
  ASSUME UniqueAssumption, BlocksFit, UniqueInv, DataOK, PackOK, UniqueInv',
         NEW b \in Cores, pc[b] \in Sorting, Step(b)
  PROVE  PackOK'
<1>1. UNCHANGED <<call, output, packing>>
  BY SortingHas, OutputIdle
<1>2. /\ Called /\ Cores' = Cores /\ \A c \in Cores : pc[c] \in Sorting /\ pc[c] \notin Packing
  <2>1. \A c \in Cores : pc[c] \in Sorting
    BY OnePhase
  <2> QED  BY <1>1, <2>1, CallKept DEF UniqueInv, ControlOK, Called, Sorting, Packing
<1>3. \A c \in Cores : c # b => pc'[c] = pc[c]
  BY StepAlone DEF Alone, SameCore
<1>4. WorkspaceOK'
  BY SortingStepData
<1>5. CASE pc'[b] \in Sorting
  <2>1. \A c \in Cores : pc'[c] \in Sorting
    BY <1>2, <1>3, <1>5
  <2>2. \A c \in Cores : pc[c] \notin Packing /\ pc'[c] \notin Packing
    BY <1>2, <2>1 DEF Sorting, Packing
  <2> QED  BY <1>1, <1>2, <1>4, <2>2, BeforePacking
<1>6. CASE pc'[b] \notin Sorting
  <2>1. blockNum = 1 /\ pc'[b] = "unique"
    BY <1>6, SortingGoes
  <2>2. Cores = {0}
    BY <1>2, <2>1, OneTile
  <2>3. \A c \in Cores : pc[c] \notin Packing /\ pc'[c] = "unique" /\ cur'[c] \in 1..2
    <3>1. \A c \in Cores : c = b
      BY <2>2
    <3>2. cur' \in [Cores' -> 1..2]
      BY DEF UniqueInv, ControlOK
    <3> QED  BY <1>2, <2>1, <3>1, <3>2
  <2>4. SortedTogether'
    BY SortingKeepsData DEF DataOK
  <2> QED  BY <1>1, <1>2, <1>4, <2>3, <2>4, PackingStarts
<1> QED  BY <1>5, <1>6

\* A core that merges blocks.
LEMMA GatheringPacks ==
  ASSUME UniqueAssumption, UniqueInv, DataOK, PackOK, NEW b \in Cores, pc[b] \in Gathering, Step(b)
  PROVE  PackOK'
<1>1. /\ pc[b] = "global"
      /\ \/ GlobalSignal(b) \/ GlobalPass(b) \/ GlobalWait(b) \/ GlobalMerge(b)
         \/ GlobalCopyRest(b) \/ MergeRound(b)
  BY GatheringHas
<1>2. UNCHANGED <<call, output, packing>>
  BY <1>1, OutputIdle
<1>3. /\ Called /\ Cores' = Cores /\ \A c \in Cores : pc[c] \in Gathering /\ pc[c] \notin Packing
  <2>1. \A c \in Cores : pc[c] \in Gathering
    BY OnePhase
  <2> QED  BY <1>2, <2>1, CallKept DEF UniqueInv, ControlOK, Called, Gathering, Packing
<1>4. \A c \in Cores : c # b => pc'[c] = pc[c]
  BY StepAlone DEF Alone, SameCore
<1>5. pc'[b] \in Gathering
  <2>1. pc = [c \in Cores |-> pc[c]]
    BY DEF UniqueInv, ControlOK
  <2>2. CASE NextLevel(b)
    <3>1. pc'[b] = "sync2" \/ pc'[b] = "global"
      BY <2>1, <2>2 DEF NextLevel
    <3> QED  BY <3>1 DEF Gathering
  <2>3. CASE pc' = pc
    BY <1>1, <2>3 DEF Gathering
  <2> QED  BY <1>1, <2>2, <2>3, RoundHasMerge DEF GlobalSignal, GlobalPass, GlobalWait,
              GlobalMerge, GlobalCopyRest
<1>6. \A c \in Cores : pc'[c] \in Gathering
  BY <1>3, <1>4, <1>5
<1>7. WorkspaceOK'
  BY <1>3, <1>6, GatheringKeepsData DEF DataOK
<1>8. \A c \in Cores : pc[c] \notin Packing /\ pc'[c] \notin Packing
  BY <1>3, <1>6 DEF Gathering, Packing
<1> QED  BY <1>2, <1>3, <1>7, <1>8, BeforePacking

\* A core that drops duplicates or copies.
LEMMA PackingPacks ==
  ASSUME UniqueAssumption, OrdinaryCalls, UniqueInv, PackOK, NEW b \in Cores, pc[b] \in Packing, Step(b)
  PROVE  PackOK'
<1>1. TileUnique(b) \/ Chain(b) \/ CopyOut(b)
  <2>1. pc[b] \notin {"tiles", "block", "global"}
    BY DEF Packing
  <2>2. ~MergeRound(b)
    <3>1. merge[b] = NoMerge
      BY DEF UniqueInv, PackingOK
    <3> QED  BY <3>1, RoundHasMerge
  <2> QED  BY <2>1, <2>2 DEF Step, SortTiles, BlockGroup, BlockCopyRest, BlockLevel, BlockDone,
                            GlobalSignal, GlobalPass, GlobalWait, GlobalMerge, GlobalCopyRest
<1> QED  BY <1>1, TileUniquePacks, ChainPacks, CopyOutPacks

\* Nothing happens.
LEMMA StutterPacks ==
  ASSUME UniqueInv, PackOK, UNCHANGED vars
  PROVE  PackOK'
<1>1. /\ UNCHANGED call /\ UNCHANGED output /\ buf' = buf /\ cur' = cur /\ tile' = tile /\ pc' = pc
      /\ hasInf' = hasInf /\ uniq' = uniq /\ lastVal' = lastVal /\ counts' = counts
      /\ dst' = dst /\ dstCnt' = dstCnt
  BY DEF vars, sorting, packing, output
<1>2. Called /\ tile \in [Cores -> Nat]
  BY DEF UniqueInv, ControlOK, Called
<1>3. padded' = padded /\ Cores' = Cores
  BY <1>1, TilesStay
<1>4. MemoryOK'
  BY <1>1, <1>3 DEF PackOK, MemoryOK
<1>5. BlocksOK'
  <2>1. ASSUME NEW c \in Cores, pc[c] \in Packing PROVE PackedAt(c)'
    <3>1. PackedAt(c) /\ tile[c] \in Nat /\ SameBlock(c)
      BY <1>1, <1>2, <2>1 DEF PackOK, BlocksOK, SameBlock
    <3> QED  BY <1>2, <3>1, PackedStays
  <2> QED  BY <1>1, <1>3, <2>1 DEF PackOK, BlocksOK
<1>6. OutputOK'
  <2>1. OutputOK /\ UNCHANGED <<call, output>>
    BY <1>1 DEF PackOK
  <2> QED  BY <1>1, <1>2, <2>1, OutputStays
<1> QED  BY <1>4, <1>5, <1>6 DEF PackOK

\* Every step keeps it.
LEMMA NextPacks ==
  ASSUME UniqueAssumption, BlocksFit, OrdinaryCalls, UniqueInv, DataOK, PackOK, [Next]_vars
  PROVE  PackOK'
<1>1. UniqueInv' /\ DataOK'
  BY NextInv, NextData
<1>2. CASE UNCHANGED vars
  BY <1>2, StutterPacks
<1>3. CASE SyncAll
  <2>1. Called /\ Cores' = Cores /\ UNCHANGED <<call, output, packing>>
    BY <1>3, CallKept DEF SyncAll, Barrier, UniqueInv, ControlOK, Called
  <2>2. WorkspaceOK => WorkspaceOK'
    <3>1. UNCHANGED <<call, buf>>
      BY <1>3 DEF SyncAll, Barrier
    <3> QED  BY <3>1, NothingWritten
  <2>3. CASE Barrier("sync1", "global")
    <3>1. \A c \in Cores : pc[c] = "sync1" /\ pc'[c] = "global"
      BY <2>3, BarrierFrame
    <3>2. WorkspaceOK
      BY <3>1 DEF DataOK, Sorting
    <3>3. \A c \in Cores : pc[c] \notin Packing /\ pc'[c] \notin Packing
      BY <3>1 DEF Packing
    <3> QED  BY <2>1, <2>2, <3>2, <3>3, BeforePacking
  <2>4. CASE Barrier("sync2", "unique")
    <3>1. \A c \in Cores : pc[c] = "sync2" /\ pc'[c] = "unique"
      BY <2>4, BarrierFrame
    <3>2. WorkspaceOK
      BY <3>1 DEF DataOK, Gathering
    <3>3. \A c \in Cores : pc[c] \notin Packing /\ pc'[c] = "unique" /\ cur'[c] \in 1..2
      <4>1. cur' \in [Cores' -> 1..2]
        BY <1>1 DEF UniqueInv, ControlOK
      <4> QED  BY <2>1, <3>1, <4>1 DEF Packing
    <3>4. SortedTogether'
      BY <1>1 DEF DataOK
    <3> QED  BY <2>1, <2>2, <3>2, <3>3, <3>4, PackingStarts
  <2> QED  BY <1>3, <2>3, <2>4 DEF SyncAll
<1>4. CASE \E b \in Cores : Step(b)
  <2>1. PICK b \in Cores : Step(b)
    BY <1>4
  <2>2. pc[b] \in Sorting \/ pc[b] \in Gathering \/ pc[b] \in Packing
    BY DEF UniqueInv, PhaseOK
  <2> QED  BY <1>1, <2>1, <2>2, SortingPacks, GatheringPacks, PackingPacks
<1> QED  BY <1>2, <1>3, <1>4 DEF Next, Work, Returned

-----------------------------------------------------------------------------
(* The result *)

\* Each key of the padded tensor is in a block.
LEMMA InSomeBlock ==
  ASSUME Called, NEW p \in 1..padded
  PROVE  \E c \in Cores : Offset(c) < p /\ p <= Offset(c + 1)
<1>1. PICK B \in Nat \ {0} : B = blockNum /\ Cores = 0..(B - 1)
  BY CallFacts
<1>2. padded = Offset(B) /\ Offset(0) = 0
  <2>1. 0 \in Cores
    BY <1>1
  <2> QED  BY <1>1, <2>1, PaddedFacts, BlockFacts
<1>3. \A k \in 0..B : Offset(k) \in Nat
  BY <1>1, OffsetIn
<1>4. padded \in Nat
  BY PaddedFacts
<1> DEFINE Good == {k \in Nat : k <= B /\ p <= Offset(k) =>
                                  \E c \in Cores : Offset(c) < p /\ p <= Offset(c + 1)}
<1>5. 0 \in Good
  BY <1>2
<1>6. ASSUME NEW k \in Nat, k \in Good PROVE k + 1 \in Good
  <2> SUFFICES ASSUME k + 1 <= B, p <= Offset(k + 1)
               PROVE  \E c \in Cores : Offset(c) < p /\ p <= Offset(c + 1)
    OBVIOUS
  <2>1. k \in Cores /\ k \in 0..B /\ k <= B
    BY <1>1
  <2>2. CASE p <= Offset(k)
    BY <1>6, <2>1, <2>2
  <2>3. CASE ~(p <= Offset(k))
    <3>1. Offset(k) \in Nat
      BY <1>3, <2>1
    <3>2. Offset(k) < p
      BY <1>4, <2>3, <3>1
    <3> QED  BY <2>1, <3>2
  <2> QED  BY <2>2, <2>3
<1>7. B \in Good
  <2> HIDE DEF Good
  <2> QED  BY <1>1, <1>5, <1>6, NatInd
<1> QED  BY <1>2, <1>4, <1>7

\* Each value is kept in a block.
LEMMA ValueKept ==
  ASSUME UniqueAssumption, OrdinaryCalls, Called, NEW v \in ToSet(input)
  PROVE  \E c \in Cores : v \in KeptTiles(c, tileNum(c))
<1>1. Arranged(Tidy, ToSet(input), total, padded)
  BY TidyFacts
<1>2. ASSUME NEW c \in Cores
      PROVE  KeptTiles(c, tileNum(c)) =
               ({Tidy[p] : p \in (Offset(c) + 1)..Offset(c + 1)} \ {Inf})
               \cup (IF c = blockNum - 1 /\ Inf \in ToSet(input) THEN {Inf} ELSE {})
  <2>1. PICK o, e, N, n, T : BlockAt(c, o, e, N, n, T)
    BY BlockTiles
  <2>2. TileEnd(c, tileNum(c)) = Offset(c + 1)
    BY <2>1 DEF BlockAt
  <2>3. AddsInf(c, tileNum(c)) <=> c = blockNum - 1 /\ Inf \in ToSet(input)
    BY DEF AddsInf
  <2> QED  BY <2>2, <2>3 DEF KeptTiles, KeptOf
<1>3. CASE v = Inf
  <2>1. blockNum - 1 \in Cores
    <3>1. blockNum \in Nat \ {0} /\ Cores = 0..(blockNum - 1)
      BY CallFacts
    <3> QED  BY <3>1
  <2>2. v \in KeptTiles(blockNum - 1, tileNum(blockNum - 1))
    BY <1>2, <1>3, <2>1
  <2> QED  BY <2>1, <2>2
<1>4. CASE v # Inf
  <2>1. PICK p \in 1..padded : Tidy[p] = v
    BY <1>1, <1>4 DEF Arranged
  <2>2. PICK c \in Cores : Offset(c) < p /\ p <= Offset(c + 1)
    BY InSomeBlock
  <2>3. p \in (Offset(c) + 1)..Offset(c + 1)
    <3>1. padded \in Nat /\ c \in 0..blockNum /\ c + 1 \in 0..blockNum
      BY PaddedFacts, CallFacts
    <3>2. Offset(c) \in Nat /\ Offset(c + 1) \in Nat
      BY <3>1, OffsetIn
    <3> QED  BY <2>2, <3>1, <3>2
  <2>4. v \in KeptTiles(c, tileNum(c))
    BY <1>2, <1>4, <2>1, <2>3
  <2> QED  BY <2>4
<1> QED  BY <1>3, <1>4

\* When all cores are done, the output is the values in their order.
LEMMA PackedResult ==
  ASSUME UniqueAssumption, OrdinaryCalls, UniqueInv, PackOK
  PROVE  ResultExact
<1> SUFFICES ASSUME Finished
             PROVE  /\ {dst[k] : k \in 1..dstCnt} = ToSet(input)
                    /\ \A k \in 1..(dstCnt - 1) : dst[k] < dst[k + 1]
  BY DEF ResultExact
<1>1. Called
  BY DEF UniqueInv, ControlOK, Called
<1>2. PICK w, V : w = Values /\ V = ToSet(input)
  OBVIOUS
<1>3. Enumerates(w, V) /\ Len(w) <= padded /\ padded \in Nat /\ Inf \in Nat
  BY <1>1, <1>2, ValuesFacts, PaddedFacts DEF UniqueAssumption
<1>4. PICK q \in Nat :
        /\ q = Len(w)
        /\ \A j \in 1..q : w[j] \in Nat /\ w[j] \in Keys /\ w[j] <= Inf /\ w[j] \in V
        /\ \A i \in 1..q, j \in 1..q : i < j => w[i] < w[j]
        /\ \A i \in 1..q, j \in 1..q : i <= j <=> w[i] <= w[j]
        /\ \A v \in V : \E j \in 1..q : w[j] = v
  BY <1>3, Increases
<1>5. blockNum - 1 \in Cores
  <2>1. blockNum \in Nat \ {0} /\ Cores = 0..(blockNum - 1)
    BY <1>1, CallFacts
  <2> QED  BY <2>1
<1>6. /\ \A k \in 1..padded : dst[k] # Unwritten => k <= q /\ dst[k] = w[k]
      /\ \A b \in Cores : \A v \in KeptTiles(b, tileNum(b)) : \E k \in 1..padded : dst[k] = v
      /\ dstCnt = q
  BY <1>2, <1>4, <1>5 DEF PackOK, OutputOK, Finished
<1>7. ASSUME NEW k \in 1..q PROVE dst[k] = w[k]
  <2>1. PICK v : v = w[k] /\ v \in V /\ v \in Keys
    BY <1>4
  <2>2. PICK c \in Cores : v \in KeptTiles(c, tileNum(c))
    BY <1>1, <1>2, <2>1, ValueKept
  <2>3. PICK i \in 1..padded : dst[i] = v
    BY <1>6, <2>2
  <2>4. v # Unwritten
    BY <2>1 DEF Keys, Unwritten
  <2>5. i <= q /\ w[i] = w[k]
    BY <1>6, <2>1, <2>3, <2>4
  <2>6. i \in 1..q /\ k \in 1..q
    BY <1>3, <2>5
  <2>7. i <= k /\ k <= i
    BY <1>4, <2>5, <2>6
  <2>8. i = k
    BY <2>6, <2>7
  <2> QED  BY <2>1, <2>3, <2>8
<1>8. {dst[k] : k \in 1..dstCnt} = ToSet(input)
  <2>1. \A k \in 1..q : dst[k] \in V
    BY <1>4, <1>7
  <2>2. \A v \in V : \E k \in 1..q : dst[k] = v
    BY <1>4, <1>7
  <2>3. {dst[k] : k \in 1..q} = V
    BY <2>1, <2>2
  <2> QED  BY <1>2, <1>6, <2>3
<1>9. ASSUME NEW k \in 1..(dstCnt - 1) PROVE dst[k] < dst[k + 1]
  <2>1. k \in 1..q /\ k + 1 \in 1..q /\ k < k + 1
    BY <1>6
  <2>2. w[k] < w[k + 1]
    BY <1>4, <2>1
  <2> QED  BY <1>7, <2>1, <2>2
<1> QED  BY <1>8, <1>9

\* Only a core that copies writes in the output.
LEMMA OutputSteps ==
  ASSUME UniqueAssumption, OrdinaryCalls, UniqueInv, PackOK, [Next]_vars
  PROVE  \A k \in DOMAIN dst : dst[k] # Unwritten => dst'[k] = dst[k]
<1>1. CASE dst' = dst
  BY <1>1
<1>2. CASE dst' # dst
  <2>1. ~UNCHANGED vars
    BY <1>2 DEF vars, output
  <2>2. ~SyncAll
    BY <1>2 DEF SyncAll, Barrier, output
  <2>3. PICK b \in Cores : Step(b)
    BY <2>1, <2>2 DEF Next, Work, Returned
  <2>4. ~(\/ SortTiles(b) \/ BlockGroup(b) \/ BlockCopyRest(b) \/ BlockLevel(b) \/ BlockDone(b)
          \/ GlobalSignal(b) \/ GlobalPass(b) \/ GlobalWait(b) \/ GlobalMerge(b)
          \/ GlobalCopyRest(b) \/ MergeRound(b))
    BY <1>2, OutputIdle DEF output
  <2>5. ~Chain(b)
    BY <1>2 DEF Chain, output
  <2>6. ~TileUnique(b)
    <3>1. TileUnique(b) => UNCHANGED <<call, flags, output, sorting>>
      BY Zenon DEF TileUnique
    <3> QED  BY <1>2, <3>1 DEF output
  <2>7. CopyOut(b)
    BY <2>3, <2>4, <2>5, <2>6 DEF Step
  <2>8. \A k \in 1..padded : dst[k] # Unwritten => dst'[k] = dst[k]
    BY <2>7, OutputKept
  <2>9. DOMAIN dst = 1..padded
    BY DEF PackOK, MemoryOK
  <2> QED  BY <2>8, <2>9
<1> QED  BY <1>1, <1>2

-----------------------------------------------------------------------------

\* Which keys each block has kept when it has lost the duplicates of so many tiles, and
\* where the output has them: for every tensor whose blocks have no more tiles than the
\* counters hold, none of several without a finite key.
THEOREM Packed == BlocksFit /\ OrdinaryCalls => (Spec => [](UniqueInv /\ DataOK /\ PackOK))
<1> SUFFICES ASSUME BlocksFit, OrdinaryCalls
             PROVE  Spec => [](UniqueInv /\ DataOK /\ PackOK)
  OBVIOUS
<1>1. Init => UniqueInv /\ DataOK /\ PackOK
  BY UniqueAssumption, InitInv, InitData, InitPack
<1>2. UniqueInv /\ DataOK /\ PackOK /\ [Next]_vars => (UniqueInv /\ DataOK /\ PackOK)'
  BY UniqueAssumption, NextInv, NextData, NextPacks
<1> QED  BY <1>1, <1>2, PTL DEF Spec

\* The kernel keeps what its variables are for: it writes within the two buffers, the
\* output and the counters.
THEOREM UniqueTypes == BlocksFit /\ OrdinaryCalls => (Spec => []UniqueTypeOK)
<1> SUFFICES ASSUME BlocksFit, OrdinaryCalls PROVE Spec => []UniqueTypeOK
  OBVIOUS
<1>1. Spec => [](UniqueInv /\ DataOK /\ PackOK)
  BY Packed
<1>2. UniqueInv /\ DataOK /\ PackOK => UniqueTypeOK
  BY DEF UniqueInv, PackOK, UniqueTypeOK
<1> QED  BY <1>1, <1>2, PTL

\* When the kernel returns, the output is the sorted tensor without its duplicates,
\* infinity once if the tensor has it, on every number of cores and in every order in
\* which they come to work.
THEOREM Exact == BlocksFit /\ OrdinaryCalls => (Spec => []ResultExact)
<1> SUFFICES ASSUME BlocksFit, OrdinaryCalls PROVE Spec => []ResultExact
  OBVIOUS
<1>1. Spec => [](UniqueInv /\ DataOK /\ PackOK)
  BY Packed
<1>2. UniqueInv /\ DataOK /\ PackOK => ResultExact
  BY UniqueAssumption, PackedResult
<1> QED  BY <1>1, <1>2, PTL

\* Where two blocks overlap in the output, the second core writes the key that the first
\* one has written.
THEOREM Agrees == BlocksFit /\ OrdinaryCalls => (Spec => OutputAgrees)
<1> SUFFICES ASSUME BlocksFit, OrdinaryCalls PROVE Spec => OutputAgrees
  OBVIOUS
<1>1. Spec => [](UniqueInv /\ DataOK /\ PackOK)
  BY Packed
<1>2. UniqueInv /\ DataOK /\ PackOK /\ [Next]_vars =>
        [\A k \in DOMAIN dst : dst[k] # Unwritten => dst'[k] = dst[k]]_vars
  BY UniqueAssumption, OutputSteps
<1>3. Spec => [][Next]_vars
  BY PTL DEF Spec
<1> QED  BY <1>1, <1>2, <1>3, PTL DEF OutputAgrees
=============================================================================
