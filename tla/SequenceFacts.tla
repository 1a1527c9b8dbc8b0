--------------------------- MODULE SequenceFacts ----------------------------
(***************************************************************************)
(* Facts about numbers, sequences, sequences of sequences and counts that  *)
(* say nothing of the program; the proofs about the samplers and about     *)
(* UniqueV2 rest on them.  Induction takes no operator here: a set of      *)
(* numbers that holds 0 and the successor of each of its members holds all *)
(* of them.                                                                *)
(***************************************************************************)
EXTENDS Integers, SequencesExt, FiniteSetTheorems, WellFoundedInduction, TLAPS

\* A set of naturals has a least one.
LEMMA NatMin ==
  ASSUME NEW S, S \subseteq Nat, S # {}
  PROVE  \E x \in S : \A y \in S : x <= y
<1> DEFINE Less == {ss \in Nat \X Nat : ss[1] < ss[2]}
<1>1. OpToRel(<, Nat) = Less
  BY DEF OpToRel
<1>2. IsWellFoundedOn(Less, Nat)
  BY <1>1, NatLessThanWellFounded
<1>3. PICK x \in S : \A y \in S : ~(<<y, x>> \in Less)
  <2> HIDE DEF Less
  <2> QED  BY <1>2, WFMin, Zenon
<1>4. \A y \in S : <<y, x>> \in Nat \X Nat /\ (y < x => <<y, x>> \in Less)
  OBVIOUS
<1>5. \A y \in S : ~(y < x)
  BY <1>3, <1>4, Zenon
<1> QED  BY <1>5

\* Induction.
LEMMA NatInd ==
  ASSUME NEW S, 0 \in S, \A n \in Nat : n \in S => n + 1 \in S
  PROVE  Nat \subseteq S
<1> DEFINE T == Nat \ S
<1> SUFFICES ASSUME T # {} PROVE FALSE
  OBVIOUS
<1>1. PICK x \in T : \A y \in T : x <= y
  BY NatMin
<1>2. x - 1 \in Nat /\ x - 1 \notin T
  BY <1>1
<1> QED  BY <1>2

\* f is what becomes of a in n steps.
Iterates(f, n, A, a, step) ==
  f \in [0..n -> A] /\ f[0] = a /\ \A i \in 1..n : f[i] = step[i][f[i - 1]]

\* Steps can be taken one by one.
LEMMA Iterated ==
  ASSUME NEW n \in Nat, NEW A, NEW a \in A, NEW step \in [1..n -> [A -> A]]
  PROVE  \E f : Iterates(f, n, A, a, step)
<1> DEFINE Begun(k, f) == /\ f \in [0..n -> A]
                          /\ f[0] = a
                          /\ \A i \in 1..n : i <= k => f[i] = step[i][f[i - 1]]
           Good == {k \in Nat : \E f : Begun(k, f)}
<1>1. 0 \in Good
  <2>1. Begun(0, [i \in 0..n |-> a])
    OBVIOUS
  <2> QED  BY <2>1
<1>2. ASSUME NEW k \in Nat, k \in Good PROVE k + 1 \in Good
  <2>1. PICK f : Begun(k, f)
    BY <1>2
  <2>2. CASE k + 1 \notin 1..n
    <3>1. Begun(k + 1, f)
      BY <2>1, <2>2
    <3> QED  BY <3>1
  <2>3. CASE k + 1 \in 1..n
    <3> DEFINE g == [f EXCEPT ![k + 1] = step[k + 1][f[k]]]
    <3>1. step[k + 1][f[k]] \in A
      <4>1. f[k] \in A
        BY <2>1, <2>3
      <4> QED  BY <4>1, <2>3
    <3>2. g \in [0..n -> A] /\ g[0] = a
      BY <2>1, <2>3, <3>1
    <3>3. ASSUME NEW i \in 1..n, i <= k + 1 PROVE g[i] = step[i][g[i - 1]]
      <4>1. g[i - 1] = f[i - 1]
        BY <2>1, <3>3
      <4>2. CASE i = k + 1
        BY <4>1, <4>2, <2>1, <2>3
      <4>3. CASE i # k + 1
        BY <4>1, <4>3, <2>1, <3>3
      <4> QED  BY <4>2, <4>3
    <3>4. Begun(k + 1, g)
      BY <3>2, <3>3
    <3> HIDE DEF g
    <3> QED  BY <3>4
  <2> QED  BY <2>2, <2>3
<1>3. n \in Good
  <2> HIDE DEF Good
  <2> QED  BY <1>1, <1>2, NatInd
<1>4. PICK f : Begun(n, f)
  BY <1>3
<1>5. Iterates(f, n, A, a, step)
  BY <1>4 DEF Iterates
<1> QED  BY <1>5

-----------------------------------------------------------------------------
(* Numbers *)

\* What integer division gives, in a form the solver can use.
LEMMA Division ==
  ASSUME NEW m \in Nat, NEW d \in Nat \ {0}
  PROVE  /\ m \div d \in Nat
         /\ m % d \in 0..(d - 1)
         /\ m = d * (m \div d) + (m % d)
OBVIOUS

\* Multiplication by a natural number keeps the order.
LEMMA TimesGrows ==
  ASSUME NEW x \in Int, NEW y \in Int, NEW b \in Nat, x <= y
  PROVE  x * b <= y * b /\ x * b \in Int /\ (x \in Nat => x * b \in Nat)
OBVIOUS

\* What is left of a division is lost.
LEMMA Rounded ==
  ASSUME NEW q \in Nat, NEW d \in Nat \ {0}, NEW m \in 0..(d - 1)
  PROVE  (q * d + m) \div d = q
<1> DEFINE n == q * d + m
           u == n \div d
           v == n % d
<1>1. n \in Nat
  OBVIOUS
<1> HIDE DEF n
<1>2. u \in Nat /\ v \in 0..(d - 1) /\ n = d * u + v
  BY <1>1, Division
<1> HIDE DEF u, v
<1>3. CASE u < q
  <2>1. (u + 1) * d <= q * d
    BY <1>2, <1>3, TimesGrows
  <2> QED  BY <2>1, <1>2 DEF n
<1>4. CASE q < u
  <2>1. (q + 1) * d <= u * d
    BY <1>2, <1>4, TimesGrows
  <2> QED  BY <2>1, <1>2 DEF n
<1> QED  BY <1>2, <1>3, <1>4 DEF u, n

\* Cells of a rows of b, numbered row by row from 1.
HasCell(p, a, b) == \E r \in 0..(a - 1) : \E k \in 1..b : p = r * b + k

\* Rows and columns number each cell once.
LEMMA Cells ==
  ASSUME NEW a \in Nat, NEW b \in Nat
  PROVE  /\ \A r \in 0..(a - 1), k \in 1..b : r * b + k \in 1..(a * b)
         /\ \A r \in 0..(a - 1), k \in 1..b, q \in 0..(a - 1), l \in 1..b :
              r * b + k = q * b + l => r = q /\ k = l
         /\ \A p \in 1..(a * b) : HasCell(p, a, b)
<1>1. ASSUME NEW r \in 0..(a - 1), NEW k \in 1..b PROVE r * b + k \in 1..(a * b)
  <2>1. (r + 1) * b <= a * b /\ r * b \in Nat
    BY TimesGrows
  <2>2. (r + 1) * b = r * b + b /\ a * b \in Nat
    OBVIOUS
  <2> QED  BY <2>1, <2>2
<1>2. ASSUME NEW r \in 0..(a - 1), NEW k \in 1..b, NEW q \in 0..(a - 1), NEW l \in 1..b,
             r < q
      PROVE  r * b + k < q * b + l
  <2>1. (r + 1) * b <= q * b /\ r * b \in Nat /\ q * b \in Nat
    BY <1>2, TimesGrows
  <2>2. (r + 1) * b = r * b + b
    OBVIOUS
  <2> QED  BY <2>1, <2>2
<1>3. ASSUME NEW r \in 0..(a - 1), NEW k \in 1..b, NEW q \in 0..(a - 1), NEW l \in 1..b,
             r * b + k = q * b + l
      PROVE  r = q /\ k = l
  <2>1. ~(r < q) /\ ~(q < r)
    <3>1. r < q => r * b + k < q * b + l
      BY <1>2
    <3>2. q < r => q * b + l < r * b + k
      BY <1>2
    <3>3. r * b \in Int /\ q * b \in Int
      OBVIOUS
    <3> QED  BY <1>3, <3>1, <3>2, <3>3
  <2>2. r = q
    BY <2>1
  <2>3. r * b \in Int
    OBVIOUS
  <2> QED  BY <1>3, <2>2, <2>3
<1>4. ASSUME NEW p \in 1..(a * b)
      PROVE  HasCell(p, a, b)
  <2>1. b \in Nat \ {0}
    OBVIOUS
  <2> DEFINE z == p - 1
             r == z \div b
             m == z % b
  <2>0. z \in Nat /\ p = z + 1
    OBVIOUS
  <2> HIDE DEF z
  <2>2. r \in Nat /\ m \in 0..(b - 1) /\ z = b * r + m
    BY <2>0, <2>1, Division
  <2> HIDE DEF r, m
  <2>3. r < a
    <3>1. CASE a <= r
      <4>1. a * b <= r * b
        BY <2>2, <3>1, TimesGrows
      <4> QED  BY <2>0, <2>2, <4>1
    <3> QED  BY <2>2, <3>1
  <2>4. r \in 0..(a - 1) /\ m + 1 \in 1..b /\ p = r * b + (m + 1)
    BY <2>0, <2>2, <2>3
  <2> QED  BY <2>4 DEF HasCell
<1> QED  BY <1>1, <1>3, <1>4

\* A cell is one of the cells.
LEMMA CellInside ==
  ASSUME NEW a \in Nat, NEW b \in Nat, NEW r \in 0..(a - 1), NEW k \in 1..b
  PROVE  r * b + k \in 1..(a * b)
BY Cells

\* A cell has one row and one column.
LEMMA CellOnce ==
  ASSUME NEW a \in Nat, NEW b \in Nat, NEW r \in 0..(a - 1), NEW k \in 1..b,
         NEW q \in 0..(a - 1), NEW l \in 1..b, r * b + k = q * b + l
  PROVE  r = q /\ k = l
BY Cells

\* Each number has a cell.
LEMMA CellFor ==
  ASSUME NEW a \in Nat, NEW b \in Nat, NEW n, n = a * b, NEW p \in 1..n
  PROVE  HasCell(p, a, b)
<1>1. p \in 1..(a * b)
  OBVIOUS
<1> QED  BY <1>1, Cells

\* The lesser of two numbers.
LEMMA MinPair ==
  ASSUME NEW a \in Int, NEW b \in Int
  PROVE  Min({a, b}) = IF a <= b THEN a ELSE b
BY DEF Min

\* x is a number of whole rounds of d.
Rounds(x, d) == \E m \in Nat : x = m * d

\* What divides without a rest is a number of rounds.
LEMMA Divided ==
  ASSUME NEW z \in Nat, NEW d \in Nat \ {0}, z % d = 0
  PROVE  Rounds(z, d)
<1> DEFINE m == z \div d
<1>1. m \in Nat /\ z = d * m + (z % d)
  BY Division
<1> HIDE DEF m
<1>2. z = m * d
  BY <1>1
<1> QED  BY <1>1, <1>2 DEF Rounds

\* Rounds add up.
LEMMA RoundsAdd ==
  ASSUME NEW x \in Nat, NEW y \in Nat, NEW d \in Nat, Rounds(x, d), Rounds(y, d)
  PROVE  Rounds(x + y, d)
<1>1. PICK a \in Nat : x = a * d
  BY DEF Rounds
<1>2. PICK b \in Nat : y = b * d
  BY DEF Rounds
<1> DEFINE m == a + b
<1>3. m \in Nat /\ m * d = a * d + b * d
  OBVIOUS
<1> HIDE DEF m
<1>4. x + y = m * d
  BY <1>1, <1>2, <1>3
<1> QED  BY <1>3, <1>4 DEF Rounds

-----------------------------------------------------------------------------
(* Sequences *)

\* Sequences of one length with the same elements are the same.
LEMMA SameSeq ==
  ASSUME NEW S, NEW u \in Seq(S), NEW v \in Seq(S), NEW m \in Nat, Len(u) = m, Len(v) = m,
         \A i \in 1..m : u[i] = v[i]
  PROVE  u = v
OBVIOUS

\* The elements of two sequences, one after the other.
LEMMA Concatenated ==
  ASSUME NEW S, NEW s \in Seq(S), NEW t \in Seq(S)
  PROVE  /\ s \o t \in Seq(S) /\ Len(s \o t) = Len(s) + Len(t)
         /\ \A p \in 1..Len(s) : (s \o t)[p] = s[p]
         /\ \A p \in 1..Len(t) : (s \o t)[Len(s) + p] = t[p]
OBVIOUS

\* The first elements of a sequence.
LEMMA FirstOf ==
  ASSUME NEW S, NEW s \in Seq(S), NEW k \in Nat, k <= Len(s)
  PROVE  /\ SubSeq(s, 1, k) \in Seq(S) /\ Len(SubSeq(s, 1, k)) = k
         /\ \A i \in 1..k : SubSeq(s, 1, k)[i] = s[i]
OBVIOUS

\* A sequence with one more element.
LEMMA Appended ==
  ASSUME NEW S, NEW s \in Seq(S), NEW x \in S
  PROVE  /\ Append(s, x) \in Seq(S) /\ Len(Append(s, x)) = Len(s) + 1 /\ Append(s, x) # <<>>
         /\ \A i \in 1..Len(s) : Append(s, x)[i] = s[i]
         /\ Append(s, x)[Len(s) + 1] = x
OBVIOUS

\* The rest of a list, and the rest of the rest.
LEMMA RestFacts ==
  ASSUME NEW S, NEW s \in Seq(S), NEW a \in Nat, NEW k \in Nat \ {0}
  PROVE  /\ SubSeq(s, a + 1, Len(s)) \in Seq(S)
         /\ Len(SubSeq(s, a + 1, Len(s))) = IF a <= Len(s) THEN Len(s) - a ELSE 0
         /\ SubSeq(s, a + 1, Len(s)) = <<>> <=> Len(s) <= a
         /\ \A i \in 1..(Len(s) - a) : SubSeq(s, a + 1, Len(s))[i] = s[a + i]
<1> DEFINE n == Len(s)
           u == SubSeq(s, a + 1, n)
<1>1. n \in Nat /\ u \in Seq(S)
  OBVIOUS
<1>2. Len(u) = IF a <= n THEN n - a ELSE 0
  OBVIOUS
<1>3. \A i \in 1..(n - a) : u[i] = s[a + i]
  OBVIOUS
<1>4. u = <<>> <=> Len(u) = 0
  BY <1>1
<1> HIDE DEF u
<1>5. u = <<>> <=> n <= a
  BY <1>1, <1>2, <1>4
<1> QED  BY <1>1, <1>2, <1>3, <1>5 DEF u

\* The rest after nothing is everything.
LEMMA WholeRest ==
  ASSUME NEW S, NEW s \in Seq(S)
  PROVE  SubSeq(s, 1, Len(s)) = s
OBVIOUS

\* The rest of a rest is a rest.
LEMMA RestOfRest ==
  ASSUME NEW S, NEW s \in Seq(S), NEW a \in Nat, a <= Len(s), NEW k \in 0..(Len(s) - a)
  PROVE  SubSeq(SubSeq(s, a + 1, Len(s)), k + 1, Len(s) - a) = SubSeq(s, a + k + 1, Len(s))
<1> DEFINE n == Len(s)
           u == SubSeq(s, a + 1, n)
           v == SubSeq(u, k + 1, n - a)
           w == SubSeq(s, a + k + 1, n)
<1>1. n \in Nat /\ u \in Seq(S) /\ Len(u) = n - a /\ \A i \in 1..(n - a) : u[i] = s[a + i]
  OBVIOUS
<1> HIDE DEF u
<1>2. v \in Seq(S) /\ Len(v) = n - a - k /\ \A i \in 1..(n - a - k) : v[i] = u[k + i]
  BY <1>1
<1>3. w \in Seq(S) /\ Len(w) = n - a - k /\ \A i \in 1..(n - a - k) : w[i] = s[a + k + i]
  BY <1>1
<1>6. a + k <= n /\ n - a - k \in Nat
  BY <1>1
<1> HIDE DEF v, w, n
<1>4. \A i \in 1..(n - a - k) : v[i] = w[i]
  <2> TAKE i \in 1..(n - a - k)
  <2> DEFINE j == k + i
  <2>1. j \in 1..(n - a) /\ a + j = a + k + i
    BY <1>1
  <2> HIDE DEF j
  <2>2. u[j] = s[a + j]
    BY <1>1, <2>1
  <2> QED  BY <1>2, <1>3, <2>1, <2>2 DEF j
<1>5. v = w
  BY <1>2, <1>3, <1>4, <1>6, SameSeq
<1> QED  BY <1>5 DEF u, v, w, n

\* The first k of what is left of s after a of it are a batch of size b.
Takes(S, s, a, b, rs, k) ==
  /\ a < Len(s) /\ k = Min({b, Len(s) - a}) /\ k \in Nat \ {0}
  /\ SubSeq(rs, 1, k) \in Seq(S) /\ Len(SubSeq(rs, 1, k)) = k
  /\ \A i \in 1..k : SubSeq(rs, 1, k)[i] = s[a + i]
  /\ SubSeq(rs, k + 1, Len(rs)) = SubSeq(s, a + b + 1, Len(s))

\* A batch of the rest is a batch of the list.
LEMMA FirstTaken ==
  ASSUME NEW S, NEW s \in Seq(S), NEW a \in Nat, NEW b \in Nat \ {0}, NEW rs, NEW k,
         rs = SubSeq(s, a + 1, Len(s)), rs # <<>>, k = Min({b, Len(rs)})
  PROVE  Takes(S, s, a, b, rs, k)
<1> DEFINE n == Len(s)
<1>1. /\ n \in Nat /\ rs \in Seq(S) /\ a < n /\ Len(rs) = n - a
      /\ \A i \in 1..(n - a) : rs[i] = s[a + i]
  <2>1. n \in Nat
    OBVIOUS
  <2>2. ~(n <= a)
    BY <2>1, RestFacts
  <2>3. rs \in Seq(S) /\ Len(rs) = (IF a <= n THEN n - a ELSE 0) /\ \A i \in 1..(n - a) : rs[i] = s[a + i]
    BY RestFacts
  <2> QED  BY <2>1, <2>2, <2>3
<1> DEFINE m == n - a
<1>2. m \in Nat \ {0} /\ Len(rs) = m
  BY <1>1
<1> HIDE DEF n, m
<1>3. k = Min({b, m})
  BY <1>2, Zenon
<1>4. k = IF b <= m THEN b ELSE m
  BY <1>2, <1>3, MinPair
<1>5. k \in Nat \ {0} /\ k <= m /\ (k = b \/ (k = m /\ m <= b))
  BY <1>2, <1>4
<1>6. /\ SubSeq(rs, 1, k) \in Seq(S) /\ Len(SubSeq(rs, 1, k)) = k
      /\ \A i \in 1..k : SubSeq(rs, 1, k)[i] = rs[i]
  <2>1. rs \in Seq(S) /\ k \in Nat /\ k <= Len(rs)
    BY <1>1, <1>2, <1>5
  <2> QED  BY <2>1, FirstOf, Zenon
<1>7. \A i \in 1..k : rs[i] = s[a + i]
  <2>1. \A i \in 1..k : i \in 1..m
    BY <1>2, <1>5
  <2> QED  BY <1>1, <2>1 DEF m
<1>8. SubSeq(rs, k + 1, Len(rs)) = SubSeq(s, a + b + 1, Len(s))
  <2>1. SubSeq(rs, k + 1, m) = SubSeq(s, a + k + 1, n)
    <3>1. k \in 0..(Len(s) - a) /\ a <= Len(s)
      BY <1>1, <1>2, <1>5 DEF m, n
    <3> QED  BY <3>1, RestOfRest DEF m, n
  <2>2. CASE k = b
    BY <1>2, <2>1, <2>2 DEF n
  <2>3. CASE k = m /\ m <= b
    <3>1. Len(s) <= a + k /\ Len(s) <= a + b /\ a + k \in Nat /\ a + b \in Nat
      BY <1>1, <1>2, <2>3 DEF m, n
    <3>2. SubSeq(s, (a + k) + 1, Len(s)) = <<>>
      BY <1>5, <3>1, RestFacts
    <3>3. SubSeq(s, (a + b) + 1, Len(s)) = <<>>
      BY <1>5, <3>1, RestFacts
    <3> QED  BY <1>2, <2>1, <3>2, <3>3 DEF n
  <2> QED  BY <1>5, <2>2, <2>3
<1> QED  BY <1>1, <1>3, <1>5, <1>6, <1>7, <1>8 DEF m, n, Takes

-----------------------------------------------------------------------------
(* Sequences of sequences, one after the other *)

\* The sequences put together one by one: flat[n] holds the first n.
LEMMA FlattenSteps ==
  ASSUME NEW S, NEW ss \in Seq(Seq(S))
  PROVE  \E flat \in [0..Len(ss) -> Seq(S)] :
           /\ flat[0] = <<>>
           /\ \A i \in 1..Len(ss) : flat[i] = flat[i - 1] \o ss[i]
           /\ flat[Len(ss)] = FlattenSeq(ss)
<1> DEFINE n == Len(ss)
           A == Seq(S)
           step == [i \in 1..n |-> [s \in A |-> s \o ss[i]]]
           Step(f) == [i \in 1..n |-> IF i = 1 THEN ss[i] ELSE f[i - 1] \o ss[i]]
<1>1. n \in Nat /\ <<>> \in A /\ \A i \in 1..n : ss[i] \in A
  OBVIOUS
<1>2. \A s \in A, t \in A : s \o t \in A /\ <<>> \o s = s
  OBVIOUS
<1> HIDE DEF n, A
<1>3. step \in [1..n -> [A -> A]]
  BY <1>1, <1>2
<1>4. PICK flat : Iterates(flat, n, A, <<>>, step)
  <2> HIDE DEF step
  <2> QED  BY <1>1, <1>3, Iterated, Zenon
<1>5. ASSUME NEW i \in 1..n
      PROVE  flat[i - 1] \in A /\ flat[i] = flat[i - 1] \o ss[i]
  <2>1. flat[i - 1] \in A
    <3>1. i - 1 \in 0..n
      BY <1>1
    <3> QED  BY <3>1, <1>4 DEF Iterates
  <2>2. step[i] = [s \in A |-> s \o ss[i]]
    OBVIOUS
  <2> HIDE DEF step
  <2>3. flat[i] = step[i][flat[i - 1]]
    BY <1>4 DEF Iterates
  <2> QED  BY <2>1, <2>2, <2>3, Zenon
<1> HIDE DEF step
<1>6. flat[n] = FlattenSeq(ss)
  <2>1. CASE n = 0
    <3>1. ss = <<>>
      BY <2>1 DEF n
    <3>2. FlattenSeq(ss) = <<>>
      BY <2>1, <3>1 DEF n, FlattenSeq
    <3> QED  BY <2>1, <3>2, <1>4 DEF Iterates
  <2>2. CASE n # 0
    <3> DEFINE f == [i \in 1..n |-> flat[i]]
    <3>1. ASSUME NEW i \in 1..n
          PROVE  f[i] = IF i = 1 THEN ss[i] ELSE f[i - 1] \o ss[i]
      <4>1. flat[i] = flat[i - 1] \o ss[i] /\ ss[i] \in A
        BY <1>1, <1>5
      <4>2. i = 1 => flat[i] = ss[i]
        <5>1. i = 1 => i - 1 = 0
          OBVIOUS
        <5>2. i = 1 => flat[i - 1] = <<>>
          BY <5>1, <1>4, Zenon DEF Iterates
        <5> QED  BY <4>1, <5>2, <1>2, Zenon
      <4>3. i # 1 => f[i - 1] = flat[i - 1]
        BY <1>1
      <4> QED  BY <4>1, <4>2, <4>3
    <3>2. f = Step(f)
      <4> DEFINE V(i) == IF i = 1 THEN ss[i] ELSE f[i - 1] \o ss[i]
      <4>1. \A i \in 1..n : flat[i] = V(i)
        BY <3>1
      <4>2. Step(f) = [i \in 1..n |-> V(i)]
        OBVIOUS
      <4> HIDE DEF V
      <4> QED  BY <4>1, <4>2
    <3> DEFINE h == CHOOSE f1 : f1 = Step(f1)
    <3>3. h = Step(h)
      <4> HIDE DEF f
      <4> QED  BY <3>2
    <3>4. FlattenSeq(ss) = h[n]
      BY <2>2 DEF FlattenSeq, n
    <3> HIDE DEF h, f
    <3>5. \A i \in 1..n : h[i] = IF i = 1 THEN ss[i] ELSE h[i - 1] \o ss[i]
      <4> DEFINE V(i) == IF i = 1 THEN ss[i] ELSE h[i - 1] \o ss[i]
      <4>1. h = [i \in 1..n |-> V(i)]
        BY <3>3
      <4> HIDE DEF V
      <4>2. \A i \in 1..n : h[i] = V(i)
        BY <4>1
      <4> QED  BY <4>2 DEF V
    <3> DEFINE Good == {k \in Nat : \A i \in 1..n : i <= k => h[i] = flat[i]}
    <3>6. 0 \in Good
      OBVIOUS
    <3>7. ASSUME NEW k \in Nat, k \in Good PROVE k + 1 \in Good
      <4> SUFFICES ASSUME NEW i \in 1..n, i = k + 1 PROVE h[i] = flat[i]
        BY <3>7
      <4>1. i = 1 => h[i] = flat[i]
        <5>1. flat[i] = f[i] /\ h[i] = IF i = 1 THEN ss[i] ELSE h[i - 1] \o ss[i]
          BY <3>5 DEF f
        <5> QED  BY <5>1, <3>1
      <4>2. i # 1 => h[i - 1] = flat[i - 1] /\ i - 1 \in 1..n
        BY <3>7, <1>1
      <4> QED  BY <4>1, <4>2, <3>5, <1>5
    <3>8. n \in Good
      <4> HIDE DEF Good
      <4> QED  BY <1>1, <3>6, <3>7, NatInd
    <3> QED  BY <3>4, <3>8, <2>2, <1>1
  <2> QED  BY <2>1, <2>2
<1> QED  BY <1>4, <1>5, <1>6 DEF n, A, Iterates

\* start[i]: how many elements the first i sequences of ss hold.
Starts(start, ss) ==
  /\ start \in [0..Len(ss) -> Nat]
  /\ start[0] = 0
  /\ \A i \in 1..Len(ss) : start[i] = start[i - 1] + Len(ss[i])

\* Later sequences start later.
LEMMA StartsGrow ==
  ASSUME NEW S, NEW ss \in Seq(Seq(S)), NEW start, Starts(start, ss),
         NEW i \in 0..Len(ss), NEW k \in i..Len(ss)
  PROVE  start[i] <= start[k]
<1> DEFINE n == Len(ss)
           Good == {m \in Nat : i + m <= n => start[i] <= start[i + m]}
<1>1. n \in Nat /\ \A m \in 1..n : Len(ss[m]) \in Nat
  OBVIOUS
<1> HIDE DEF n
<1>2. start \in [0..n -> Nat] /\ \A m \in 1..n : start[m] = start[m - 1] + Len(ss[m])
  BY DEF Starts, n
<1>3. 0 \in Good
  <2>1. i \in 0..n /\ i + 0 = i
    BY DEF n
  <2>2. start[i] \in Nat
    BY <2>1, <1>2
  <2> QED  BY <2>1, <2>2
<1>4. ASSUME NEW m \in Nat, m \in Good PROVE m + 1 \in Good
  <2> SUFFICES ASSUME i + m + 1 <= n PROVE start[i] <= start[i + m + 1]
    OBVIOUS
  <2>1. i \in 0..n
    BY DEF n
  <2>2. i + m + 1 \in 1..n /\ i + m + 1 - 1 = i + m /\ i + m \in 0..n /\ i + m + 1 \in 0..n
    BY <2>1, <1>1
  <2>3. start[i + m + 1] = start[i + m] + Len(ss[i + m + 1]) /\ Len(ss[i + m + 1]) \in Nat
    BY <1>1, <1>2, <2>2
  <2>4. start[i] \in Nat /\ start[i + m] \in Nat /\ start[i + m + 1] \in Nat
    BY <1>2, <2>1, <2>2
  <2>5. start[i] <= start[i + m]
    BY <1>1, <1>4, <2>1, <2>2
  <2> QED  BY <2>3, <2>4, <2>5
<1>5. k - i \in Nat /\ i + (k - i) = k /\ k <= n
  BY <1>1 DEF n
<1>6. k - i \in Good
  <2> HIDE DEF Good
  <2> QED  BY <1>3, <1>4, <1>5, NatInd
<1> QED  BY <1>5, <1>6

\* A place belongs to one sequence only.
LEMMA PlacesApart ==
  ASSUME NEW S, NEW ss \in Seq(Seq(S)), NEW start, Starts(start, ss),
         NEW i \in 1..Len(ss), NEW j \in 1..Len(ss[i]),
         NEW i2 \in 1..Len(ss), NEW j2 \in 1..Len(ss[i2]),
         start[i - 1] + j = start[i2 - 1] + j2
  PROVE  i = i2 /\ j = j2
<1>1. ASSUME NEW a \in 1..Len(ss), NEW b \in 1..Len(ss), a < b,
             NEW x \in 1..Len(ss[a]), NEW y \in 1..Len(ss[b])
      PROVE  start[a - 1] + x < start[b - 1] + y
  <2>1. start[a] <= start[b - 1]
    <3>1. a \in 0..Len(ss) /\ b - 1 \in a..Len(ss)
      BY <1>1
    <3> QED  BY <3>1, StartsGrow
  <2>2. start[a] = start[a - 1] + Len(ss[a])
    BY DEF Starts
  <2>3. start[a] \in Nat /\ start[a - 1] \in Nat /\ start[b - 1] \in Nat
    <3>1. a \in 0..Len(ss) /\ a - 1 \in 0..Len(ss) /\ b - 1 \in 0..Len(ss)
      OBVIOUS
    <3> QED  BY <3>1 DEF Starts
  <2>4. x \in Int /\ y \in Int /\ x <= Len(ss[a]) /\ 0 < y /\ Len(ss[a]) \in Int
    OBVIOUS
  <2> DEFINE from == start[a - 1]
             upto == start[a]
             next == start[b - 1]
             size == Len(ss[a])
  <2>5. /\ upto = from + size /\ upto <= next /\ x <= size /\ 0 < y
        /\ from \in Int /\ upto \in Int /\ next \in Int /\ size \in Int
    BY <2>1, <2>2, <2>3, <2>4
  <2> HIDE DEF from, upto, next, size
  <2>6. from + x < next + y
    BY <2>4, <2>5
  <2> QED  BY <2>6 DEF from, next
<1>2. Len(ss) \in Nat /\ Len(ss[i]) \in Nat /\ Len(ss[i2]) \in Nat
  OBVIOUS
<1>3. start[i - 1] \in Nat /\ start[i2 - 1] \in Nat
  <2>1. i - 1 \in 0..Len(ss) /\ i2 - 1 \in 0..Len(ss)
    BY <1>2
  <2> QED  BY <2>1 DEF Starts
<1>4. ~(i < i2) /\ ~(i2 < i)
  <2>1. i < i2 => start[i - 1] + j < start[i2 - 1] + j2
    BY <1>1
  <2>2. i2 < i => start[i2 - 1] + j2 < start[i - 1] + j
    BY <1>1
  <2> QED  BY <2>1, <2>2, <1>2, <1>3
<1>5. i = i2
  BY <1>2, <1>4
<1> QED  BY <1>2, <1>3, <1>5

\* Every place belongs to a sequence.
LEMMA PlacesReached ==
  ASSUME NEW S, NEW ss \in Seq(Seq(S)), NEW start, Starts(start, ss),
         NEW p \in 1..start[Len(ss)]
  PROVE  \E i \in 1..Len(ss) : \E j \in 1..Len(ss[i]) : p = start[i - 1] + j
<1> DEFINE n == Len(ss)
           Ends == {i \in 0..n : p <= start[i]}
<1>1. n \in Nat /\ \A m \in 1..n : Len(ss[m]) \in Nat
  OBVIOUS
<1>2. /\ start \in [0..n -> Nat] /\ start[0] = 0 /\ p \in 1..start[n]
      /\ \A m \in 1..n : start[m] = start[m - 1] + Len(ss[m])
  BY DEF Starts
<1> HIDE DEF n
<1>3. n \in Ends /\ Ends \subseteq Nat
  BY <1>1, <1>2
<1>4. PICK i \in Ends : \A m \in Ends : i <= m
  BY <1>3, NatMin
<1>5. i \in 1..n /\ i - 1 \in 0..n
  BY <1>1, <1>2, <1>4
<1>6. i - 1 \notin Ends
  BY <1>1, <1>4, <1>5
<1>7. start[i - 1] < p /\ p <= start[i - 1] + Len(ss[i]) /\ start[i - 1] \in Nat
  BY <1>1, <1>2, <1>4, <1>5, <1>6
<1>8. p - start[i - 1] \in 1..Len(ss[i]) /\ p = start[i - 1] + (p - start[i - 1])
  BY <1>1, <1>2, <1>5, <1>7
<1> QED  BY <1>5, <1>8 DEF n

\* Sequences of whole rounds start at whole rounds.
LEMMA RoundStarts ==
  ASSUME NEW S, NEW ss \in Seq(Seq(S)), NEW start, Starts(start, ss), NEW d \in Nat \ {0},
         \A k \in 1..Len(ss) : Len(ss[k]) % d = 0, NEW i \in 0..Len(ss)
  PROVE  Rounds(start[i], d)
<1> DEFINE n == Len(ss)
           Good == {k \in Nat : k <= n => Rounds(start[k], d)}
<1>1. /\ n \in Nat /\ start[0] = 0 /\ \A k \in 1..n : start[k] = start[k - 1] + Len(ss[k])
      /\ \A k \in 1..n : Len(ss[k]) \in Nat /\ Len(ss[k]) % d = 0
      /\ \A k \in 0..n : start[k] \in Nat
  <2>1. n \in Nat /\ start[0] = 0 /\ \A k \in 1..n : start[k] = start[k - 1] + Len(ss[k])
    BY DEF Starts
  <2>2. \A k \in 1..n : Len(ss[k]) \in Nat
    OBVIOUS
  <2>4. \A k \in 1..n : Len(ss[k]) % d = 0
    BY Zenon
  <2>3. \A k \in 0..n : start[k] \in Nat
    BY DEF Starts
  <2> QED  BY <2>1, <2>2, <2>3, <2>4
<1> HIDE DEF n
<1>2. ASSUME NEW k \in 1..n PROVE Rounds(Len(ss[k]), d)
  BY <1>1, Divided
<1>3. 0 \in Good
  <2>1. 0 * d = 0
    OBVIOUS
  <2>2. Rounds(0, d)
    BY <2>1 DEF Rounds
  <2> QED  BY <1>1, <2>2
<1>4. ASSUME NEW k \in Nat, k \in Good PROVE k + 1 \in Good
  <2> SUFFICES ASSUME k + 1 <= n PROVE Rounds(start[k + 1], d)
    OBVIOUS
  <2>1. Rounds(start[k], d)
    BY <1>1, <1>4
  <2> DEFINE j == k + 1
  <2>2. j \in 1..n /\ j - 1 = k /\ k \in 0..n
    BY <1>1
  <2> HIDE DEF j
  <2>3. Rounds(Len(ss[j]), d) /\ Len(ss[j]) \in Nat /\ start[k] \in Nat
    BY <1>1, <1>2, <2>2
  <2>4. start[j] = start[k] + Len(ss[j])
    BY <1>1, <2>2
  <2>5. Rounds(start[k] + Len(ss[j]), d)
    BY <2>1, <2>3, RoundsAdd
  <2> QED  BY <2>4, <2>5 DEF j
<1>5. Nat \subseteq Good
  <2> HIDE DEF Good
  <2> QED  BY <1>3, <1>4, NatInd
<1>6. i \in Nat /\ i <= n
  BY DEF n
<1>7. i \in Good
  <2> HIDE DEF Good
  <2> QED  BY <1>5, <1>6
<1> QED  BY <1>6, <1>7

\* Sequences of one length start at its multiples.
LEMMA LevelStarts ==
  ASSUME NEW S, NEW ss \in Seq(Seq(S)), NEW start, Starts(start, ss), NEW m \in Nat,
         \A k \in 1..Len(ss) : Len(ss[k]) = m, NEW i \in 0..Len(ss)
  PROVE  start[i] = i * m
<1> DEFINE n == Len(ss)
           Good == {k \in Nat : k <= n => start[k] = k * m}
<1>1. n \in Nat /\ start[0] = 0 /\ \A k \in 1..n : start[k] = start[k - 1] + m
  BY DEF Starts
<1>2. 0 \in Good
  <2>1. 0 * m = 0
    OBVIOUS
  <2> QED  BY <1>1, <2>1
<1>3. ASSUME NEW k \in Nat, k \in Good PROVE k + 1 \in Good
  <2> SUFFICES ASSUME k + 1 <= n PROVE start[k + 1] = (k + 1) * m
    OBVIOUS
  <2>1. start[k] = k * m
    BY <1>1, <1>3
  <2> DEFINE j == k + 1
  <2>2. j \in 1..n /\ j - 1 = k /\ j * m = k * m + m
    BY <1>1
  <2> HIDE DEF j
  <2>3. start[j] = j * m
    BY <1>1, <2>1, <2>2
  <2> QED  BY <2>3 DEF j
<1>4. Nat \subseteq Good
  <2> HIDE DEF Good
  <2> QED  BY <1>2, <1>3, NatInd
<1> QED  BY <1>1, <1>4

\* The elements of ss, each at its place of the whole.
Laid(s, start, ss) ==
  /\ Starts(start, ss)
  /\ Len(s) = start[Len(ss)]
  /\ \A i \in 1..Len(ss) : \A j \in 1..Len(ss[i]) :
       start[i - 1] + j \in 1..Len(s) /\ s[start[i - 1] + j] = ss[i][j]

\* The places of the sequences put together: FlattenSeq's recursive function is
\* reached by FlattenSteps only.
LEMMA FlattenPlaces ==
  ASSUME NEW S, NEW ss \in Seq(Seq(S))
  PROVE  FlattenSeq(ss) \in Seq(S) /\ \E start : Laid(FlattenSeq(ss), start, ss)
<1> DEFINE n == Len(ss)
<1>1. n \in Nat /\ \A m \in 1..n : ss[m] \in Seq(S)
  OBVIOUS
<1>2. PICK flat \in [0..n -> Seq(S)] :
         /\ flat[0] = <<>>
         /\ \A i \in 1..n : flat[i] = flat[i - 1] \o ss[i]
         /\ flat[n] = FlattenSeq(ss)
  BY FlattenSteps
<1> HIDE DEF n
<1> DEFINE start == [i \in 0..n |-> Len(flat[i])]
<1>3. \A i \in 0..n : flat[i] \in Seq(S) /\ start[i] = Len(flat[i]) /\ start[i] \in Nat
  BY <1>2
<1>4. start[0] = 0
  BY <1>1, <1>2
<1>5. ASSUME NEW i \in 1..n, NEW k \in 0..n, i = k + 1
      PROVE  /\ start[i] = start[k] + Len(ss[i])
             /\ \A q \in 1..start[k] : flat[i][q] = flat[k][q]
             /\ \A j \in 1..Len(ss[i]) : flat[i][start[k] + j] = ss[i][j]
  <2>1. i - 1 = k /\ i \in 0..n
    BY <1>1, <1>5
  <2>2. flat[i] = flat[k] \o ss[i] /\ ss[i] \in Seq(S) /\ flat[k] \in Seq(S)
    BY <2>1, <1>1, <1>2
  <2>3. start[i] = Len(flat[i]) /\ start[k] = Len(flat[k])
    BY <2>1, <1>3
  <2> HIDE DEF start
  <2> QED  BY <2>2, <2>3
<1> HIDE DEF start
<1>6. Starts(start, ss)
  <2>1. start \in [0..n -> Nat]
    BY <1>3 DEF start
  <2>2. ASSUME NEW i \in 1..n PROVE start[i] = start[i - 1] + Len(ss[i])
    <3>1. i - 1 \in 0..n /\ i = (i - 1) + 1
      BY <1>1
    <3> QED  BY <3>1, <1>5
  <2> QED  BY <2>1, <2>2, <1>4 DEF Starts, n
<1> DEFINE Good == {k \in Nat : k <= n =>
                      \A i \in 1..n : \A j \in 1..Len(ss[i]) : i <= k =>
                         start[i - 1] + j \in 1..start[k] /\ flat[k][start[i - 1] + j] = ss[i][j]}
<1>7. 0 \in Good
  BY <1>1
<1>8. ASSUME NEW k \in Nat, k \in Good PROVE k + 1 \in Good
  <2> SUFFICES ASSUME k + 1 <= n, NEW i \in 1..n, NEW j \in 1..Len(ss[i]), i <= k + 1
               PROVE  /\ start[i - 1] + j \in 1..start[k + 1]
                      /\ flat[k + 1][start[i - 1] + j] = ss[i][j]
    OBVIOUS
  <2>1. k + 1 \in 1..n /\ k + 1 - 1 = k /\ k \in 0..n /\ k + 1 \in 0..n
    BY <1>1
  <2>2. i <= k => start[i - 1] + j \in 1..start[k] /\ flat[k][start[i - 1] + j] = ss[i][j]
    BY <1>1, <1>8, <2>1
  <2> HIDE DEF Good
  <2> DEFINE m == k + 1
  <2>3. m \in 1..n /\ m = k + 1 /\ k \in 0..n /\ m \in 0..n /\ i - 1 \in 0..n
    BY <2>1, <1>1
  <2> HIDE DEF m
  <2>4. /\ start[m] = start[k] + Len(ss[m])
        /\ \A q \in 1..start[k] : flat[m][q] = flat[k][q]
        /\ \A x \in 1..Len(ss[m]) : flat[m][start[k] + x] = ss[m][x]
    BY <2>3, <1>5
  <2>5. Len(ss[m]) \in Nat /\ Len(ss[i]) \in Nat
    <3>1. ss[m] \in Seq(S) /\ ss[i] \in Seq(S)
      BY <2>3, <1>1
    <3> QED  BY <3>1
  <2>6. start[k] \in Nat /\ start[m] \in Nat /\ start[i - 1] \in Nat
    BY <2>3, <1>3
  <2>7. start[i - 1] + j \in 1..start[m] /\ flat[m][start[i - 1] + j] = ss[i][j]
    <3>1. CASE i = m
      <4>1. start[i - 1] = start[k]
        BY <2>3, <3>1
      <4>2. flat[m][start[k] + j] = ss[m][j]
        BY <2>4, <3>1
      <4> QED  BY <4>1, <4>2, <2>4, <2>5, <2>6, <3>1
    <3>2. CASE i <= k
      <4> DEFINE p == start[i - 1] + j
      <4>1. p \in 1..start[k] /\ flat[k][p] = ss[i][j]
        BY <2>2, <3>2
      <4> HIDE DEF p
      <4>2. p \in 1..start[m]
        BY <4>1, <2>4, <2>5, <2>6
      <4>3. flat[m][p] = flat[k][p]
        BY <4>1, <2>4
      <4> QED  BY <4>1, <4>2, <4>3 DEF p
    <3>3. i = m \/ i <= k
      BY <2>3
    <3> QED  BY <3>1, <3>2, <3>3
  <2> QED  BY <2>7 DEF m
<1>9. n \in Good
  <2> HIDE DEF Good
  <2> QED  BY <1>1, <1>7, <1>8, NatInd
<1>10. Len(FlattenSeq(ss)) = start[n] /\ FlattenSeq(ss) \in Seq(S)
  BY <1>1, <1>2, <1>3
<1>11. Laid(FlattenSeq(ss), start, ss)
  BY <1>1, <1>2, <1>6, <1>9, <1>10 DEF Laid, n
<1> QED  BY <1>10, <1>11

-----------------------------------------------------------------------------
(* Parts of a set, and lists of it *)

\* Each member of S is at one place of one sequence of ss, and nothing else is.
Parts(ss, S) ==
  /\ ss \in Seq(Seq(S))
  /\ \A x \in S : \E b \in 1..Len(ss) : \E j \in 1..Len(ss[b]) : ss[b][j] = x
  /\ \A b \in 1..Len(ss), c \in 1..Len(ss) : \A j \in 1..Len(ss[b]), l \in 1..Len(ss[c]) :
       ss[b][j] = ss[c][l] => b = c /\ j = l

\* s lists the members of S, each of them once.
Lists(s, S) ==
  /\ s \in Seq(S)
  /\ \A x \in S : \E p \in 1..Len(s) : s[p] = x
  /\ \A p \in 1..Len(s), q \in 1..Len(s) : s[p] = s[q] => p = q

\* The second half of Parts, for one pair of places.
LEMMA OnePlace ==
  ASSUME NEW S, NEW ss, Parts(ss, S), NEW b \in 1..Len(ss), NEW c \in 1..Len(ss),
         NEW j \in 1..Len(ss[b]), NEW l \in 1..Len(ss[c]), ss[b][j] = ss[c][l]
  PROVE  b = c /\ j = l
BY Zenon DEF Parts

\* Parts put one after the other list the set.
LEMMA FlattenedParts ==
  ASSUME NEW S, NEW ss, Parts(ss, S)
  PROVE  Lists(FlattenSeq(ss), S)
<1> DEFINE s == FlattenSeq(ss)
<1>1. ss \in Seq(Seq(S))
  BY DEF Parts
<1>2. s \in Seq(S) /\ \E start : Laid(s, start, ss)
  BY <1>1, FlattenPlaces
<1>3. PICK start : Laid(s, start, ss)
  BY <1>2
<1> HIDE DEF s
<1>4. ASSUME NEW x \in S PROVE \E p \in 1..Len(s) : s[p] = x
  <2>1. PICK b, j : b \in 1..Len(ss) /\ j \in 1..Len(ss[b]) /\ ss[b][j] = x
    BY DEF Parts
  <2>2. start[b - 1] + j \in 1..Len(s) /\ s[start[b - 1] + j] = x
    BY <1>3, <2>1 DEF Laid
  <2> QED  BY <2>2
<1>5. ASSUME NEW p \in 1..Len(s)
      PROVE  \E b \in 1..Len(ss) : \E j \in 1..Len(ss[b]) : p = start[b - 1] + j /\ s[p] = ss[b][j]
  <2>1. p \in 1..start[Len(ss)] /\ Starts(start, ss)
    BY <1>3 DEF Laid
  <2>2. PICK b \in 1..Len(ss) : \E j \in 1..Len(ss[b]) : p = start[b - 1] + j
    BY <2>1, <1>1, PlacesReached
  <2>3. PICK j \in 1..Len(ss[b]) : p = start[b - 1] + j
    BY <2>2
  <2>4. s[p] = ss[b][j]
    BY <1>3, <2>3 DEF Laid
  <2> QED  BY <2>3, <2>4
<1>6. ASSUME NEW p \in 1..Len(s), NEW q \in 1..Len(s), s[p] = s[q]
      PROVE  p = q
  <2>1. PICK b, j : b \in 1..Len(ss) /\ j \in 1..Len(ss[b]) /\ p = start[b - 1] + j /\ s[p] = ss[b][j]
    BY <1>5
  <2>2. PICK c, l : c \in 1..Len(ss) /\ l \in 1..Len(ss[c]) /\ q = start[c - 1] + l /\ s[q] = ss[c][l]
    BY <1>5
  <2>3. ss[b][j] = ss[c][l]
    BY <1>6, <2>1, <2>2
  <2>4. b = c /\ j = l
    BY <2>1, <2>2, <2>3, OnePlace
  <2> QED  BY <2>1, <2>2, <2>4
<1>7. Lists(s, S)
  BY <1>2, <1>4, <1>6 DEF Lists
<1> QED  BY <1>7 DEF s

\* A list cut into sequences gives parts.
LEMMA ListedParts ==
  ASSUME NEW S, NEW ss \in Seq(Seq(S)), Lists(FlattenSeq(ss), S)
  PROVE  Parts(ss, S)
<1> DEFINE s == FlattenSeq(ss)
<1>1. PICK start : Laid(s, start, ss)
  BY FlattenPlaces
<1>2. Lists(s, S)
  OBVIOUS
<1> HIDE DEF s
<1>3. Starts(start, ss) /\ Len(s) = start[Len(ss)]
  BY <1>1 DEF Laid
<1>4. ASSUME NEW x \in S
      PROVE  \E b \in 1..Len(ss) : \E j \in 1..Len(ss[b]) : ss[b][j] = x
  <2>1. PICK p \in 1..Len(s) : s[p] = x
    BY <1>2 DEF Lists
  <2>5. p \in 1..start[Len(ss)] /\ Starts(start, ss)
    BY <1>3
  <2>2. PICK b \in 1..Len(ss) : \E j \in 1..Len(ss[b]) : p = start[b - 1] + j
    BY <2>5, PlacesReached
  <2>3. PICK j \in 1..Len(ss[b]) : p = start[b - 1] + j
    BY <2>2
  <2>4. ss[b][j] = x
    BY <1>1, <2>1, <2>3 DEF Laid
  <2> QED  BY <2>4
<1>5. ASSUME NEW b \in 1..Len(ss), NEW c \in 1..Len(ss),
             NEW j \in 1..Len(ss[b]), NEW l \in 1..Len(ss[c]), ss[b][j] = ss[c][l]
      PROVE  b = c /\ j = l
  <2>1. /\ start[b - 1] + j \in 1..Len(s) /\ s[start[b - 1] + j] = ss[b][j]
        /\ start[c - 1] + l \in 1..Len(s) /\ s[start[c - 1] + l] = ss[c][l]
    BY <1>1 DEF Laid
  <2>2. start[b - 1] + j = start[c - 1] + l
    <3> DEFINE p == start[b - 1] + j
               q == start[c - 1] + l
    <3>1. p \in 1..Len(s) /\ q \in 1..Len(s) /\ s[p] = s[q]
      BY <1>5, <2>1
    <3> HIDE DEF p, q
    <3>2. p = q
      BY <1>2, <3>1 DEF Lists
    <3> QED  BY <3>2 DEF p, q
  <2> QED  BY <1>3, <2>2, PlacesApart
<1> QED  BY <1>4, <1>5 DEF Parts

\* p puts the numbers to n in another order.
Reorders(p, n) ==
  /\ p \in [1..n -> 1..n]
  /\ \A i \in 1..n, k \in 1..n : p[i] = p[k] => i = k
  /\ \A k \in 1..n : \E i \in 1..n : p[i] = k

-----------------------------------------------------------------------------
(* Counting the small entries of a function on numbers *)

\* How many of the entries of f from lo on and before hi are at most x.
Num(f, lo, hi, x) == Cardinality({e \in lo..(hi - 1) : f[e] <= x})

\* The entries counted are finitely many.
LEMMA NumBound ==
  ASSUME NEW f, NEW x, NEW lo \in Int, NEW hi \in Int, lo <= hi
  PROVE  /\ IsFiniteSet({e \in lo..(hi - 1) : f[e] <= x})
         /\ Num(f, lo, hi, x) \in Nat /\ Num(f, lo, hi, x) <= hi - lo
<1> DEFINE S == lo..(hi - 1)
           T == {e \in S : f[e] <= x}
<1>1. IsFiniteSet(S) /\ Cardinality(S) = hi - lo
  <2>1. hi - 1 \in Int
    OBVIOUS
  <2>2. IsFiniteSet(lo..(hi - 1)) /\ Cardinality(lo..(hi - 1)) = IF lo > hi - 1 THEN 0 ELSE (hi - 1) - lo + 1
    BY <2>1, FS_Interval
  <2> QED  BY <2>2
<1>2. T \in SUBSET S
  OBVIOUS
<1>3. Num(f, lo, hi, x) = Cardinality(T)
  BY DEF Num
<1> HIDE DEF S, T
<1>4. IsFiniteSet(T) /\ Cardinality(T) <= Cardinality(S)
  BY <1>1, <1>2, FS_Subset
<1>5. Cardinality(T) \in Nat
  BY <1>4, FS_CardinalityType
<1>6. Cardinality(T) <= hi - lo
  BY <1>1, <1>4
<1> QED  BY <1>3, <1>4, <1>5, <1>6 DEF S, T

\* There is nothing to count.
LEMMA NumNone ==
  ASSUME NEW f, NEW x, NEW lo \in Int
  PROVE  Num(f, lo, lo, x) = 0
<1>1. lo \in Int /\ lo <= lo
  OBVIOUS
<1>2. Num(f, lo, lo, x) \in Nat /\ Num(f, lo, lo, x) <= lo - lo
  BY <1>1, NumBound
<1> QED  BY <1>2

\* One entry more.
LEMMA NumNext ==
  ASSUME NEW f, NEW x, NEW lo \in Int, NEW hi \in Int, lo <= hi
  PROVE  Num(f, lo, hi + 1, x) = Num(f, lo, hi, x) + (IF f[hi] <= x THEN 1 ELSE 0)
<1> DEFINE S == {e \in lo..(hi - 1) : f[e] <= x}
           T == {e \in lo..((hi + 1) - 1) : f[e] <= x}
<1>1. IsFiniteSet(S) /\ Cardinality(S) \in Nat /\ Cardinality(S) = Num(f, lo, hi, x)
  BY NumBound DEF Num
<1>2. T = IF f[hi] <= x THEN S \cup {hi} ELSE S
  OBVIOUS
<1>3. hi \notin S
  OBVIOUS
<1>4. Num(f, lo, hi + 1, x) = Cardinality(T)
  BY DEF Num
<1> HIDE DEF S, T
<1>5. Cardinality(S \cup {hi}) = Cardinality(S) + 1
  BY <1>1, <1>3, FS_AddElement
<1> QED  BY <1>1, <1>2, <1>4, <1>5

\* The entries of one range and of the next.
LEMMA NumJoin ==
  ASSUME NEW f, NEW x, NEW a \in Int, NEW b \in Int, NEW c \in Int, a <= b, b <= c
  PROVE  Num(f, a, c, x) = Num(f, a, b, x) + Num(f, b, c, x)
<1> DEFINE G == {n \in Nat : Num(f, a, b + n, x) = Num(f, a, b, x) + Num(f, b, b + n, x)}
<1>0. Num(f, a, b, x) \in Nat
  BY NumBound
<1>1. 0 \in G
  <2>1. Num(f, b, b, x) = 0 /\ b + 0 = b
    BY NumNone
  <2> QED  BY <1>0, <2>1
<1>2. ASSUME NEW n \in Nat, n \in G PROVE n + 1 \in G
  <2>1. PICK d \in Int : d = b + n
    OBVIOUS
  <2>2. a <= d /\ b <= d /\ b + (n + 1) = d + 1
    BY <2>1
  <2>3. PICK i \in 0..1 : i = IF f[d] <= x THEN 1 ELSE 0
    OBVIOUS
  <2>4. Num(f, a, d + 1, x) = Num(f, a, d, x) + i
    BY <2>2, <2>3, NumNext
  <2>5. Num(f, b, d + 1, x) = Num(f, b, d, x) + i
    BY <2>2, <2>3, NumNext
  <2>6. Num(f, a, d, x) = Num(f, a, b, x) + Num(f, b, d, x)
    BY <1>2, <2>1
  <2>7. Num(f, b, d, x) \in Nat
    BY <2>2, NumBound
  <2>8. Num(f, a, d + 1, x) = Num(f, a, b, x) + Num(f, b, d + 1, x)
    BY <1>0, <2>4, <2>5, <2>6, <2>7
  <2> QED  BY <2>2, <2>8
<1> HIDE DEF G
<1>3. Nat \subseteq G
  BY <1>1, <1>2, NatInd
<1>4. c - b \in Nat /\ b + (c - b) = c
  OBVIOUS
<1> QED  BY <1>3, <1>4 DEF G

\* The entries of f from a to before p are those of g from b to before q.
Shifted(f, a, p, g, b, q) ==
  /\ a \in Int /\ b \in Int /\ p \in Int /\ q \in Int /\ a <= p /\ p - a = q - b
  /\ \A i \in Int, j \in Int : a <= i /\ i < p /\ i - a = j - b => f[i] = g[j]

\* The same entries elsewhere.
LEMMA NumShift ==
  ASSUME NEW f, NEW a, NEW p, NEW g, NEW b, NEW q, Shifted(f, a, p, g, b, q), NEW x
  PROVE  Num(f, a, p, x) = Num(g, b, q, x)
<1>0. /\ a \in Int /\ b \in Int /\ p \in Int /\ q \in Int /\ a <= p /\ p - a = q - b
      /\ \A i \in Int, j \in Int : a <= i /\ i < p /\ i - a = j - b => f[i] = g[j]
  BY DEF Shifted
<1> DEFINE G == {k \in Nat : a + k <= p => Num(f, a, a + k, x) = Num(g, b, b + k, x)}
<1>1. 0 \in G
  <2>1. Num(f, a, a, x) = 0 /\ Num(g, b, b, x) = 0 /\ a + 0 = a /\ b + 0 = b
    BY <1>0, NumNone
  <2> QED  BY <2>1
<1>2. ASSUME NEW k \in Nat, k \in G PROVE k + 1 \in G
  <2> SUFFICES ASSUME a + (k + 1) <= p
               PROVE  Num(f, a, a + (k + 1), x) = Num(g, b, b + (k + 1), x)
    OBVIOUS
  <2>1. PICK c \in Int : c = a + k
    BY <1>0
  <2>2. PICK d \in Int : d = b + k
    BY <1>0
  <2>3. a <= c /\ b <= d /\ a + (k + 1) = c + 1 /\ b + (k + 1) = d + 1 /\ c < p
    BY <1>0, <2>1, <2>2
  <2>4. f[c] = g[d]
    BY <1>0, <2>1, <2>2, <2>3
  <2>5. Num(f, a, c, x) = Num(g, b, d, x)
    BY <1>0, <1>2, <2>1, <2>2, <2>3
  <2>6. Num(f, a, c + 1, x) = Num(f, a, c, x) + (IF f[c] <= x THEN 1 ELSE 0)
    BY <1>0, <2>3, NumNext
  <2>7. Num(g, b, d + 1, x) = Num(g, b, d, x) + (IF g[d] <= x THEN 1 ELSE 0)
    BY <1>0, <2>3, NumNext
  <2> QED  BY <2>3, <2>4, <2>5, <2>6, <2>7
<1> HIDE DEF G
<1>3. Nat \subseteq G
  BY <1>1, <1>2, NatInd
<1>4. PICK k \in Nat : k = p - a /\ a + k = p /\ b + k = q
  BY <1>0
<1>5. k \in G /\ a + k <= p
  BY <1>0, <1>3, <1>4
<1> QED  BY <1>4, <1>5 DEF G

\* If the small entries are the first k, they are k.
LEMMA NumFirst ==
  ASSUME NEW f, NEW x, NEW lo \in Int, NEW hi \in Int, NEW k \in Nat, lo + k <= hi,
         \A e \in lo..(hi - 1) : f[e] <= x <=> e - lo < k
  PROVE  Num(f, lo, hi, x) = k
<1> DEFINE S == {e \in lo..(hi - 1) : f[e] <= x}
<1>1. S = lo..(lo + k - 1)
  OBVIOUS
<1>2. Num(f, lo, hi, x) = Cardinality(S)
  BY DEF Num
<1>3. lo + k - 1 \in Int
  OBVIOUS
<1>4. Cardinality(lo..(lo + k - 1)) = IF lo > lo + k - 1 THEN 0 ELSE (lo + k - 1) - lo + 1
  BY <1>3, FS_Interval
<1> HIDE DEF S
<1> QED  BY <1>1, <1>2, <1>4

\* The entries of f from lo on and before hi do not decrease.
Rising(f, lo, hi) ==
  /\ \A e \in lo..(hi - 1) : f[e] \in Int
  /\ \A d \in lo..(hi - 1), e \in lo..(hi - 1) : d <= e => f[d] <= f[e]

\* The small entries of a sorted range come first.
LEMMA RisingFirst ==
  ASSUME NEW f, NEW x \in Int, NEW lo \in Int, NEW hi \in Int, lo <= hi, Rising(f, lo, hi)
  PROVE  \A e \in lo..(hi - 1) : f[e] <= x <=> e - lo < Num(f, lo, hi, x)
<1> DEFINE Upper == {n \in Nat : lo + n <= hi => \E k \in 0..n :
                        \A e \in lo..(lo + n - 1) : f[e] <= x <=> e - lo < k}
<1>1. 0 \in Upper
  <2>1. 0 \in 0..0 /\ \A e \in lo..(lo + 0 - 1) : f[e] <= x <=> e - lo < 0
    OBVIOUS
  <2> QED  BY <2>1
<1>2. ASSUME NEW n \in Nat, n \in Upper PROVE n + 1 \in Upper
  <2> SUFFICES ASSUME lo + (n + 1) <= hi
               PROVE  \E k \in 0..(n + 1) :
                        \A e \in lo..(lo + (n + 1) - 1) : f[e] <= x <=> e - lo < k
    OBVIOUS
  <2>1. PICK k \in 0..n : \A e \in lo..(lo + n - 1) : f[e] <= x <=> e - lo < k
    BY <1>2
  <2> HIDE DEF Upper
  <2>2. \A e \in lo..(lo + (n + 1) - 1) : e \in lo..(lo + n - 1) \/ e = lo + n
    OBVIOUS
  <2>3. lo + n \in lo..(hi - 1) /\ f[lo + n] \in Int
    BY DEF Rising
  <2>4. CASE f[lo + n] <= x
    <3>1. \A e \in lo..(lo + n) : f[e] \in Int /\ f[e] <= f[lo + n]
      BY <2>3 DEF Rising
    <3>2. \A e \in lo..(lo + n) : f[e] <= x
      BY <2>3, <2>4, <3>1
    <3>3. n + 1 \in 0..(n + 1) /\ \A e \in lo..(lo + (n + 1) - 1) : f[e] <= x <=> e - lo < n + 1
      BY <3>2
    <3> QED  BY <3>3
  <2>5. CASE ~(f[lo + n] <= x)
    <3>1. \A e \in lo..(lo + (n + 1) - 1) : f[e] <= x <=> e - lo < k
      BY <2>1, <2>2, <2>5
    <3> QED  BY <3>1
  <2> QED  BY <2>4, <2>5
<1> HIDE DEF Upper
<1>3. Nat \subseteq Upper
  BY <1>1, <1>2, NatInd
<1>4. PICK n \in Nat : n = hi - lo
  OBVIOUS
<1>5. PICK k \in 0..n : \A e \in lo..(hi - 1) : f[e] <= x <=> e - lo < k
  <2>1. n \in Upper /\ lo + n = hi
    BY <1>3, <1>4
  <2> QED  BY <2>1 DEF Upper
<1>6. Num(f, lo, hi, x) = k
  <2>1. k \in Nat /\ lo + k <= hi
    BY <1>4
  <2> QED  BY <1>5, <2>1, NumFirst
<1> QED  BY <1>5, <1>6

\* All entries are small.
LEMMA NumAll ==
  ASSUME NEW f, NEW x, NEW lo \in Int, NEW hi \in Int, lo <= hi,
         \A e \in lo..(hi - 1) : f[e] <= x
  PROVE  Num(f, lo, hi, x) = hi - lo
<1>1. hi - lo \in Nat /\ lo + (hi - lo) <= hi
  OBVIOUS
<1>2. \A e \in lo..(hi - 1) : f[e] <= x <=> e - lo < hi - lo
  OBVIOUS
<1> QED  BY <1>1, <1>2, NumFirst

\* No entry is small.
LEMMA NumZero ==
  ASSUME NEW f, NEW x, NEW lo \in Int, NEW hi \in Int, lo <= hi,
         \A e \in lo..(hi - 1) : ~(f[e] <= x)
  PROVE  Num(f, lo, hi, x) = 0
<1>1. 0 \in Nat /\ lo + 0 <= hi
  OBVIOUS
<1>2. \A e \in lo..(hi - 1) : f[e] <= x <=> e - lo < 0
  OBVIOUS
<1> QED  BY <1>1, <1>2, NumFirst

\* How many elements of a sequence are at most x.
Upto(s, x) == Num(s, 1, Len(s) + 1, x)

\* The small elements of two sequences, one after the other.
LEMMA UptoConcat ==
  ASSUME NEW S, NEW s \in Seq(S), NEW t \in Seq(S), NEW x
  PROVE  Upto(s \o t, x) = Upto(s, x) + Upto(t, x)
<1>1. PICK u \in Seq(S) : u = s \o t
  BY Concatenated
<1>2. PICK m \in Nat : m = Len(s)
  OBVIOUS
<1>3. PICK n \in Nat : n = Len(t)
  OBVIOUS
<1>4. Len(u) = m + n /\ (\A p \in 1..m : u[p] = s[p]) /\ \A p \in 1..n : u[m + p] = t[p]
  BY <1>1, <1>2, <1>3, Concatenated
<1>5. Num(u, 1, (m + n) + 1, x) = Num(u, 1, m + 1, x) + Num(u, m + 1, (m + n) + 1, x)
  <2>1. 1 <= m + 1 /\ m + 1 <= (m + n) + 1 /\ m + 1 \in Int /\ (m + n) + 1 \in Int
    OBVIOUS
  <2> QED  BY <2>1, NumJoin
<1>6. Num(u, 1, m + 1, x) = Num(s, 1, m + 1, x)
  <2>1. \A i \in Int, j \in Int : 1 <= i /\ i < m + 1 /\ i - 1 = j - 1 => u[i] = s[j]
    <3> SUFFICES ASSUME NEW i \in Int, 1 <= i, i < m + 1 PROVE u[i] = s[i]
      OBVIOUS
    <3> QED  BY <1>4
  <2>2. 1 <= m + 1 /\ (m + 1) - 1 = (m + 1) - 1
    OBVIOUS
  <2>3. Shifted(u, 1, m + 1, s, 1, m + 1)
    BY <2>1, <2>2 DEF Shifted
  <2> QED  BY <2>3, NumShift
<1>7. Num(u, m + 1, (m + n) + 1, x) = Num(t, 1, n + 1, x)
  <2>1. \A i \in Int, j \in Int :
           m + 1 <= i /\ i < (m + n) + 1 /\ i - (m + 1) = j - 1 => u[i] = t[j]
    <3> SUFFICES ASSUME NEW i \in Int, NEW j \in Int, m + 1 <= i, i < (m + n) + 1,
                        i - (m + 1) = j - 1
                 PROVE  u[i] = t[j]
      OBVIOUS
    <3>1. j \in 1..n /\ m + j = i
      OBVIOUS
    <3> QED  BY <1>4, <3>1
  <2>2. m + 1 <= (m + n) + 1 /\ ((m + n) + 1) - (m + 1) = (n + 1) - 1
    OBVIOUS
  <2>3. Shifted(u, m + 1, (m + n) + 1, t, 1, n + 1)
    BY <2>1, <2>2 DEF Shifted
  <2> QED  BY <2>3, NumShift
<1> QED  BY <1>1, <1>2, <1>3, <1>4, <1>5, <1>6, <1>7 DEF Upto

\* More elements are at most a greater bound.
LEMMA UptoGrows ==
  ASSUME NEW s \in Seq(Int), NEW x \in Int, NEW y \in Int, x <= y
  PROVE  Upto(s, x) \in 0..Len(s) /\ Upto(s, y) \in 0..Len(s) /\ Upto(s, x) <= Upto(s, y)
<1> DEFINE n == Len(s)
           T(z) == {e \in 1..((n + 1) - 1) : s[e] <= z}
<1>1. n \in Nat /\ 1 <= n + 1 /\ n + 1 \in Int /\ \A e \in 1..n : s[e] \in Int
  OBVIOUS
<1> HIDE DEF n
<1>2. ASSUME NEW z
      PROVE  /\ IsFiniteSet(T(z)) /\ Upto(s, z) = Cardinality(T(z))
             /\ Upto(s, z) \in Nat /\ Upto(s, z) <= (n + 1) - 1
  <2>1. Upto(s, z) = Num(s, 1, n + 1, z) /\ Num(s, 1, n + 1, z) = Cardinality(T(z))
    BY DEF Upto, n, Num
  <2>2. /\ IsFiniteSet({e \in 1..((n + 1) - 1) : s[e] <= z})
        /\ Num(s, 1, n + 1, z) \in Nat /\ Num(s, 1, n + 1, z) <= (n + 1) - 1
    <3>1. 1 \in Int /\ n + 1 \in Int /\ 1 <= n + 1
      BY <1>1
    <3> QED  BY <3>1, NumBound, Zenon
  <2> QED  BY <2>1, <2>2
<1>3. /\ IsFiniteSet(T(x)) /\ Upto(s, x) = Cardinality(T(x))
      /\ Upto(s, x) \in Nat /\ Upto(s, x) <= (n + 1) - 1
      /\ IsFiniteSet(T(y)) /\ Upto(s, y) = Cardinality(T(y))
      /\ Upto(s, y) \in Nat /\ Upto(s, y) <= (n + 1) - 1
  BY <1>2
<1>4. T(x) \in SUBSET T(y)
  BY <1>1
<1> HIDE DEF T
<1>5. Cardinality(T(x)) <= Cardinality(T(y))
  BY <1>3, <1>4, FS_Subset
<1> QED  BY <1>1, <1>3, <1>5 DEF n
=============================================================================
