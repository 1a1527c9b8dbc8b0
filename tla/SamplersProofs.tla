--------------------------- MODULE SamplersProofs ---------------------------
(***************************************************************************)
(* Proofs about module Samplers, for every dataset, number of ranks, batch size*)
(* and shuffle: what an order drawn by the samplers looks like, how the ranks'*)
(* shares number its places, and the invariant by which each rank is given the*)
(* batches of its share one by one, in step with the others.               *)
(***************************************************************************)
EXTENDS Samplers, SequenceFacts, FiniteSetTheorems

-----------------------------------------------------------------------------
(* What the shuffles keep *)

\* A shuffle holds what was there, at the places of a permutation.
LEMMA Shuffled ==
  ASSUME NEW S, NEW s \in Seq(S), NEW t \in Shuffles(s)
  PROVE  /\ t \in Seq(S) /\ Len(t) = Len(s)
         /\ \E p : Reorders(p, Len(s)) /\ \A i \in 1..Len(s) : t[i] = s[p[i]]
<1> DEFINE n == Len(s)
<1>1. DOMAIN s = 1..n /\ n \in Nat /\ s \in [1..n -> S]
  OBVIOUS
<1> HIDE DEF n
<1>2. PICK p \in Bijection(1..n, 1..n) : t = [i \in 1..n |-> s[p[i]]]
  BY <1>1 DEF Shuffles
<1>3. Reorders(p, n)
  BY DEF Reorders, Bijection, Injection, Surjection, IsInjective
<1>4. \A i \in 1..n : t[i] = s[p[i]] /\ s[p[i]] \in S
  BY <1>1, <1>2, <1>3 DEF Reorders
<1>5. t \in [1..n -> S]
  BY <1>2, <1>4
<1>6. t \in Seq(S) /\ Len(t) = n
  BY <1>1, <1>5
<1> QED  BY <1>3, <1>4, <1>6 DEF n

\* Shuffling the order of the parts leaves parts.
LEMMA ShuffledParts ==
  ASSUME NEW S, NEW ss, Parts(ss, S), NEW bs \in Shuffles(ss)
  PROVE  Parts(bs, S)
<1> DEFINE n == Len(ss)
<1>1. ss \in Seq(Seq(S))
  BY DEF Parts
<1>2. bs \in Seq(Seq(S)) /\ Len(bs) = n
  BY <1>1, Shuffled
<1>3. PICK p : Reorders(p, n) /\ \A i \in 1..n : bs[i] = ss[p[i]]
  BY <1>1, Shuffled
<1>4. ASSUME NEW x \in S
      PROVE  \E b \in 1..Len(bs) : \E j \in 1..Len(bs[b]) : bs[b][j] = x
  <2>1. PICK c, j : c \in 1..n /\ j \in 1..Len(ss[c]) /\ ss[c][j] = x
    BY DEF Parts
  <2>2. PICK b \in 1..n : p[b] = c
    BY <1>3, <2>1 DEF Reorders
  <2>3. b \in 1..Len(bs) /\ j \in 1..Len(bs[b]) /\ bs[b][j] = x
    BY <1>2, <1>3, <2>1, <2>2
  <2> QED  BY <2>3
<1>5. ASSUME NEW b \in 1..Len(bs), NEW c \in 1..Len(bs),
             NEW j \in 1..Len(bs[b]), NEW l \in 1..Len(bs[c]), bs[b][j] = bs[c][l]
      PROVE  b = c /\ j = l
  <2>1. b \in 1..n /\ c \in 1..n /\ p[b] \in 1..n /\ p[c] \in 1..n
    BY <1>2, <1>3 DEF Reorders
  <2>2. bs[b] = ss[p[b]] /\ bs[c] = ss[p[c]]
    BY <1>3, <2>1
  <2> DEFINE u == p[b]
             v == p[c]
  <2>3. u \in 1..Len(ss) /\ v \in 1..Len(ss)
    BY <2>1
  <2>4. j \in 1..Len(ss[u]) /\ l \in 1..Len(ss[v]) /\ ss[u][j] = ss[v][l]
    BY <1>5, <2>2
  <2> HIDE DEF u, v
  <2>5. u = v /\ j = l
    BY <2>3, <2>4, OnePlace
  <2> QED  BY <1>3, <2>1, <2>5 DEF Reorders, u, v
<1> QED  BY <1>2, <1>4, <1>5 DEF Parts

\* Shuffling within each part leaves parts.
LEMMA ShuffledWithin ==
  ASSUME NEW S, NEW ss, Parts(ss, S), NEW bs, bs \in [1..Len(ss) -> Seq(S)],
         \A b \in 1..Len(ss) : bs[b] \in Shuffles(ss[b])
  PROVE  Parts(bs, S)
<1> DEFINE n == Len(ss)
<1>1. n \in Nat /\ \A b \in 1..n : ss[b] \in Seq(S)
  BY DEF Parts
<1>2. bs \in Seq(Seq(S)) /\ Len(bs) = n
  BY <1>1
<1>3. ASSUME NEW b \in 1..n
      PROVE  /\ Len(bs[b]) = Len(ss[b])
             /\ \E p : Reorders(p, Len(ss[b])) /\ \A i \in 1..Len(ss[b]) : bs[b][i] = ss[b][p[i]]
  BY <1>1, Shuffled
<1>4. ASSUME NEW x \in S
      PROVE  \E b \in 1..Len(bs) : \E j \in 1..Len(bs[b]) : bs[b][j] = x
  <2>1. PICK b, k : b \in 1..n /\ k \in 1..Len(ss[b]) /\ ss[b][k] = x
    BY DEF Parts
  <2>2. PICK p : Reorders(p, Len(ss[b])) /\ \A i \in 1..Len(ss[b]) : bs[b][i] = ss[b][p[i]]
    BY <1>3, <2>1
  <2>3. PICK j \in 1..Len(ss[b]) : p[j] = k
    BY <2>1, <2>2 DEF Reorders
  <2>4. b \in 1..Len(bs) /\ j \in 1..Len(bs[b]) /\ bs[b][j] = x
    BY <1>2, <1>3, <2>1, <2>2, <2>3
  <2> QED  BY <2>4
<1>5. ASSUME NEW b \in 1..Len(bs), NEW c \in 1..Len(bs),
             NEW j \in 1..Len(bs[b]), NEW l \in 1..Len(bs[c]), bs[b][j] = bs[c][l]
      PROVE  b = c /\ j = l
  <2>1. b \in 1..n /\ c \in 1..n /\ j \in 1..Len(ss[b]) /\ l \in 1..Len(ss[c])
    BY <1>2, <1>3
  <2>2. PICK p : Reorders(p, Len(ss[b])) /\ \A i \in 1..Len(ss[b]) : bs[b][i] = ss[b][p[i]]
    BY <1>3, <2>1
  <2>3. PICK q : Reorders(q, Len(ss[c])) /\ \A i \in 1..Len(ss[c]) : bs[c][i] = ss[c][q[i]]
    BY <1>3, <2>1
  <2>4. p[j] \in 1..Len(ss[b]) /\ q[l] \in 1..Len(ss[c]) /\ ss[b][p[j]] = ss[c][q[l]]
    BY <1>5, <2>1, <2>2, <2>3 DEF Reorders
  <2> DEFINE u == p[j]
             v == q[l]
  <2>9. u \in 1..Len(ss[b]) /\ v \in 1..Len(ss[c]) /\ ss[b][u] = ss[c][v]
    BY <2>4
  <2>5. b = c /\ p[j] = q[l]
    <3> HIDE DEF u, v
    <3>1. b = c /\ u = v
      BY <2>1, <2>9, OnePlace
    <3> QED  BY <3>1 DEF u, v
  <2>6. \A i \in 1..Len(ss[b]) : ss[b][p[i]] = ss[b][q[i]]
    BY <2>2, <2>3, <2>5
  <2>7. ss[b][p[l]] = ss[b][q[l]] /\ p[l] \in 1..Len(ss[b])
    BY <2>1, <2>2, <2>5, <2>6 DEF Reorders
  <2>8. p[l] = q[l]
    BY <2>1, <2>4, <2>5, <2>7, OnePlace
  <2> QED  BY <2>1, <2>2, <2>5, <2>8 DEF Reorders
<1> QED  BY <1>2, <1>4, <1>5 DEF Parts

\* What the assumption says of the training that is run.
LEMMA TrainingFacts ==
  ASSUME training \in Trainings
  PROVE  /\ Buckets \in Seq(Seq(Nat)) /\ R \in Nat \ {0} /\ Len(Buckets) \in Nat \ {0}
         /\ training.batch_size \in Nat \ {0}
         /\ training.shuffle \in BOOLEAN /\ training.drop_last \in BOOLEAN
         /\ training.tells \in BOOLEAN /\ training.sampler \in SamplerKinds
         /\ Epochs \in Nat \ {0}
         /\ Numbered(Buckets)
<1>1. training \in Training /\ Buckets # <<>> /\ Numbered(Buckets) /\ Epochs \in Nat \ {0}
  BY SamplersAssumption DEF Buckets
<1>2. Buckets \in Seq(Seq(Nat))
  BY <1>1 DEF Training, Buckets
<1>3. Len(Buckets) \in Nat \ {0}
  BY <1>1, <1>2
<1> QED  BY <1>1, <1>2, <1>3 DEF Training, R, Buckets

\* The dataset's order lists every sample, and its buckets hold every sample.
LEMMA BucketsPart ==
  ASSUME training \in Trainings
  PROVE  /\ Size \in Nat /\ Parts(Buckets, Samples) /\ Lists(InOrder, Samples)
<1>1. Buckets \in Seq(Seq(Nat)) /\ InOrder = [i \in 1..Size |-> i - 1]
  BY TrainingFacts DEF Numbered, InOrder, Size
<1>2. InOrder \in Seq(Nat)
  BY <1>1, FlattenPlaces DEF InOrder
<1>3. Size \in Nat
  BY <1>2 DEF Size
<1>4. \A i \in 1..Size : InOrder[i] = i - 1 /\ i - 1 \in Samples
  BY <1>1, <1>3 DEF Samples
<1>5. Lists(InOrder, Samples)
  <2>1. InOrder \in [1..Size -> Samples]
    BY <1>1, <1>4
  <2>2. InOrder \in Seq(Samples)
    BY <1>3, <2>1
  <2>3. \A x \in Samples : x + 1 \in 1..Size /\ (x + 1) - 1 = x
    BY <1>3 DEF Samples
  <2>4. \A x \in Samples : InOrder[x + 1] = x
    BY <1>4, <2>3
  <2>5. \A p \in 1..Size, q \in 1..Size : InOrder[p] = InOrder[q] => p = q
    BY <1>4
  <2> QED  BY <2>2, <2>3, <2>4, <2>5 DEF Lists, Size
<1>6. Buckets \in Seq(Seq(Samples))
  <2>1. PICK start : Laid(InOrder, start, Buckets)
    BY <1>1, FlattenPlaces DEF InOrder
  <2>2. ASSUME NEW b \in 1..Len(Buckets) PROVE Buckets[b] \in Seq(Samples)
    <3>1. Buckets[b] \in Seq(Nat)
      BY <1>1
    <3>2. ASSUME NEW j \in 1..Len(Buckets[b]) PROVE Buckets[b][j] \in Samples
      <4>1. start[b - 1] + j \in 1..Size /\ InOrder[start[b - 1] + j] = Buckets[b][j]
        BY <2>1 DEF Laid, Size
      <4> DEFINE p == start[b - 1] + j
      <4> HIDE DEF p
      <4>2. p \in 1..Size /\ InOrder[p] = Buckets[b][j]
        BY <4>1 DEF p
      <4> QED  BY <1>4, <4>2
    <3> QED  BY <3>1, <3>2
  <2> QED  BY <1>1, <2>2
<1>7. Parts(Buckets, Samples)
  BY <1>5, <1>6, ListedParts DEF InOrder
<1> QED  BY <1>3, <1>5, <1>7

\* The buckets in some order, with the same samples in each.
Regrouped(bs) ==
  /\ Parts(bs, Samples) /\ Len(bs) = Len(Buckets)
  /\ \A b \in 1..Len(bs) : \E c \in 1..Len(Buckets) :
       /\ Len(bs[b]) = Len(Buckets[c])
       /\ \A j \in 1..Len(bs[b]) : \E l \in 1..Len(Buckets[c]) : bs[b][j] = Buckets[c][l]

\* The buckets themselves.
LEMMA BucketsRegrouped ==
  ASSUME training \in Trainings PROVE Regrouped(Buckets)
BY BucketsPart DEF Regrouped

\* What the samplers' two shuffles make of the buckets (dynamic_sampler.py: the
\* samples within each bucket, then the order of the buckets).
LEMMA ShufflesRegrouped ==
  ASSUME training \in Trainings, NEW f \in ShuffledBuckets
  PROVE  Regrouped(f)
<1> DEFINE n == Len(Buckets)
<1>0. Parts(Buckets, Samples)
  BY BucketsPart
<1>1. Buckets \in Seq(Seq(Samples)) /\ Parts(Buckets, Samples) /\ n \in Nat
  <2>1. Buckets \in Seq(Seq(Samples))
    BY <1>0, Zenon DEF Parts
  <2> QED  BY <1>0, <2>1
<1>2. PICK bs \in Shuffles(Buckets) :
         /\ f \in [DOMAIN bs -> UNION {Shuffles(Buckets[i]) : i \in DOMAIN Buckets}]
         /\ \A b \in DOMAIN bs : f[b] \in Shuffles(bs[b])
  BY DEF ShuffledBuckets
<1>3. bs \in Seq(Seq(Samples)) /\ Len(bs) = n /\ Parts(bs, Samples)
  BY <1>1, Shuffled, ShuffledParts
<1>4. DOMAIN bs = 1..n
  BY <1>1, <1>3
<1>5. PICK p : Reorders(p, n) /\ \A i \in 1..n : bs[i] = Buckets[p[i]]
  BY <1>1, Shuffled
<1>6. ASSUME NEW b \in 1..n
      PROVE  /\ f[b] \in Seq(Samples) /\ Len(f[b]) = Len(bs[b]) /\ bs[b] \in Seq(Samples)
             /\ \E q : Reorders(q, Len(bs[b])) /\ \A i \in 1..Len(bs[b]) : f[b][i] = bs[b][q[i]]
  <2>1. bs[b] \in Seq(Samples)
    BY <1>3
  <2> QED  BY <2>1, <1>2, <1>4, Shuffled
<1>7. f \in [1..n -> Seq(Samples)]
  BY <1>2, <1>4, <1>6
<1>8. Parts(f, Samples)
  BY <1>2, <1>3, <1>4, <1>7, ShuffledWithin
<1>9. f \in Seq(Seq(Samples)) /\ Len(f) = n
  BY <1>1, <1>7
<1>10. ASSUME NEW b \in 1..n
       PROVE  \E c \in 1..n :
                /\ Len(f[b]) = Len(Buckets[c])
                /\ \A j \in 1..Len(f[b]) : \E l \in 1..Len(Buckets[c]) : f[b][j] = Buckets[c][l]
  <2>1. PICK q : Reorders(q, Len(bs[b])) /\ \A i \in 1..Len(bs[b]) : f[b][i] = bs[b][q[i]]
    BY <1>6
  <2>2. p[b] \in 1..n /\ bs[b] = Buckets[p[b]]
    BY <1>5 DEF Reorders
  <2>3. Len(f[b]) = Len(bs[b])
    BY <1>6
  <2>4. \A j \in 1..Len(bs[b]) : q[j] \in 1..Len(bs[b]) /\ f[b][j] = bs[b][q[j]]
    BY <2>1 DEF Reorders
  <2> QED  BY <2>2, <2>3, <2>4
<1> QED  BY <1>8, <1>9, <1>10 DEF Regrouped

-----------------------------------------------------------------------------
(* Dealing the buckets *)

\* row holds the r-th sample of every bucket of bs that has one; at[b] is the
\* place of the one of bucket b.
Row(row, at, bs, r) ==
  /\ row \in Seq(Samples)
  /\ \A b \in 1..Len(bs) : r <= Len(bs[b]) => at[b] \in 1..Len(row) /\ row[at[b]] = bs[b][r]
  /\ \A p \in 1..Len(row) : \E b \in 1..Len(bs) :
       r <= Len(bs[b]) /\ p = at[b] /\ row[p] = bs[b][r]
  /\ (\A b \in 1..Len(bs) : r <= Len(bs[b])) =>
       Len(row) = Len(bs) /\ \A b \in 1..Len(bs) : at[b] = b

\* The rows of Dealt are made with FoldSeq over the buckets; the places of a row
\* are found bucket by bucket.
LEMMA DealtRow ==
  ASSUME NEW bs \in Seq(Seq(Samples)), R \in Nat \ {0}, NEW r \in 1..R
  PROVE  \E at : Row(Dealt(bs)[r], at, bs, r)
<1> DEFINE n == Len(bs)
           ones == [b \in 1..n |-> IF r <= Len(bs[b]) THEN <<bs[b][r]>> ELSE <<>>]
           row == FlattenSeq(ones)
<1>1. n \in Nat /\ DOMAIN bs = 1..n /\ \A b \in 1..n : bs[b] \in Seq(Samples)
  OBVIOUS
<1>2. Dealt(bs)[r] = row
  BY <1>1 DEF Dealt
<1>3. ASSUME NEW b \in 1..n
      PROVE  /\ ones[b] \in Seq(Samples) /\ Len(bs[b]) \in Nat
             /\ Len(ones[b]) = IF r <= Len(bs[b]) THEN 1 ELSE 0
             /\ r <= Len(bs[b]) => ones[b][1] = bs[b][r]
  <2>1. bs[b] \in Seq(Samples) /\ Len(bs[b]) \in Nat
    BY <1>1
  <2>2. CASE r <= Len(bs[b])
    <3>1. bs[b][r] \in Samples
      BY <2>1, <2>2
    <3>2. ones[b] = <<bs[b][r]>>
      BY <2>2
    <3> HIDE DEF ones
    <3> QED  BY <2>1, <2>2, <3>1, <3>2
  <2>3. CASE ~(r <= Len(bs[b]))
    <3>1. ones[b] = <<>>
      BY <2>3
    <3> HIDE DEF ones
    <3> QED  BY <2>1, <2>3, <3>1
  <2> QED  BY <2>2, <2>3
<1>4. ones \in Seq(Seq(Samples)) /\ Len(ones) = n
  <2>1. ones \in [1..n -> Seq(Samples)]
    BY <1>3
  <2> HIDE DEF ones
  <2> QED  BY <1>1, <2>1
<1> HIDE DEF ones
<1>5. row \in Seq(Samples) /\ \E start : Laid(row, start, ones)
  BY <1>4, FlattenPlaces
<1>6. PICK start : Laid(row, start, ones)
  BY <1>5
<1> HIDE DEF row
<1>7. Starts(start, ones) /\ Len(row) = start[n]
  BY <1>4, <1>6 DEF Laid
<1>8. start[0] = 0 /\ \A b \in 1..n : start[b] = start[b - 1] + Len(ones[b]) /\ start[b - 1] \in Nat
  <2>1. \A b \in 1..n : b - 1 \in 0..n
    BY <1>1
  <2> QED  BY <2>1, <1>4, <1>7 DEF Starts
<1> DEFINE at == [b \in 1..n |-> start[b - 1] + 1]
<1>9. ASSUME NEW b \in 1..n, r <= Len(bs[b])
      PROVE  at[b] \in 1..Len(row) /\ row[at[b]] = bs[b][r]
  <2>1. 1 \in 1..Len(ones[b]) /\ ones[b][1] = bs[b][r]
    <3>1. Len(ones[b]) = 1 /\ ones[b][1] = bs[b][r]
      BY <1>3, <1>9, Zenon
    <3> QED  BY <3>1
  <2>2. start[b - 1] + 1 \in 1..Len(row) /\ row[start[b - 1] + 1] = ones[b][1]
    BY <1>4, <1>6, <2>1 DEF Laid
  <2> QED  BY <2>1, <2>2
<1>10. ASSUME NEW p \in 1..Len(row)
       PROVE  \E b \in 1..n : r <= Len(bs[b]) /\ p = at[b] /\ row[p] = bs[b][r]
  <2>1. p \in 1..start[Len(ones)]
    BY <1>4, <1>7
  <2>2. PICK b \in 1..n : \E j \in 1..Len(ones[b]) : p = start[b - 1] + j
    <3>1. \E b \in 1..Len(ones) : \E j \in 1..Len(ones[b]) : p = start[b - 1] + j
      <4>1. ones \in Seq(Seq(Samples)) /\ Starts(start, ones)
        BY <1>4, <1>7
      <4> QED  BY <4>1, <2>1, PlacesReached
    <3> QED  BY <1>4, <3>1
  <2>3. PICK j \in 1..Len(ones[b]) : p = start[b - 1] + j
    BY <2>2
  <2>4. r <= Len(bs[b]) /\ j = 1
    <3>1. Len(ones[b]) = IF r <= Len(bs[b]) THEN 1 ELSE 0
      BY <1>3
    <3> QED  BY <3>1
  <2>5. p = at[b]
    BY <2>3, <2>4
  <2> QED  BY <1>9, <2>4, <2>5
<1>11. ASSUME \A b \in 1..n : r <= Len(bs[b])
       PROVE  Len(row) = n /\ \A b \in 1..n : at[b] = b
  <2>1. \A b \in 1..n : Len(ones[b]) = 1
    BY <1>3, <1>11
  <2> DEFINE Good == {k \in Nat : k <= n => start[k] = k}
  <2>2. 0 \in Good
    BY <1>8
  <2>3. ASSUME NEW k \in Nat, k \in Good PROVE k + 1 \in Good
    <3> SUFFICES ASSUME k + 1 <= n PROVE start[k + 1] = k + 1
      OBVIOUS
    <3> DEFINE m == k + 1
    <3>1. m \in 1..n /\ m - 1 = k /\ start[k] = k
      BY <1>1, <2>3
    <3> HIDE DEF m
    <3>2. start[m] = start[m - 1] + 1
      BY <1>8, <2>1, <3>1
    <3> QED  BY <3>1, <3>2 DEF m
  <2>4. Nat \subseteq Good
    <3> HIDE DEF Good
    <3> QED  BY <2>2, <2>3, NatInd
  <2>5. \A k \in 0..n : start[k] = k
    BY <2>4, <1>1
  <2>6. \A b \in 1..n : b - 1 \in 0..n
    BY <1>1
  <2> QED  BY <2>5, <2>6, <1>1, <1>7
<1> HIDE DEF at
<1>12. Row(row, at, bs, r)
  BY <1>5, <1>9, <1>10, <1>11 DEF Row, row
<1> QED  BY <1>2, <1>12

\* Dealing loses no sample as long as no bucket has more than R of them.
LEMMA DealtParts ==
  ASSUME NEW bs, Parts(bs, Samples), R \in Nat \ {0}, \A b \in 1..Len(bs) : Len(bs[b]) <= R
  PROVE  Parts(Dealt(bs), Samples) /\ Len(Dealt(bs)) = R
<1> DEFINE d == Dealt(bs)
<1>1. bs \in Seq(Seq(Samples)) /\ Len(bs) \in Nat
  BY DEF Parts
<1>2. \A r \in 1..R : \E at : Row(d[r], at, bs, r)
  BY <1>1, DealtRow
<1>3. d \in Seq(Seq(Samples)) /\ Len(d) = R
  <2>1. \A r \in 1..R : d[r] \in Seq(Samples)
    BY <1>2 DEF Row
  <2>2. DOMAIN d = 1..R /\ d = [r \in DOMAIN d |-> d[r]]
    BY DEF Dealt
  <2> HIDE DEF d
  <2>3. d \in [1..R -> Seq(Samples)]
    BY <2>1, <2>2
  <2> QED  BY <2>3
<1> HIDE DEF d
<1>4. ASSUME NEW x \in Samples
      PROVE  \E r \in 1..Len(d) : \E p \in 1..Len(d[r]) : d[r][p] = x
  <2>1. PICK b \in 1..Len(bs) : \E r \in 1..Len(bs[b]) : bs[b][r] = x
    BY DEF Parts
  <2>2. PICK r \in 1..Len(bs[b]) : bs[b][r] = x
    BY <2>1
  <2>3. r \in 1..R /\ r <= Len(bs[b])
    <3>1. Len(bs[b]) <= R /\ Len(bs[b]) \in Nat
      BY <1>1
    <3> QED  BY <3>1
  <2>4. PICK at : Row(d[r], at, bs, r)
    BY <1>2, <2>3
  <2>5. at[b] \in 1..Len(d[r]) /\ d[r][at[b]] = x
    BY <2>2, <2>3, <2>4 DEF Row
  <2> QED  BY <1>3, <2>3, <2>5
<1>5. ASSUME NEW r \in 1..Len(d), NEW q \in 1..Len(d),
             NEW i \in 1..Len(d[r]), NEW k \in 1..Len(d[q]), d[r][i] = d[q][k]
      PROVE  r = q /\ i = k
  <2>1. r \in 1..R /\ q \in 1..R
    BY <1>3
  <2>2. PICK at : Row(d[r], at, bs, r)
    BY <1>2, <2>1
  <2>3. PICK at2 : Row(d[q], at2, bs, q)
    BY <1>2, <2>1
  <2>4. PICK b \in 1..Len(bs) : r <= Len(bs[b]) /\ i = at[b] /\ d[r][i] = bs[b][r]
    BY <2>2 DEF Row
  <2>5. PICK c \in 1..Len(bs) : q <= Len(bs[c]) /\ k = at2[c] /\ d[q][k] = bs[c][q]
    BY <2>3 DEF Row
  <2>6. r \in 1..Len(bs[b]) /\ q \in 1..Len(bs[c]) /\ bs[b][r] = bs[c][q]
    <3>1. Len(bs[b]) \in Nat /\ Len(bs[c]) \in Nat
      BY <1>1
    <3> QED  BY <1>5, <2>1, <2>4, <2>5, <3>1
  <2>7. b = c /\ r = q
    <3>1. r \in 1..Len(bs[b])
      BY <2>6
    <3>2. q \in 1..Len(bs[c])
      BY <2>6
    <3>3. bs[b][r] = bs[c][q]
      BY <2>6
    <3>4. b = c
      BY <3>1, <3>2, <3>3, OnePlace
    <3>5. r = q
      BY <3>1, <3>2, <3>3, OnePlace
    <3> QED  BY <3>4, <3>5
  <2>8. PICK e \in 1..Len(bs) : r <= Len(bs[e]) /\ k = at[e] /\ d[r][k] = bs[e][r]
    BY <2>2, <2>7 DEF Row
  <2>9. r \in 1..Len(bs[e]) /\ bs[e][r] = bs[b][r]
    <3>1. Len(bs[e]) \in Nat
      BY <1>1
    <3> QED  BY <1>5, <2>1, <2>4, <2>7, <2>8, <3>1
  <2>10. e = b
    BY <2>6, <2>9, OnePlace
  <2> QED  BY <2>4, <2>7, <2>8, <2>10
<1>6. Parts(d, Samples)
  BY <1>3, <1>4, <1>5 DEF Parts
<1> QED  BY <1>3, <1>6 DEF d

-----------------------------------------------------------------------------
(* The ranks' shares *)

\* A rank's share and the whole, whether the last samples are dropped or the
\* first are taken twice.
LEMMA Counts ==
  ASSUME Size \in Nat, R \in Nat \ {0}
  PROVE  /\ NumSamples \in Nat /\ TotalSize \in Nat /\ TotalSize = NumSamples * R
         /\ DropsLast => TotalSize <= Size /\ Size < TotalSize + R
         /\ ~DropsLast => Size <= TotalSize /\ TotalSize < Size + R
         /\ R <= TotalSize \/ NumSamples = 0
<1> DEFINE q == Size \div R
           m == Size % R
           z == Size + R - 1
           u == z \div R
           v == z % R
<1>1. q \in Nat /\ m \in 0..(R - 1) /\ Size = R * q + m
  BY Division
<1>3. NumSamples = IF DropsLast THEN q ELSE u
  BY DEF NumSamples
<1>6. z \in Nat /\ z = Size + R - 1
  OBVIOUS
<1> HIDE DEF z
<1>2. u \in Nat /\ v \in 0..(R - 1) /\ z = R * u + v
  BY <1>6, Division
<1> HIDE DEF q, m, u, v
<1>4. \A x \in Nat : x * R \in Nat /\ R * x = x * R /\ (x # 0 => R <= x * R)
  OBVIOUS
<1>5. NumSamples \in Nat /\ TotalSize = NumSamples * R
  BY <1>1, <1>2, <1>3 DEF TotalSize
<1> QED  BY <1>1, <1>2, <1>3, <1>4, <1>5, <1>6

\* An order is as long as the dataset.
LEMMA ListLength ==
  ASSUME NEW s, Size \in Nat, Lists(s, Samples)
  PROVE  Len(s) = Size /\ Len(s) \in Nat
<1>1. s \in Seq(Samples) /\ Len(s) \in Nat
  BY DEF Lists
<1>2. s \in [1..Len(s) -> Samples]
  BY <1>1
<1>3. s \in Bijection(1..Len(s), Samples)
  <2>1. s \in Injection(1..Len(s), Samples)
    BY <1>2 DEF Lists, Injection, IsInjective
  <2>2. s \in Surjection(1..Len(s), Samples)
    BY <1>2 DEF Lists, Surjection
  <2> QED  BY <2>1, <2>2 DEF Bijection
<1>4. IsFiniteSet(1..Len(s)) /\ Cardinality(1..Len(s)) = Len(s)
  BY <1>1, FS_Interval
<1>5. Cardinality(Samples) = Size
  BY FS_Interval DEF Samples
<1>6. Cardinality(Samples) = Cardinality(1..Len(s))
  BY <1>3, <1>4, FS_Bijection DEF ExistsBijection
<1> QED  BY <1>1, <1>4, <1>5, <1>6

\* A sequence that goes round once it is used up.
LEMMA EvenFacts ==
  ASSUME NEW s, NEW n \in Nat, s \in Seq(Samples), Len(s) = n, TotalSize \in Nat
  PROVE  /\ Even(s) \in Seq(Samples)
         /\ Len(Even(s)) = IF TotalSize <= 2 * n THEN TotalSize ELSE 2 * n
         /\ \A p \in 1..Len(Even(s)) : Even(s)[p] = IF p <= n THEN s[p] ELSE s[p - n]
<1> DEFINE a == IF TotalSize <= n THEN TotalSize ELSE n
           b == IF TotalSize - n <= n THEN TotalSize - n ELSE n
           head == SubSeq(s, 1, a)
           tail == SubSeq(s, 1, b)
<1>1. Even(s) = head \o tail
  <2>1. Min({TotalSize, Len(s)}) = a
    BY MinPair
  <2>2. TotalSize - Len(s) \in Int /\ Len(s) \in Int
    OBVIOUS
  <2>3. Min({TotalSize - Len(s), Len(s)}) = b
    BY <2>2, MinPair
  <2> HIDE DEF a, b
  <2> QED  BY <2>1, <2>3 DEF Even
<1>2. a \in 0..n /\ b \in Int /\ b <= n
  OBVIOUS
<1>3. head \in Seq(Samples) /\ Len(head) = a /\ \A p \in 1..a : head[p] = s[p]
  <2> HIDE DEF a
  <2> QED  BY <1>2
<1>4. /\ tail \in Seq(Samples) /\ Len(tail) = IF 0 <= b THEN b ELSE 0
      /\ \A p \in 1..b : tail[p] = s[p]
  <2> HIDE DEF b
  <2> QED  BY <1>2
<1> HIDE DEF head, tail
<1>5. /\ Even(s) \in Seq(Samples) /\ Len(Even(s)) = Len(head) + Len(tail)
      /\ \A p \in 1..Len(head) : Even(s)[p] = head[p]
      /\ \A p \in 1..Len(tail) : Even(s)[Len(head) + p] = tail[p]
  <2>1. head \in Seq(Samples) /\ tail \in Seq(Samples)
    BY <1>3, <1>4
  <2> DEFINE e == head \o tail
  <2>2. /\ e \in Seq(Samples) /\ Len(e) = Len(head) + Len(tail)
        /\ \A p \in 1..Len(head) : e[p] = head[p]
        /\ \A p \in 1..Len(tail) : e[Len(head) + p] = tail[p]
    BY <2>1, Concatenated
  <2>3. Even(s) = e
    BY <1>1
  <2> HIDE DEF e
  <2> QED  BY <2>2, <2>3
<1>6. Len(Even(s)) = IF TotalSize <= 2 * n THEN TotalSize ELSE 2 * n
  BY <1>3, <1>4, <1>5
<1>7. ASSUME NEW p \in 1..Len(Even(s))
      PROVE  Even(s)[p] = IF p <= n THEN s[p] ELSE s[p - n]
  <2>1. CASE p <= n
    <3>1. p \in 1..a /\ p \in 1..Len(head)
      BY <1>3, <1>6, <2>1
    <3> QED  BY <1>3, <1>5, <2>1, <3>1
  <2>2. CASE n < p
    <3> DEFINE q == p - n
    <3>1. a = n /\ q \in 1..b /\ Len(tail) = b /\ Len(head) + q = p
      BY <1>3, <1>4, <1>6, <2>2
    <3> HIDE DEF a, b, q
    <3>2. Even(s)[Len(head) + q] = tail[q] /\ tail[q] = s[q]
      BY <1>4, <1>5, <3>1
    <3> QED  BY <3>1, <3>2, <2>2 DEF q
  <2> QED  BY <2>1, <2>2
<1> QED  BY <1>5, <1>6, <1>7

\* The place in the whole of the k-th sample of rank r.
Place(r, k) == IF training.sampler = "AgentDynamicBatchSampler"
               THEN (k - 1) * R + (r + 1) ELSE r * NumSamples + k

\* The ranks' shares take each place of the whole once.
LEMMA Places ==
  ASSUME NumSamples \in Nat, R \in Nat \ {0}
  PROVE  /\ \A r \in Ranks, k \in 1..NumSamples : Place(r, k) \in 1..TotalSize
         /\ \A r \in Ranks, k \in 1..NumSamples, q \in Ranks, l \in 1..NumSamples :
              Place(r, k) = Place(q, l) => r = q /\ k = l
         /\ \A p \in 1..TotalSize : \E r \in Ranks : \E k \in 1..NumSamples : p = Place(r, k)
<1>1. CASE training.sampler = "AgentDynamicBatchSampler"
  <2>1. \A r \in Ranks, k \in 1..NumSamples :
          /\ r + 1 \in 1..R /\ k - 1 \in 0..(NumSamples - 1)
          /\ Place(r, k) = (k - 1) * R + (r + 1)
    BY <1>1 DEF Place, Ranks
  <2>2. \A i \in 0..(NumSamples - 1), j \in 1..R :
          j - 1 \in Ranks /\ i + 1 \in 1..NumSamples /\ Place(j - 1, i + 1) = i * R + j
    BY <1>1 DEF Place, Ranks
  <2>3. ASSUME NEW r \in Ranks, NEW k \in 1..NumSamples PROVE Place(r, k) \in 1..TotalSize
    <3> DEFINE i == k - 1
               j == r + 1
    <3>1. i \in 0..(NumSamples - 1) /\ j \in 1..R /\ Place(r, k) = i * R + j
      BY <2>1
    <3> HIDE DEF i, j
    <3> QED  BY <3>1, CellInside DEF TotalSize
  <2>4. ASSUME NEW r \in Ranks, NEW k \in 1..NumSamples, NEW q \in Ranks, NEW l \in 1..NumSamples,
               Place(r, k) = Place(q, l)
        PROVE  r = q /\ k = l
    <3> DEFINE i == k - 1
               j == r + 1
               x == l - 1
               y == q + 1
    <3>1. /\ i \in 0..(NumSamples - 1) /\ j \in 1..R /\ Place(r, k) = i * R + j
          /\ x \in 0..(NumSamples - 1) /\ y \in 1..R /\ Place(q, l) = x * R + y
      BY <2>1
    <3>2. (i = x => k = l) /\ (j = y => r = q)
      BY DEF Ranks
    <3> HIDE DEF i, j, x, y
    <3>3. i * R + j = x * R + y
      BY <2>4, <3>1
    <3>4. i = x /\ j = y
      BY <3>1, <3>3, CellOnce
    <3> QED  BY <3>2, <3>4
  <2>5. ASSUME NEW p \in 1..TotalSize
        PROVE  \E r \in Ranks : \E k \in 1..NumSamples : p = Place(r, k)
    <3>1. PICK i \in 0..(NumSamples - 1) : \E j \in 1..R : p = i * R + j
      <4>1. TotalSize = NumSamples * R /\ R \in Nat
        BY DEF TotalSize
      <4>2. HasCell(p, NumSamples, R)
        BY <4>1, CellFor
      <4> QED  BY <4>2 DEF HasCell
    <3>2. PICK j \in 1..R : p = i * R + j
      BY <3>1
    <3> QED  BY <2>2, <3>2
  <2> QED  BY <2>3, <2>4, <2>5
<1>2. CASE training.sampler # "AgentDynamicBatchSampler"
  <2>1. TotalSize = R * NumSamples /\ Ranks = 0..(R - 1)
    BY DEF TotalSize, Ranks
  <2>2. \A r \in Ranks, k \in 1..NumSamples : Place(r, k) = r * NumSamples + k
    BY <1>2 DEF Place
  <2>3. ASSUME NEW r \in Ranks, NEW k \in 1..NumSamples PROVE Place(r, k) \in 1..TotalSize
    BY <2>1, <2>2, CellInside
  <2>4. ASSUME NEW r \in Ranks, NEW k \in 1..NumSamples, NEW q \in Ranks, NEW l \in 1..NumSamples,
               Place(r, k) = Place(q, l)
        PROVE  r = q /\ k = l
    <3>1. r * NumSamples + k = q * NumSamples + l
      BY <2>2, <2>4
    <3> QED  BY <2>1, <3>1, CellOnce
  <2>5. ASSUME NEW p \in 1..TotalSize
        PROVE  \E r \in Ranks : \E k \in 1..NumSamples : p = Place(r, k)
    <3>1. PICK r \in Ranks : \E k \in 1..NumSamples : p = r * NumSamples + k
      <4>1. TotalSize = R * NumSamples /\ R \in Nat
        BY <2>1
      <4>2. \E r \in 0..(R - 1) : \E k \in 1..NumSamples : p = r * NumSamples + k
        <5>1. HasCell(p, R, NumSamples)
          BY <4>1, CellFor
        <5> QED  BY <5>1 DEF HasCell
      <4> QED  BY <4>2, <2>1, Zenon
    <3> QED  BY <2>2, <3>1
  <2> QED  BY <2>3, <2>4, <2>5
<1> QED  BY <1>1, <1>2

\* What a rank takes of a whole that has the size it should have.
LEMMA ShareFacts ==
  ASSUME NumSamples \in Nat, R \in Nat \ {0}, NEW s \in Seq(Samples), Len(s) = TotalSize,
         NEW r \in Ranks
  PROVE  /\ Share(s, r) \in Seq(Samples) /\ Len(Share(s, r)) = NumSamples
         /\ \A k \in 1..NumSamples : Share(s, r)[k] = s[Place(r, k)]
<1>1. r \in 0..(R - 1) /\ TotalSize \in Nat /\ TotalSize = NumSamples * R
  BY DEF Ranks, TotalSize
<1>2. \A k \in 1..NumSamples : Place(r, k) \in 1..TotalSize
  BY Places
<1>3. CASE training.sampler = "AgentDynamicBatchSampler"
  <2>1. (Len(s) - r + R - 1) \div R = NumSamples
    <3> DEFINE m == R - 1 - r
    <3>1. m \in 0..(R - 1)
      BY <1>1
    <3>2. Len(s) - r + R - 1 = NumSamples * R + m
      BY <1>1
    <3> HIDE DEF m
    <3>3. (NumSamples * R + m) \div R = NumSamples
      BY <3>1, Rounded
    <3> QED  BY <3>2, <3>3
  <2>2. Share(s, r) = [i \in 1..NumSamples |-> s[r + 1 + (i - 1) * R]]
    BY <1>3, <2>1 DEF Share
  <2>3. \A k \in 1..NumSamples : r + 1 + (k - 1) * R = Place(r, k)
    BY <1>1, <1>3 DEF Place
  <2>4. \A k \in 1..NumSamples : s[r + 1 + (k - 1) * R] = s[Place(r, k)] /\ s[Place(r, k)] \in Samples
    BY <1>2, <2>3
  <2>5. Share(s, r) \in [1..NumSamples -> Samples]
    BY <2>2, <2>4
  <2>6. \A k \in 1..NumSamples : Share(s, r)[k] = s[Place(r, k)]
    BY <2>2, <2>4
  <2> QED  BY <2>5, <2>6
<1>4. CASE training.sampler # "AgentDynamicBatchSampler"
  <2> DEFINE a == r * NumSamples
             c == (r + 1) * NumSamples
  <2>1. c <= TotalSize /\ a \in Nat /\ c = a + NumSamples /\ c \in Nat
    <3>1. r + 1 <= R /\ r + 1 \in Nat /\ r \in Nat
      BY <1>1
    <3>2. (r + 1) * NumSamples <= R * NumSamples /\ r * NumSamples \in Nat
      BY <3>1, TimesGrows
    <3>3. R * NumSamples = NumSamples * R /\ (r + 1) * NumSamples = r * NumSamples + NumSamples
      BY <3>1
    <3> QED  BY <3>2, <3>3, <1>1
  <2>2. Share(s, r) = SubSeq(s, a + 1, Min({c, Len(s)}))
    BY <1>4 DEF Share
  <2>3. \A k \in 1..NumSamples : Place(r, k) = a + k
    BY <1>4 DEF Place
  <2> HIDE DEF a, c
  <2>4. Min({c, Len(s)}) = c
    BY <1>1, <2>1, MinPair
  <2>5. Share(s, r) = SubSeq(s, a + 1, c)
    BY <2>2, <2>4
  <2>6. /\ SubSeq(s, a + 1, c) \in Seq(Samples) /\ Len(SubSeq(s, a + 1, c)) = c - a
        /\ \A k \in 1..(c - a) : SubSeq(s, a + 1, c)[k] = s[a + k]
    BY <1>1, <2>1
  <2>7. c - a = NumSamples
    BY <2>1
  <2> QED  BY <2>3, <2>5, <2>6, <2>7
<1> QED  BY <1>3, <1>4

\* If every rank gets as many samples as it should, the whole has its size.
LEMMA WholeSize ==
  ASSUME NEW s \in Seq(Samples), Size \in Nat, R \in Nat \ {0}, Len(s) <= TotalSize,
         training.sampler # "AgentDynamicBatchSampler" => Len(s) = TotalSize,
         \A r \in Ranks : Len(Share(s, r)) = NumSamples
  PROVE  Len(s) = TotalSize
<1>1. NumSamples \in Nat /\ TotalSize \in Nat /\ TotalSize = NumSamples * R
  BY Counts
<1>2. CASE training.sampler = "AgentDynamicBatchSampler"
  <2> DEFINE r == R - 1
             n == Len(s)
  <2>1. r \in Ranks /\ n \in Nat /\ n - r + R - 1 = n
    BY DEF Ranks
  <2>2. Share(s, r) = [i \in 1..(n \div R) |-> s[r + 1 + (i - 1) * R]]
    BY <1>2, <2>1 DEF Share
  <2>3. n \div R \in Nat /\ n % R \in 0..(R - 1) /\ n = R * (n \div R) + (n % R)
    BY <2>1, Division
  <2>4. Len(Share(s, r)) = n \div R
    <3> DEFINE e(i) == s[r + 1 + (i - 1) * R]
               q == n \div R
    <3>1. Share(s, r) = [i \in 1..q |-> e(i)] /\ q \in Nat
      BY <2>2, <2>3
    <3> HIDE DEF e, q, r
    <3>2. Len([i \in 1..q |-> e(i)]) = q
      BY <3>1
    <3> QED  BY <3>1, <3>2 DEF q
  <2>5. n \div R = NumSamples
    BY <2>1, <2>4
  <2>6. R * (n \div R) = NumSamples * R
    BY <1>1, <2>5
  <2> DEFINE v == n % R
  <2>7. v \in Nat /\ n = TotalSize + v
    BY <1>1, <2>3, <2>6
  <2> HIDE DEF v
  <2> QED  BY <1>1, <2>7
<1> QED  BY <1>2

-----------------------------------------------------------------------------
(* When all ranks are in one bucket *)

\* The k-th samples of all ranks come from one bucket.
Level(order) ==
  \A k \in 1..NumSamples : \E b \in 1..Len(Buckets) : \A r \in Ranks :
    \E l \in 1..Len(Buckets[b]) : Share(Even(order), r)[k] = Buckets[b][l]

\* A dataset that divides among the ranks is neither padded nor cut.
LEMMA EvenExact ==
  ASSUME training \in Trainings, NEW order, Lists(order, Samples),
         NEW m \in Nat, Size = m * R
  PROVE  /\ NumSamples = m /\ TotalSize = Size
         /\ \A r \in Ranks, k \in 1..NumSamples :
              Share(Even(order), r)[k] = order[Place(r, k)] /\ Place(r, k) \in 1..Size
<1>1. R \in Nat \ {0} /\ Size \in Nat
  BY TrainingFacts, BucketsPart
<1>2. NumSamples = m
  <2>1. (m * R + 0) \div R = m /\ (m * R + (R - 1)) \div R = m
    BY <1>1, Rounded
  <2>2. Size = m * R + 0 /\ Size + R - 1 = m * R + (R - 1)
    BY <1>1
  <2> QED  BY <2>1, <2>2 DEF NumSamples
<1>3. TotalSize = Size
  BY <1>2 DEF TotalSize
<1>4. order \in Seq(Samples) /\ Len(order) = Size
  BY <1>1, ListLength DEF Lists
<1>5. /\ Even(order) \in Seq(Samples) /\ Len(Even(order)) = Size
      /\ \A p \in 1..Size : Even(order)[p] = order[p]
  <2>1. TotalSize <= 2 * Size
    BY <1>1, <1>3
  <2>2. /\ Even(order) \in Seq(Samples)
        /\ Len(Even(order)) = IF TotalSize <= 2 * Size THEN TotalSize ELSE 2 * Size
        /\ \A p \in 1..Len(Even(order)) :
             Even(order)[p] = IF p <= Size THEN order[p] ELSE order[p - Size]
    BY <1>1, <1>3, <1>4, EvenFacts
  <2>3. Len(Even(order)) = Size
    BY <1>3, <2>1, <2>2
  <2> QED  BY <1>1, <2>2, <2>3
<1>6. ASSUME NEW r \in Ranks, NEW k \in 1..NumSamples
      PROVE  Share(Even(order), r)[k] = order[Place(r, k)] /\ Place(r, k) \in 1..Size
  <2>1. Place(r, k) \in 1..Size
    BY <1>1, <1>2, <1>3, Places
  <2>2. Share(Even(order), r)[k] = Even(order)[Place(r, k)]
    BY <1>1, <1>2, <1>3, <1>5, ShareFacts
  <2> QED  BY <1>5, <2>1, <2>2
<1> QED  BY <1>2, <1>3, <1>6

\* Buckets whose sizes are multiples of R, one after the other: the ranks that
\* take turns are in the same bucket (agent_dataset.py).
LEMMA AgentLevel ==
  ASSUME training \in Trainings, training.sampler = "AgentDynamicBatchSampler",
         \A b \in 1..Len(Buckets) : Len(Buckets[b]) % R = 0,
         NEW bs, Regrouped(bs)
  PROVE  Level(FlattenSeq(bs))
<1> DEFINE order == FlattenSeq(bs)
           n == Len(bs)
<1>1. /\ bs \in Seq(Seq(Samples)) /\ n \in Nat /\ R \in Nat \ {0} /\ Size \in Nat
  BY TrainingFacts, BucketsPart DEF Regrouped, Parts
<1>8. \A b \in 1..Len(bs) : Len(bs[b]) \in Nat
  BY <1>1
<1>9. \A b \in 1..Len(bs) : Len(bs[b]) % R = 0
  <2> SUFFICES ASSUME NEW b \in 1..Len(bs) PROVE Len(bs[b]) % R = 0
    OBVIOUS
  <2>1. PICK c \in 1..Len(Buckets) : Len(bs[b]) = Len(Buckets[c])
    BY DEF Regrouped
  <2> QED  BY <2>1
<1>2. Lists(order, Samples) /\ Len(order) = Size
  BY <1>1, FlattenedParts, ListLength DEF Regrouped
<1>3. PICK start : Laid(order, start, bs)
  BY <1>1, FlattenPlaces
<1> HIDE DEF order, n
<1>4. Starts(start, bs) /\ start[n] = Size /\ \A i \in 0..n : start[i] \in Nat
  BY <1>2, <1>3 DEF Laid, Starts, n
<1>5. ASSUME NEW i \in 0..Len(bs) PROVE Rounds(start[i], R)
  BY <1>1, <1>4, <1>9, RoundStarts
<1>6. PICK m \in Nat : Size = m * R
  <2>1. n \in 0..Len(bs)
    BY <1>1 DEF n
  <2>2. Rounds(Size, R)
    BY <2>1, <1>4, <1>5
  <2> QED  BY <2>2 DEF Rounds
<1>7. ASSUME NEW k \in 1..NumSamples
      PROVE  \E b \in 1..Len(Buckets) : \A r \in Ranks :
               \E l \in 1..Len(Buckets[b]) : Share(Even(order), r)[k] = Buckets[b][l]
  <2>1. /\ NumSamples = m /\ TotalSize = Size
        /\ \A r \in Ranks : Share(Even(order), r)[k] = order[Place(r, k)] /\ Place(r, k) \in 1..Size
    BY <1>2, <1>6, EvenExact
  <2>2. \A r \in Ranks : Place(r, k) = (k - 1) * R + (r + 1)
    BY DEF Place
  <2> DEFINE p == (k - 1) * R + 1
  <2>3. 0 \in Ranks /\ Place(0, k) = p
    BY <1>1, <2>2 DEF Ranks
  <2>4. p \in 1..start[Len(bs)]
    BY <1>4, <2>1, <2>3 DEF n
  <2> HIDE DEF p
  <2>13. bs \in Seq(Seq(Samples)) /\ Starts(start, bs)
    BY <1>1, <1>4
  <2>5. PICK b \in 1..Len(bs) : \E j \in 1..Len(bs[b]) : p = start[b - 1] + j
    BY <2>4, <2>13, PlacesReached
  <2>6. PICK j \in 1..Len(bs[b]) : p = start[b - 1] + j
    BY <2>5
  <2>7. b - 1 \in 0..Len(bs) /\ b - 1 \in 0..n /\ b \in 1..n /\ Len(bs[b]) \in Nat
    BY <1>1, <1>8 DEF n
  <2>8. PICK u \in Nat : start[b - 1] = u * R
    <3>1. Rounds(start[b - 1], R)
      BY <1>5, <2>7
    <3> QED  BY <3>1 DEF Rounds
  <2>9. PICK v \in Nat : Len(bs[b]) = v * R
    <3>1. Len(bs[b]) % R = 0
      BY <1>9
    <3>2. Rounds(Len(bs[b]), R)
      BY <1>1, <2>7, <3>1, Divided
    <3> QED  BY <3>2 DEF Rounds
  <2>10. ASSUME NEW r \in Ranks PROVE j + r \in 1..Len(bs[b])
    <3> DEFINE w == k - 1 - u
    <3>1. w \in Int /\ k - 1 = w + u /\ k - 1 \in Nat
      BY <2>1
    <3> HIDE DEF w
    <3>2. (w + u) * R = w * R + u * R /\ w * R \in Int /\ u * R \in Int
      BY <1>1, <3>1
    <3>3. p = w * R + u * R + 1
      BY <3>1, <3>2 DEF p
    <3>4. j = w * R + 1
      BY <1>1, <2>6, <2>8, <3>2, <3>3
    <3>5. w < v
      <4>1. CASE v <= w
        <5>1. v * R <= w * R
          BY <1>1, <3>1, <4>1, TimesGrows
        <5> QED  BY <1>1, <2>7, <2>9, <3>2, <3>4, <5>1
      <4> QED  BY <3>1, <4>1
    <3>6. (w + 1) * R <= v * R /\ (w + 1) * R = w * R + R
      BY <1>1, <3>1, <3>5, TimesGrows
    <3>7. r \in Nat /\ r <= R - 1
      BY <1>1 DEF Ranks
    <3> QED  BY <1>1, <2>7, <2>9, <3>2, <3>4, <3>6, <3>7
  <2>11. PICK c \in 1..Len(Buckets) :
           \A i \in 1..Len(bs[b]) : \E l \in 1..Len(Buckets[c]) : bs[b][i] = Buckets[c][l]
    BY DEF Regrouped
  <2>12. ASSUME NEW r \in Ranks
         PROVE  \E l \in 1..Len(Buckets[c]) : Share(Even(order), r)[k] = Buckets[c][l]
    <3> DEFINE i == j + r
    <3>1. i \in 1..Len(bs[b])
      BY <2>10
    <3>2. start[b - 1] + i = Place(r, k)
      <4>1. Place(r, k) = p + r
        BY <1>1, <2>1, <2>2 DEF p, Ranks
      <4>2. r \in Int /\ start[b - 1] \in Int /\ j \in Int
        BY <1>4, <2>7 DEF Ranks
      <4> QED  BY <2>6, <4>1, <4>2
    <3> HIDE DEF i
    <3>3. order[start[b - 1] + i] = bs[b][i]
      BY <1>3, <3>1 DEF Laid
    <3>4. Share(Even(order), r)[k] = bs[b][i]
      BY <2>1, <3>2, <3>3
    <3> QED  BY <2>11, <3>1, <3>4
  <2> QED  BY <2>12
<1> QED  BY <1>7 DEF Level, order

\* Buckets of R samples, dealt into R rows: the ranks that take the rows of a
\* stretch each are in the same bucket.
LEMMA ReplicasLevel ==
  ASSUME training \in Trainings, training.sampler = "ReplicasDistributedSampler",
         \A b \in 1..Len(Buckets) : Len(Buckets[b]) = R,
         NEW bs, Regrouped(bs), NEW d \in Shuffles(Dealt(bs))
  PROVE  Level(FlattenSeq(d))
<1> DEFINE order == FlattenSeq(d)
           n == Len(bs)
<1>1. /\ bs \in Seq(Seq(Samples)) /\ n \in Nat /\ R \in Nat \ {0} /\ Size \in Nat
      /\ \A b \in 1..n : Len(bs[b]) = R
  <2>1. bs \in Seq(Seq(Samples)) /\ n \in Nat /\ R \in Nat \ {0} /\ Size \in Nat
    BY TrainingFacts, BucketsPart DEF Regrouped, Parts
  <2>2. ASSUME NEW b \in 1..n PROVE Len(bs[b]) = R
    <3>1. PICK c \in 1..Len(Buckets) : Len(bs[b]) = Len(Buckets[c])
      BY DEF Regrouped
    <3> QED  BY <3>1
  <2> QED  BY <2>1, <2>2
<1>2. Parts(bs, Samples)
  BY DEF Regrouped
<1>3. Parts(Dealt(bs), Samples) /\ Len(Dealt(bs)) = R /\ Dealt(bs) \in Seq(Seq(Samples))
  <2>1. \A b \in 1..Len(bs) : Len(bs[b]) <= R
    BY <1>1
  <2>2. Parts(Dealt(bs), Samples) /\ Len(Dealt(bs)) = R
    BY <1>1, <1>2, <2>1, DealtParts
  <2> QED  BY <2>2 DEF Parts
<1>4. ASSUME NEW r \in 1..R
      PROVE  Len(Dealt(bs)[r]) = n /\ \A b \in 1..n : Dealt(bs)[r][b] = bs[b][r]
  <2>1. PICK at : Row(Dealt(bs)[r], at, bs, r)
    BY <1>1, DealtRow
  <2>2. \A b \in 1..Len(bs) : r <= Len(bs[b])
    BY <1>1
  <2>3. Len(Dealt(bs)[r]) = Len(bs) /\ \A b \in 1..Len(bs) : at[b] = b
    BY <2>1, <2>2, Zenon DEF Row
  <2>4. \A b \in 1..Len(bs) : Dealt(bs)[r][at[b]] = bs[b][r]
    BY <2>1, <2>2, Zenon DEF Row
  <2> QED  BY <2>3, <2>4
<1>5. d \in Seq(Seq(Samples)) /\ Len(d) = R /\ Parts(d, Samples)
  BY <1>3, Shuffled, ShuffledParts
<1>6. PICK q : Reorders(q, R) /\ \A i \in 1..R : d[i] = Dealt(bs)[q[i]]
  BY <1>3, Shuffled
<1>7. \A i \in 1..R : q[i] \in 1..R /\ Len(d[i]) = n /\ \A b \in 1..n : d[i][b] = bs[b][q[i]]
  <2> SUFFICES ASSUME NEW i \in 1..R
               PROVE  q[i] \in 1..R /\ Len(d[i]) = n /\ \A b \in 1..n : d[i][b] = bs[b][q[i]]
    OBVIOUS
  <2> DEFINE r == q[i]
  <2>1. r \in 1..R
    BY <1>6 DEF Reorders
  <2>2. d[i] = Dealt(bs)[r]
    BY <1>6
  <2> HIDE DEF r, n
  <2>3. Len(Dealt(bs)[r]) = n /\ \A b \in 1..n : Dealt(bs)[r][b] = bs[b][r]
    BY <2>1, <1>4
  <2>4. r \in 1..R /\ Len(d[i]) = n /\ \A b \in 1..n : d[i][b] = bs[b][r]
    BY <2>1, <2>2, <2>3
  <2> QED  BY <2>4 DEF r
<1>8. Lists(order, Samples) /\ Len(order) = Size
  BY <1>1, <1>5, FlattenedParts, ListLength
<1>9. PICK start : Laid(order, start, d)
  BY <1>5, FlattenPlaces
<1> HIDE DEF order, n
<1>10. Starts(start, d) /\ start[R] = Size
  BY <1>5, <1>8, <1>9 DEF Laid
<1>11. \A i \in 0..R : start[i] = i * n
  <2>1. \A i \in 1..Len(d) : Len(d[i]) = n
    BY <1>5, <1>7
  <2>2. d \in Seq(Seq(Samples)) /\ Starts(start, d) /\ n \in Nat /\ Len(d) = R
    BY <1>1, <1>5, <1>10
  <2>3. ASSUME NEW i \in 0..Len(d) PROVE start[i] = i * n
    BY <2>1, <2>2, LevelStarts
  <2> QED  BY <2>2, <2>3
<1>12. Size = n * R
  BY <1>1, <1>10, <1>11
<1>13. ASSUME NEW k \in 1..NumSamples
       PROVE  \E b \in 1..Len(Buckets) : \A r \in Ranks :
                \E l \in 1..Len(Buckets[b]) : Share(Even(order), r)[k] = Buckets[b][l]
  <2>1. /\ NumSamples = n
        /\ \A r \in Ranks : Share(Even(order), r)[k] = order[Place(r, k)]
    BY <1>1, <1>8, <1>12, EvenExact
  <2>2. PICK c \in 1..Len(Buckets) :
           \A i \in 1..Len(bs[k]) : \E l \in 1..Len(Buckets[c]) : bs[k][i] = Buckets[c][l]
    BY <2>1 DEF Regrouped, n
  <2>3. ASSUME NEW r \in Ranks
        PROVE  \E l \in 1..Len(Buckets[c]) : Share(Even(order), r)[k] = Buckets[c][l]
    <3> DEFINE i == r + 1
    <3>1. i \in 1..R /\ i - 1 = r /\ r \in 0..R
      BY <1>1 DEF Ranks
    <3>2. Place(r, k) = r * n + k
      BY <2>1 DEF Place
    <3> HIDE DEF i
    <3>3. start[i - 1] + k = Place(r, k)
      BY <1>11, <3>1, <3>2
    <3>4. order[start[i - 1] + k] = d[i][k]
      BY <1>5, <1>7, <1>9, <2>1, <3>1 DEF Laid
    <3>5. d[i][k] = bs[k][q[i]] /\ q[i] \in 1..Len(bs[k])
      BY <1>1, <1>7, <2>1, <3>1
    <3>6. Share(Even(order), r)[k] = bs[k][q[i]]
      BY <2>1, <3>3, <3>4, <3>5
    <3> QED  BY <2>2, <3>5, <3>6
  <2> QED  BY <2>3
<1> QED  BY <1>13 DEF Level, order

-----------------------------------------------------------------------------
(* The inductive invariant *)

\* The epoch the generator is seeded with in epoch e.
Told(e) == IF training.tells THEN e ELSE 0

\* The conditions of SameBucket that the training fixes.
AllFit ==
  /\ training.shuffle \/ training.sampler # "ReplicasDistributedSampler"
  /\ \A b \in DOMAIN Buckets : Fits(Buckets[b])

\* What is known of an order that was drawn.
Arranged(order) ==
  /\ Lists(order, Samples) /\ (AllFit => Level(order))
  /\ ~training.shuffle => order = InOrder

\* The samples of rank r in epoch e, and whether its sampler made them out.
Part(e, r) == Share(Even(orders[Told(e)]), r)

\* Rank r's sampler could make out its part of epoch e.
Drawn(e, r) == orders[Told(e)] # NoOrder /\ ~WrongLength(r, orders[Told(e)])

\* How many samples the batches before batch k take.
Before(k) == (k - 1) * training.batch_size

\* bs are the first batches of the list s.
Batched(bs, s) ==
  \A k \in 1..Len(bs) :
    /\ Before(k) < NumSamples
    /\ Len(bs[k]) = Min({training.batch_size, NumSamples - Before(k)})
    /\ \A i \in 1..Len(bs[k]) : bs[k][i] = s[Before(k) + i]

\* How many batches make an epoch, and how many rank r has trained altogether.
Batches == (NumSamples + training.batch_size - 1) \div training.batch_size

\* How many batches rank r has trained: those of the epochs it is through with and
\* those it was given, without the one it holds.
Trained(r) ==
  round[r] * Batches
    + (IF round[r] < Epochs THEN Len(given[round[r]][r]) ELSE 0)
    - (IF batch[r] # <<>> THEN 1 ELSE 0)

\* The types of the variables.  At most one order is drawn for an epoch.
StateOK ==
  /\ training \in Trainings
  /\ orders \in [0..(Epochs - 1) -> Seq(Samples) \cup {NoOrder}]
  /\ round \in [Ranks -> 0..Epochs]
  /\ epoch \in [Ranks -> 0..(Epochs - 1)]
  /\ rest \in [Ranks -> Seq(Samples) \cup {NotDrawn}]
  /\ batch \in [Ranks -> Seq(Samples)]
  /\ failed \subseteq Ranks
  /\ given \in [0..(Epochs - 1) -> [Ranks -> Seq(Seq(Samples))]]

\* What was drawn is arranged; a sampler that is not told the epoch stays at 0.
OrdersOK ==
  /\ \A e \in 0..(Epochs - 1) : orders[e] # NoOrder => Arranged(orders[e])
  /\ ~training.tells => \A r \in Ranks : epoch[r] = 0

\* A rank is busy in an epoch only, and trains only what it has drawn.
BusyOK == \A r \in Ranks : /\ rest[r] # NotDrawn => round[r] < Epochs
                           /\ batch[r] # <<>> => rest[r] # NotDrawn

\* What rank r has been given in epoch e: all of its part when the epoch is
\* over, nothing before it begins, and in between all but the rest.
GivenOK(r, e) ==
  /\ Batched(given[e][r], Part(e, r))
  /\ e < round[r] => Drawn(e, r) /\ NumSamples <= Before(Len(given[e][r]) + 1)
  /\ e > round[r] => given[e][r] = <<>>
  /\ e = round[r] /\ rest[r] = NotDrawn => given[e][r] = <<>>
  /\ e = round[r] /\ rest[r] # NotDrawn =>
       /\ Drawn(e, r)
       /\ rest[r] = SubSeq(Part(e, r), Before(Len(given[e][r]) + 1) + 1, NumSamples)
  /\ e = round[r] /\ batch[r] # <<>> =>
       given[e][r] # <<>> /\ batch[r] = given[e][r][Len(given[e][r])]

\* The all-reduce keeps the ranks in step: none has trained more than another.
InStep == \A r \in Ranks, q \in Ranks : Trained(r) = Trained(q)

\* The inductive invariant.
SamplersInv ==
  /\ StateOK /\ OrdersOK /\ BusyOK /\ InStep
  /\ \A r \in Ranks, e \in 0..(Epochs - 1) : GivenOK(r, e)

-----------------------------------------------------------------------------
(* Orders and their parts *)

\* Without shuffling the buckets keep their order, which suits the samplers
\* that take turns.
LEMMA UnshuffledArranged ==
  ASSUME training \in Trainings, ~training.shuffle
  PROVE  Arranged(InOrder)
<1>1. Lists(InOrder, Samples) /\ Regrouped(Buckets) /\ InOrder = FlattenSeq(Buckets)
  BY BucketsPart, BucketsRegrouped DEF InOrder
<1>2. ASSUME AllFit PROVE Level(InOrder)
  <2>1. DOMAIN Buckets = 1..Len(Buckets) /\ 1 \in 1..Len(Buckets)
    BY TrainingFacts
  <2>2. /\ training.sampler # "ReplicasDistributedSampler"
        /\ \A b \in 1..Len(Buckets) : Fits(Buckets[b])
    BY <1>2, <2>1 DEF AllFit
  <2>3. /\ training.sampler = "AgentDynamicBatchSampler"
        /\ \A b \in 1..Len(Buckets) : Len(Buckets[b]) % R = 0
    BY <2>1, <2>2 DEF Fits
  <2> QED  BY <1>1, <2>3, AgentLevel
<1> QED  BY <1>1, <1>2 DEF Arranged

\* A shuffled order is arranged as well, unless dealing fails.
LEMMA ShuffledArranged ==
  ASSUME training \in Trainings, training.shuffle, ~DealFails, NEW order \in Arrangements
  PROVE  Arranged(order)
<1>1. DOMAIN Buckets = 1..Len(Buckets) /\ 1 \in 1..Len(Buckets)
  BY TrainingFacts
<1>2. CASE training.sampler = "ReplicasDistributedSampler"
  <2>1. PICK bs \in ShuffledBuckets : order \in {FlattenSeq(d) : d \in Shuffles(Dealt(bs))}
    BY <1>2 DEF Arrangements
  <2>2. PICK d \in Shuffles(Dealt(bs)) : order = FlattenSeq(d)
    BY <2>1
  <2>3. Regrouped(bs) /\ Parts(bs, Samples) /\ R \in Nat \ {0}
    BY ShufflesRegrouped, TrainingFacts DEF Regrouped
  <2>4. \A c \in 1..Len(Buckets) : Len(Buckets[c]) <= R
    <3>1. \A c \in 1..Len(Buckets) : ~(Len(Buckets[c]) > R)
      BY <1>1, <1>2 DEF DealFails
    <3>2. \A c \in 1..Len(Buckets) : Len(Buckets[c]) \in Nat
      BY TrainingFacts
    <3> QED  BY <2>3, <3>1, <3>2
  <2>5. \A b \in 1..Len(bs) : Len(bs[b]) <= R
    <3> SUFFICES ASSUME NEW b \in 1..Len(bs) PROVE Len(bs[b]) <= R
      OBVIOUS
    <3>1. PICK c \in 1..Len(Buckets) : Len(bs[b]) = Len(Buckets[c])
      BY <2>3 DEF Regrouped
    <3> QED  BY <2>4, <3>1
  <2>6. Parts(Dealt(bs), Samples)
    BY <2>3, <2>5, DealtParts
  <2>7. Lists(order, Samples)
    BY <2>2, <2>6, ShuffledParts, FlattenedParts
  <2>8. ASSUME AllFit PROVE Level(order)
    <3>1. \A b \in 1..Len(Buckets) : Len(Buckets[b]) = R
      BY <1>1, <1>2, <2>8 DEF AllFit, Fits
    <3> QED  BY <1>2, <2>2, <2>3, <3>1, ReplicasLevel
  <2> QED  BY <2>7, <2>8 DEF Arranged
<1>3. CASE training.sampler # "ReplicasDistributedSampler"
  <2>1. PICK bs \in ShuffledBuckets : order = FlattenSeq(bs)
    BY <1>3 DEF Arrangements
  <2>2. Regrouped(bs) /\ Parts(bs, Samples)
    BY ShufflesRegrouped DEF Regrouped
  <2>3. Lists(order, Samples)
    BY <2>1, <2>2, FlattenedParts
  <2>4. ASSUME AllFit PROVE Level(order)
    <3>1. \A b \in 1..Len(Buckets) : Fits(Buckets[b])
      BY <1>1, <2>4 DEF AllFit
    <3>2. /\ training.sampler = "AgentDynamicBatchSampler"
          /\ \A b \in 1..Len(Buckets) : Len(Buckets[b]) % R = 0
      BY <1>1, <1>3, <3>1 DEF Fits
    <3> QED  BY <2>1, <2>2, <3>2, AgentLevel
  <2> QED  BY <2>3, <2>4 DEF Arranged
<1> QED  BY <1>2, <1>3

\* Whoever asks for an order gets one that is arranged, and the one that was
\* drawn before if there is one.
LEMMA OrdersArranged ==
  ASSUME StateOK, OrdersOK, ~DealFails, NEW e \in 0..(Epochs - 1), NEW order \in OrdersOf(e)
  PROVE  Arranged(order) /\ (orders[e] # NoOrder => order = orders[e])
<1>1. training \in Trainings /\ training.shuffle \in BOOLEAN
  BY TrainingFacts DEF StateOK
<1>2. CASE ~training.shuffle
  BY <1>1, <1>2, UnshuffledArranged DEF OrdersOf, OrdersOK, Arranged
<1>3. CASE training.shuffle /\ orders[e] # NoOrder
  BY <1>3 DEF OrdersOf, OrdersOK
<1>4. CASE training.shuffle /\ orders[e] = NoOrder
  BY <1>1, <1>4, ShuffledArranged DEF OrdersOf
<1> QED  BY <1>1, <1>2, <1>3, <1>4

\* Whatever the whole, a share of it holds samples only.
LEMMA ShareWithin ==
  ASSUME NumSamples \in Nat, R \in Nat \ {0}, NEW s \in Seq(Samples), NEW r \in Ranks
  PROVE  Share(s, r) \in Seq(Samples)
<1>1. r \in 0..(R - 1) /\ Len(s) \in Nat
  BY DEF Ranks
<1>2. CASE training.sampler = "AgentDynamicBatchSampler"
  <2> DEFINE z == Len(s) - r + R - 1
             q == z \div R
  <2>1. z \in Nat
    BY <1>1
  <2>2. Share(s, r) = [i \in 1..q |-> s[r + 1 + (i - 1) * R]]
    BY <1>2 DEF Share
  <2> HIDE DEF z
  <2>3. q \in Nat /\ q * R <= z
    <3>1. q \in Nat /\ z % R \in Nat /\ z = R * q + (z % R)
      BY <2>1, Division
    <3> HIDE DEF q
    <3>2. R * q = q * R
      BY <3>1
    <3> QED  BY <2>1, <3>1, <3>2
  <2> HIDE DEF q
  <2>4. ASSUME NEW i \in 1..q PROVE s[r + 1 + (i - 1) * R] \in Samples
    <3>1. i * R <= q * R /\ (i - 1) * R \in Nat /\ i * R = (i - 1) * R + R
      BY <2>3, TimesGrows
    <3> DEFINE p == r + 1 + (i - 1) * R
    <3>2. p \in 1..Len(s)
      BY <1>1, <2>3, <3>1 DEF z
    <3> HIDE DEF p
    <3>3. s[p] \in Samples
      BY <3>2
    <3> QED  BY <3>3 DEF p
  <2> DEFINE e(i) == s[r + 1 + (i - 1) * R]
  <2>5. Share(s, r) = [i \in 1..q |-> e(i)] /\ \A i \in 1..q : e(i) \in Samples
    BY <2>2, <2>4
  <2> HIDE DEF e
  <2>6. Share(s, r) \in [1..q -> Samples]
    BY <2>5
  <2> QED  BY <2>3, <2>6
<1>3. CASE training.sampler # "AgentDynamicBatchSampler"
  <2> DEFINE a == r * NumSamples
             c == (r + 1) * NumSamples
             d == IF c <= Len(s) THEN c ELSE Len(s)
  <2>1. a \in Nat /\ c \in Nat
    BY <1>1
  <2>2. Share(s, r) = SubSeq(s, a + 1, Min({c, Len(s)}))
    BY <1>3 DEF Share
  <2> HIDE DEF a, c
  <2>3. Min({c, Len(s)}) = d
    BY <1>1, <2>1, MinPair
  <2>4. d \in 0..Len(s)
    BY <1>1, <2>1
  <2> HIDE DEF d
  <2>5. SubSeq(s, a + 1, d) \in Seq(Samples)
    BY <2>1, <2>4
  <2> QED  BY <2>2, <2>3, <2>5
<1> QED  BY <1>2, <1>3

\* The even whole of an order.
LEMMA ArrangedEven ==
  ASSUME training \in Trainings, NEW order, Arranged(order)
  PROVE  /\ order \in Seq(Samples) /\ Len(order) = Size /\ Size \in Nat /\ R \in Nat \ {0}
         /\ NumSamples \in Nat /\ TotalSize \in Nat
         /\ Even(order) \in Seq(Samples)
         /\ Len(Even(order)) = IF TotalSize <= 2 * Size THEN TotalSize ELSE 2 * Size
         /\ \A p \in 1..Len(Even(order)) :
              Even(order)[p] = IF p <= Size THEN order[p] ELSE order[p - Size]
<1>1. Size \in Nat /\ R \in Nat \ {0}
  BY BucketsPart, TrainingFacts
<1>2. NumSamples \in Nat /\ TotalSize \in Nat
  BY <1>1, Counts
<1>3. order \in Seq(Samples) /\ Len(order) = Size
  BY <1>1, ListLength DEF Arranged, Lists
<1> QED  BY <1>1, <1>2, <1>3, EvenFacts

\* What is drawn has the length it should have.
LEMMA PartFacts ==
  ASSUME StateOK, OrdersOK, NEW e \in 0..(Epochs - 1), NEW r \in Ranks, Drawn(e, r)
  PROVE  Part(e, r) \in Seq(Samples) /\ Len(Part(e, r)) = NumSamples /\ NumSamples \in Nat
<1>1. Told(e) \in 0..(Epochs - 1)
  BY TrainingFacts DEF Told, StateOK
<1> DEFINE order == orders[Told(e)]
<1>2. Arranged(order) /\ training \in Trainings
  BY <1>1 DEF OrdersOK, StateOK, Drawn
<1> HIDE DEF order
<1>3. Even(order) \in Seq(Samples) /\ NumSamples \in Nat /\ R \in Nat \ {0}
  BY <1>2, ArrangedEven
<1>4. Share(Even(order), r) \in Seq(Samples)
  BY <1>3, ShareWithin
<1>5. Len(Share(Even(order), r)) = NumSamples
  BY DEF Drawn, WrongLength, order
<1> QED  BY <1>3, <1>4, <1>5 DEF Part, order

\* How many batches there are.
LEMMA BatchCount ==
  ASSUME training \in Trainings, NumSamples \in Nat
  PROVE  /\ Batches \in Nat
         /\ \A k \in Nat : Before(k) < NumSamples => k <= Batches
         /\ \A k \in Nat : NumSamples <= Before(k + 1) => Batches <= k
<1> DEFINE size == training.batch_size
           z == NumSamples + size - 1
           v == z % size
<1>1. size \in Nat \ {0}
  BY TrainingFacts
<1>2. z \in Nat /\ z = NumSamples + size - 1 /\ Batches = z \div size
  BY <1>1 DEF Batches
<1>3. \A k : Before(k) = (k - 1) * size
  BY DEF Before
<1> HIDE DEF z, size
<1>4. Batches \in Nat /\ v \in 0..(size - 1) /\ z = size * Batches + v
  BY <1>1, <1>2, Division
<1> HIDE DEF v
<1>5. Batches * size = size * Batches /\ Batches * size \in Nat
  BY <1>1, <1>4
<1>6. ASSUME NEW k \in Nat, Before(k) < NumSamples PROVE k <= Batches
  <2>1. CASE Batches <= k - 1
    <3>1. Batches * size <= (k - 1) * size
      BY <1>1, <1>4, <2>1, TimesGrows
    <3>2. (k - 1) * size \in Int
      BY <1>1
    <3> QED  BY <1>1, <1>2, <1>3, <1>4, <1>5, <1>6, <3>1, <3>2
  <2> QED  BY <1>4, <2>1
<1>7. ASSUME NEW k \in Nat, NumSamples <= Before(k + 1) PROVE Batches <= k
  <2>1. CASE k + 1 <= Batches
    <3>1. (k + 1) * size <= Batches * size /\ (k + 1) * size = k * size + size
      BY <1>1, <1>4, <2>1, TimesGrows
    <3>2. NumSamples <= k * size /\ k * size \in Int
      <4>1. k + 1 - 1 = k
        OBVIOUS
      <4> QED  BY <1>1, <1>3, <1>7, <4>1
    <3> QED  BY <1>1, <1>2, <1>4, <1>5, <3>1, <3>2
  <2> QED  BY <1>4, <2>1
<1> QED  BY <1>4, <1>6, <1>7

-----------------------------------------------------------------------------
(* What a step leaves as it is *)

\* The training stays what it is, and with it all that is computed from it.
LEMMA SameTraining ==
  ASSUME training' = training
  PROVE  /\ Buckets' = Buckets /\ R' = R /\ Ranks' = Ranks /\ InOrder' = InOrder
         /\ Size' = Size /\ Samples' = Samples /\ NumSamples' = NumSamples
         /\ TotalSize' = TotalSize /\ Batches' = Batches /\ AllFit' = AllFit
BY DEF Buckets, R, Ranks, InOrder, Size, Samples, NumSamples, TotalSize, DropsLast,
       Batches, AllFit, Fits

\* Nor does a rank's share of an order change with a step.
LEMMA SameShare ==
  ASSUME training' = training, NEW s, NEW r
  PROVE  /\ Even(s)' = Even(s) /\ Share(s, r)' = Share(s, r)
         /\ Share(Even(s), r)' = Share(Even(s), r)
         /\ WrongLength(r, s)' = WrongLength(r, s)
<1>1. Even(s)' = Even(s)
  BY SameTraining DEF Even
<1>2. \A z : Share(z, r)' = Share(z, r)
  BY SameTraining DEF Share
<1>3. Share(Even(s), r)' = Share(Even(s)', r)
  BY SameTraining DEF Share
<1>4. Share(Even(s), r)' = Share(Even(s), r)
  BY <1>1, <1>2, <1>3
<1>5. WrongLength(r, s)' = WrongLength(r, s)
  BY <1>1, <1>4, SameTraining DEF WrongLength
<1> QED  BY <1>1, <1>2, <1>4, <1>5

\* An order that is arranged stays so.
LEMMA SameArranged ==
  ASSUME training' = training, NEW s, Arranged(s)
  PROVE  Arranged(s)'
<1>1. Lists(s, Samples)' = Lists(s, Samples)
  BY SameTraining DEF Lists
<1>2. Level(s)' = Level(s)
  BY SameTraining, SameShare DEF Level
<1> QED  BY <1>1, <1>2, SameTraining DEF Arranged

\* Batches of a list stay so.
LEMMA SameBatched ==
  ASSUME training' = training, NEW bs, NEW s, NEW k
  PROVE  Before(k)' = Before(k) /\ Batched(bs, s)' = Batched(bs, s)
BY SameTraining DEF Before, Batched

\* What was drawn stays.
Kept == /\ training' = training
        /\ \A e \in 0..(Epochs - 1) : orders[e] # NoOrder => orders'[e] = orders[e]

\* What a rank has drawn stays drawn, and is the same part.
LEMMA DrawnKept ==
  ASSUME training \in Trainings, Kept, NEW e \in 0..(Epochs - 1), NEW r, Drawn(e, r)
  PROVE  Drawn(e, r)' /\ Part(e, r)' = Part(e, r)
<1>1. Told(e) \in 0..(Epochs - 1) /\ Told(e)' = Told(e)
  BY TrainingFacts DEF Told, Kept
<1> DEFINE s == orders[Told(e)]
<1>2. s # NoOrder /\ orders'[Told(e)] = s
  BY <1>1 DEF Kept, Drawn
<1>3. Part(e, r)' = Share(Even(s), r)'
  BY <1>1, <1>2 DEF Part
<1>4. Part(e, r)' = Part(e, r)
  <2>1. Part(e, r) = Share(Even(s), r)
    BY DEF Part
  <2>2. ASSUME NEW z, z = s PROVE Share(Even(z), r)' = Share(Even(z), r)
    BY SameShare DEF Kept
  <2>3. PICK z : z = s
    OBVIOUS
  <2>4. Part(e, r)' = Share(Even(z), r)'
    BY <1>1, <1>2, <2>3 DEF Part
  <2> QED  BY <2>1, <2>2, <2>3, <2>4
<1>5. Drawn(e, r)'
  <2>1. PICK z : z = s
    OBVIOUS
  <2>2. WrongLength(r, z)' = WrongLength(r, z)
    BY SameShare DEF Kept
  <2>3. ~WrongLength(r, z) /\ z # NoOrder
    BY <1>2, <2>1 DEF Drawn
  <2>4. Drawn(e, r)' = (z # NoOrder /\ ~WrongLength(r, z)')
    BY <1>1, <1>2, <2>1 DEF Drawn
  <2> QED  BY <2>2, <2>3, <2>4
<1> QED  BY <1>4, <1>5

\* Lists of no batches and batches of an unchanged list are in order.
LEMMA GivenKept ==
  ASSUME training \in Trainings, Kept, NEW e \in 0..(Epochs - 1), NEW r,
         NEW bs, Batched(bs, Part(e, r)), bs = <<>> \/ Drawn(e, r), given'[e][r] = bs
  PROVE  Batched(given[e][r], Part(e, r))'
<1>1. CASE bs = <<>>
  <2>1. given'[e][r] = <<>>
    BY <1>1
  <2> QED  BY <2>1 DEF Batched
<1>2. CASE Drawn(e, r)
  <2>1. PICK z : z = Part(e, r)
    OBVIOUS
  <2>2. Part(e, r)' = z
    BY <1>2, <2>1, DrawnKept
  <2>3. Batched(bs, z)' = Batched(bs, z)
    BY SameBatched DEF Kept
  <2>4. Batched(given[e][r], Part(e, r))' = Batched(bs, z)'
    BY <2>2 DEF Batched
  <2> QED  BY <2>1, <2>3, <2>4
<1> QED  BY <1>1, <1>2

\* A rank that does nothing but leave a batch.
LEMMA RankKept ==
  ASSUME SamplersInv, Kept, NEW r \in Ranks, rest'[r] = rest[r],
         batch'[r] = batch[r] \/ batch'[r] = <<>>, round'[r] = round[r],
         NEW e \in 0..(Epochs - 1), given'[e][r] = given[e][r]
  PROVE  GivenOK(r, e)'
<1>1. training \in Trainings /\ round[r] \in 0..Epochs
  BY DEF SamplersInv, StateOK
<1>2. GivenOK(r, e)
  BY DEF SamplersInv
<1>3. NumSamples' = NumSamples /\ \A k : Before(k)' = Before(k)
  BY SameTraining, SameBatched DEF Kept
<1>4. Drawn(e, r) => Drawn(e, r)' /\ Part(e, r)' = Part(e, r)
  BY <1>1, DrawnKept
<1>5. given[e][r] = <<>> \/ Drawn(e, r)
  BY <1>1, <1>2 DEF GivenOK
<1>6. Batched(given[e][r], Part(e, r))'
  <2>1. PICK bs : bs = given[e][r]
    OBVIOUS
  <2>2. Batched(bs, Part(e, r))
    BY <1>2, <2>1 DEF GivenOK
  <2> QED  BY <1>1, <1>5, <2>1, <2>2, GivenKept
<1>7. Before(Len(given[e][r]) + 1)' = Before(Len(given[e][r]) + 1)
  <2>1. PICK k : k = Len(given[e][r]) + 1
    OBVIOUS
  <2>2. Before(Len(given[e][r]) + 1)' = Before(k)'
    BY <2>1
  <2> QED  BY <1>3, <2>1, <2>2
<1>8. e < round[r] => Drawn(e, r)' /\ NumSamples' <= Before(Len(given[e][r]) + 1)'
  BY <1>2, <1>3, <1>4, <1>7 DEF GivenOK
<1>9. e = round[r] /\ rest[r] # NotDrawn =>
        /\ Drawn(e, r)'
        /\ rest[r] = SubSeq(Part(e, r)', Before(Len(given[e][r]) + 1)' + 1, NumSamples')
  BY <1>2, <1>3, <1>4, <1>7 DEF GivenOK
<1>10. /\ (e > round[r] \/ (e = round[r] /\ rest[r] = NotDrawn)) => given[e][r] = <<>>
       /\ e = round[r] /\ batch'[r] # <<>> =>
            given[e][r] # <<>> /\ batch'[r] = given[e][r][Len(given[e][r])]
  BY <1>2 DEF GivenOK
<1>11. (e < round[r] => Drawn(e, r) /\ NumSamples <= Before(Len(given[e][r]) + 1))'
  BY <1>8
<1>12. (e > round[r] => given[e][r] = <<>>)'
  <2>1. e > round[r] => given[e][r] = <<>>
    BY <1>2 DEF GivenOK
  <2> QED  BY <2>1, Zenon
<1>13. (e = round[r] /\ rest[r] = NotDrawn => given[e][r] = <<>>)'
  BY <1>10 DEF NotDrawn
<1>14. (e = round[r] /\ rest[r] # NotDrawn =>
          /\ Drawn(e, r)
          /\ rest[r] = SubSeq(Part(e, r), Before(Len(given[e][r]) + 1) + 1, NumSamples))'
  BY <1>9 DEF NotDrawn
<1>15. (e = round[r] /\ batch[r] # <<>> =>
          given[e][r] # <<>> /\ batch[r] = given[e][r][Len(given[e][r])])'
  BY <1>10
<1> QED  BY <1>6, <1>11, <1>12, <1>13, <1>14, <1>15, Zenon DEF GivenOK

-----------------------------------------------------------------------------
(* The initial states *)

\* Batches of one size start one size after the other.
LEMMA BeforeFacts ==
  ASSUME training \in Trainings
  PROVE  /\ Before(1) = 0
         /\ \A k \in Nat : Before(k) \in Int /\ Before(k + 1) = Before(k) + training.batch_size
         /\ \A k \in Nat : Before(k + 1) \in Nat /\ training.batch_size <= Before(k + 2)
<1> DEFINE size == training.batch_size
<1>1. size \in Nat \ {0} /\ \A k : Before(k) = (k - 1) * size
  BY TrainingFacts DEF Before
<1> HIDE DEF size
<1>2. Before(1) = 0
  <2>1. Before(1) = (1 - 1) * size
    BY <1>1
  <2> QED  BY <1>1, <2>1
<1>3. ASSUME NEW k \in Nat
      PROVE  /\ Before(k) \in Int /\ Before(k + 1) = Before(k) + size
             /\ Before(k + 1) \in Nat /\ size <= Before(k + 2)
  <2> DEFINE l == k + 1
             m == k + 2
  <2>1. k - 1 \in Int /\ l - 1 = k /\ m - 1 = k + 1
    OBVIOUS
  <2> HIDE DEF l, m
  <2>2. Before(k) = (k - 1) * size /\ Before(l) = (l - 1) * size /\ Before(m) = (m - 1) * size
    BY <1>1, Zenon
  <2>3. Before(l) = k * size /\ Before(m) = (k + 1) * size
    BY <2>1, <2>2
  <2>4. /\ (k - 1) * size \in Int /\ k * size = (k - 1) * size + size
        /\ k * size \in Nat /\ (k + 1) * size = k * size + size
    BY <1>1
  <2> QED  BY <1>1, <2>2, <2>3, <2>4 DEF l, m
<1> QED  BY <1>2, <1>3 DEF size

\* The values for nothing drawn are no orders.
LEMMA NoneIsNone ==
  ASSUME Size \in Nat
  PROVE  NoOrder \notin Seq(Samples) /\ NotDrawn \notin Seq(Samples) /\ NotDrawn # <<>>
<1>1. -1 \notin Samples
  BY DEF Samples
<1>2. \A s \in Seq(Samples) : Len(s) = 1 => s[1] \in Samples
  <2>1. \A s \in Seq(Samples) : s \in [1..Len(s) -> Samples]
    OBVIOUS
  <2> QED  BY <2>1
<1>3. Len(<<-1>>) = 1 /\ <<-1>>[1] = -1 /\ <<-1>> # <<>>
  OBVIOUS
<1> QED  BY <1>1, <1>2, <1>3 DEF NoOrder, NotDrawn

\* The invariant holds initially: nothing has been drawn or given.
LEMMA InitInv ==
  ASSUME Init PROVE SamplersInv
<1>1. training \in Trainings /\ Epochs \in Nat \ {0} /\ Size \in Nat
  BY TrainingFacts, BucketsPart DEF Init
<1>2. /\ \A r \in Ranks : /\ round[r] = 0 /\ epoch[r] = 0 /\ rest[r] = NotDrawn
                          /\ batch[r] = <<>>
      /\ \A e \in 0..(Epochs - 1) : orders[e] = NoOrder
      /\ \A e \in 0..(Epochs - 1), r \in Ranks : given[e][r] = <<>>
      /\ 0 \in 0..(Epochs - 1) /\ 0 \in 0..Epochs /\ 0 < Epochs
  BY <1>1 DEF Init
<1>3. StateOK
  <2>1. /\ orders \in [0..(Epochs - 1) -> Seq(Samples) \cup {NoOrder}]
        /\ round \in [Ranks -> 0..Epochs]
        /\ epoch \in [Ranks -> 0..(Epochs - 1)]
        /\ rest \in [Ranks -> Seq(Samples) \cup {NotDrawn}]
        /\ failed \subseteq Ranks
    BY <1>1 DEF Init
  <2>2. <<>> \in Seq(Samples) /\ <<>> \in Seq(Seq(Samples))
    OBVIOUS
  <2>3. /\ batch \in [Ranks -> Seq(Samples)]
        /\ given \in [0..(Epochs - 1) -> [Ranks -> Seq(Seq(Samples))]]
    BY <2>2 DEF Init
  <2> QED  BY <1>1, <2>1, <2>3 DEF StateOK
<1>4. OrdersOK
  BY <1>2 DEF OrdersOK
<1>5. BusyOK
  BY <1>2 DEF BusyOK
<1>6. ASSUME NEW r \in Ranks, NEW e \in 0..(Epochs - 1) PROVE GivenOK(r, e)
  <2>1. Len(<<>>) = 0
    OBVIOUS
  <2> QED  BY <1>1, <1>2, <2>1 DEF GivenOK, Batched
<1>7. InStep
  <2>1. \A r \in Ranks : Trained(r) = 0 * Batches + Len(<<>>) - 0
    BY <1>2 DEF Trained
  <2> QED  BY <2>1 DEF InStep
<1> QED  BY <1>3, <1>4, <1>5, <1>6, <1>7 DEF SamplersInv

\* What the invariant says of the constants of the state.
LEMMA InvFacts ==
  ASSUME SamplersInv
  PROVE  /\ training \in Trainings /\ Size \in Nat /\ R \in Nat \ {0} /\ NumSamples \in Nat
         /\ Epochs \in Nat \ {0} /\ StateOK /\ OrdersOK
         /\ training.tells \in BOOLEAN /\ training.batch_size \in Nat \ {0}
         /\ NoOrder \notin Seq(Samples) /\ NotDrawn \notin Seq(Samples) /\ NotDrawn # <<>>
<1>1. training \in Trainings /\ StateOK /\ OrdersOK
  BY DEF SamplersInv, StateOK
<1>2. Size \in Nat /\ R \in Nat \ {0}
  BY <1>1, BucketsPart, TrainingFacts
<1> QED  BY <1>1, <1>2, Counts, TrainingFacts, NoneIsNone

-----------------------------------------------------------------------------
(* The steps *)

\* iter(dataloader) of one rank: it gets the order that others drew for the same
\* epoch, or draws one, and takes its part of it.
LEMMA DrawStep ==
  ASSUME SamplersInv, NEW r \in Ranks, Draw(r)
  PROVE  SamplersInv'
<1> USE InvFacts
<1> DEFINE x == EpochFor(r)
<1>1. /\ training' = training /\ round' = round /\ batch' = batch /\ given' = given
      /\ rest[r] = NotDrawn /\ epoch' = [epoch EXCEPT ![r] = x]
  BY DEF Draw
<1>2. round[r] \in 0..(Epochs - 1) /\ epoch \in [Ranks -> 0..(Epochs - 1)]
  BY DEF Draw, Trains, StateOK
<1>3. x = Told(round[r]) /\ x \in 0..(Epochs - 1) /\ epoch'[r] = x
  BY <1>1, <1>2 DEF EpochFor, Told, OrdersOK
<1> HIDE DEF x
<1>4. failed' \subseteq Ranks
  BY DEF Draw, StateOK
<1>5. \/ orders' = orders /\ rest' = rest
      \/ \E order : /\ Arranged(order) /\ (orders[x] # NoOrder => order = orders[x])
                    /\ orders' = [orders EXCEPT ![x] = order]
                    /\ \/ rest' = rest
                       \/ /\ ~WrongLength(r, order)
                          /\ rest' = [rest EXCEPT ![r] = Share(Even(order), r)]
  <2>1. CASE DealFails
    BY <2>1 DEF Draw
  <2>2. CASE ~DealFails
    <3>1. PICK order \in OrdersOf(x) :
            /\ orders' = [orders EXCEPT ![x] = order]
            /\ IF WrongLength(r, order)
               THEN failed' = failed \cup {r} /\ UNCHANGED rest
               ELSE rest' = [rest EXCEPT ![r] = Share(Even(order), r)] /\ UNCHANGED failed
      BY <2>2, <1>3 DEF Draw
    <3>2. Arranged(order) /\ (orders[x] # NoOrder => order = orders[x])
      BY <2>2, <1>3, OrdersArranged
    <3> QED  BY <3>1, <3>2
  <2> QED  BY <2>1, <2>2
<1>6. Kept
  BY <1>1, <1>3, <1>5 DEF Kept, StateOK
<1>7. /\ \A e \in 0..(Epochs - 1) : orders'[e] # NoOrder => Arranged(orders'[e])
      /\ orders' \in [0..(Epochs - 1) -> Seq(Samples) \cup {NoOrder}]
      /\ rest' \in [Ranks -> Seq(Samples) \cup {NotDrawn}]
      /\ \A q \in Ranks : q # r => rest'[q] = rest[q]
  <2>1. CASE orders' = orders /\ rest' = rest
    BY <2>1 DEF StateOK, OrdersOK
  <2>2. ASSUME NEW order, Arranged(order), orders' = [orders EXCEPT ![x] = order],
               rest' = rest \/ rest' = [rest EXCEPT ![r] = Share(Even(order), r)]
        PROVE  /\ \A e \in 0..(Epochs - 1) : orders'[e] # NoOrder => Arranged(orders'[e])
               /\ orders' \in [0..(Epochs - 1) -> Seq(Samples) \cup {NoOrder}]
               /\ rest' \in [Ranks -> Seq(Samples) \cup {NotDrawn}]
               /\ \A q \in Ranks : q # r => rest'[q] = rest[q]
    <3>1. order \in Seq(Samples) /\ Even(order) \in Seq(Samples)
      BY <2>2, ArrangedEven
    <3>2. Share(Even(order), r) \in Seq(Samples)
      BY <3>1, ShareWithin
    <3> QED  BY <1>3, <2>2, <3>1, <3>2 DEF StateOK, OrdersOK
  <2> QED  BY <1>5, <2>1, <2>2
<1>8. /\ Ranks' = Ranks /\ Samples' = Samples /\ NumSamples' = NumSamples
      /\ \A s : Arranged(s) => Arranged(s)'
  BY <1>1, SameTraining, SameArranged
<1>9. StateOK'
  <2>1. epoch' \in [Ranks -> 0..(Epochs - 1)]
    BY <1>1, <1>2, <1>3
  <2> QED  BY <1>1, <1>4, <1>7, <1>8, <2>1 DEF StateOK, NoOrder, NotDrawn
<1>10. OrdersOK'
  <2>1. ASSUME NEW e \in 0..(Epochs - 1), orders'[e] # NoOrder PROVE Arranged(orders[e])'
    <3>1. PICK s : s = orders'[e]
      OBVIOUS
    <3>2. Arranged(s)
      BY <1>7, <2>1, <3>1
    <3>3. Arranged(s)'
      BY <1>8, <3>2
    <3> QED  BY <3>1, <3>3 DEF Arranged
  <2>2. ~training.tells => \A q \in Ranks : epoch'[q] = 0
    BY <1>1, <1>2, <1>3 DEF OrdersOK, Told
  <2> QED  BY <1>1, <1>8, <2>1, <2>2 DEF OrdersOK, NoOrder
<1>11. BusyOK'
  BY <1>1, <1>2, <1>7, <1>8 DEF SamplersInv, BusyOK, NotDrawn
<1>12. InStep'
  <2>1. \A q \in Ranks : Trained(q)' = Trained(q)
    BY <1>1, SameTraining DEF Trained
  <2> QED  BY <1>8, <2>1 DEF SamplersInv, InStep
<1>13. ASSUME NEW q \in Ranks, NEW e \in 0..(Epochs - 1) PROVE GivenOK(q, e)'
  <2>1. CASE rest'[q] = rest[q]
    BY <1>1, <1>6, <2>1, RankKept
  <2>2. CASE rest'[q] # rest[q]
    <3>1. PICK order : /\ Arranged(order) /\ orders' = [orders EXCEPT ![x] = order]
                       /\ ~WrongLength(r, order)
                       /\ rest' = [rest EXCEPT ![r] = Share(Even(order), r)]
      BY <1>5, <2>2
    <3>2. q = r /\ rest'[r] = Share(Even(order), r) /\ orders'[x] = order
      BY <1>3, <1>7, <2>2, <3>1 DEF StateOK
    <3>3. GivenOK(r, e)
      BY DEF SamplersInv
    <3>4. /\ order \in Seq(Samples) /\ order # NoOrder
          /\ Share(Even(order), r) \in Seq(Samples) /\ Len(Share(Even(order), r)) = NumSamples
      <4>1. order \in Seq(Samples) /\ Even(order) \in Seq(Samples)
        BY <3>1, ArrangedEven
      <4>2. Len(Share(Even(order), r)) = NumSamples
        BY <3>1 DEF WrongLength
      <4> QED  BY <4>1, <4>2, ShareWithin
    <3>5. Told(e)' = Told(e)
      BY <1>1 DEF Told
    <3>6. e = round[r] => Drawn(e, r)' /\ Part(e, r)' = Share(Even(order), r)
      <4>1. e = round[r] => orders'[Told(e)] = order
        BY <1>3, <3>2
      <4>2. WrongLength(r, order)' = WrongLength(r, order) /\ Share(Even(order), r)' = Share(Even(order), r)
        BY <1>1, SameShare
      <4>3. e = round[r] => Drawn(e, r)' = (order # NoOrder /\ ~WrongLength(r, order)')
        BY <3>5, <4>1 DEF Drawn, NoOrder
      <4>4. e = round[r] => Part(e, r)' = Share(Even(order), r)'
        BY <3>5, <4>1 DEF Part
      <4> QED  BY <3>1, <3>4, <4>2, <4>3, <4>4
    <3>7. e = round[r] => given[e][r] = <<>> /\ batch[r] = <<>>
      BY <1>1, <3>3 DEF GivenOK, SamplersInv, BusyOK
    <3>8. e = round[r] => (Drawn(e, r) /\ rest[r] = SubSeq(Part(e, r), Before(Len(given[e][r]) + 1) + 1, NumSamples))'
      <4>5. Before(1)' = Before(1)
        BY <1>1, SameBatched
      <4>1. Len(<<>>) + 1 = 1 /\ Before(1)' = 0
        BY <4>5, BeforeFacts
      <4>2. e = round[r] => Before(Len(given[e][r]) + 1)' = 0
        <5>1. e = round[r] => Before(Len(given[e][r]) + 1)' = Before(1)'
          BY <1>1, <3>7, <4>1 DEF Before
        <5> QED  BY <4>1, <5>1
      <4>3. SubSeq(Share(Even(order), r), 0 + 1, NumSamples) = Share(Even(order), r)
        BY <3>4, WholeRest
      <4> QED  BY <1>8, <3>2, <3>6, <4>2, <4>3
    <3>9. Batched(given[e][r], Part(e, r))'
      <4>1. PICK bs : bs = given[e][r]
        OBVIOUS
      <4>2. Batched(bs, Part(e, r)) /\ given'[e][r] = bs
        BY <1>1, <3>3, <4>1 DEF GivenOK
      <4>3. bs = <<>> \/ Drawn(e, r)
        BY <1>2, <3>3, <3>7, <4>1 DEF GivenOK
      <4> QED  BY <1>6, <4>2, <4>3, GivenKept
    <3>10. (e < round[r] => Drawn(e, r) /\ NumSamples <= Before(Len(given[e][r]) + 1))'
      <4>1. e < round[r] => Drawn(e, r) /\ NumSamples <= Before(Len(given[e][r]) + 1)
        BY <3>3 DEF GivenOK
      <4>2. PICK k : k = Len(given[e][r]) + 1
        OBVIOUS
      <4>3. Before(Len(given[e][r]) + 1)' = Before(k)' /\ Before(k)' = Before(k)
        BY <1>1, <4>2, SameBatched
      <4>4. Drawn(e, r) => Drawn(e, r)'
        BY <1>6, DrawnKept
      <4> QED  BY <1>1, <1>8, <4>1, <4>2, <4>3, <4>4
    <3>11. (e > round[r] => given[e][r] = <<>>)'
      <4>1. e > round[r] => given[e][r] = <<>>
        BY <3>3 DEF GivenOK
      <4> QED  BY <1>1, <4>1, Zenon
    <3>12. (e = round[r] => given[e][r] = <<>> /\ batch[r] = <<>>)'
      BY <1>1, <3>7
    <3>13. (e = round[r] /\ rest[r] # NotDrawn =>
             /\ Drawn(e, r)
             /\ rest[r] = SubSeq(Part(e, r), Before(Len(given[e][r]) + 1) + 1, NumSamples))'
      BY <1>1, <3>8 DEF NotDrawn
    <3>14. (e = round[r] /\ rest[r] = NotDrawn => given[e][r] = <<>>)'
      BY <3>12 DEF NotDrawn
    <3>15. (e = round[r] /\ batch[r] # <<>> =>
             given[e][r] # <<>> /\ batch[r] = given[e][r][Len(given[e][r])])'
      BY <3>12
    <3>16. GivenOK(r, e)'
      BY <3>9, <3>10, <3>11, <3>13, <3>14, <3>15, Zenon DEF GivenOK
    <3> QED  BY <3>2, <3>16
  <2> QED  BY <2>1, <2>2
<1> QED  BY <1>8, <1>9, <1>10, <1>11, <1>12, <1>13 DEF SamplersInv

\* The step of all ranks at the end of a batch: each trains one batch more.
LEMMA ReduceStep ==
  ASSUME SamplersInv, AllReduce
  PROVE  SamplersInv'
<1>1. /\ training' = training /\ orders' = orders /\ round' = round /\ epoch' = epoch
      /\ rest' = rest /\ failed' = failed /\ given' = given
      /\ batch' = [r \in Ranks |-> <<>>] /\ \A r \in Ranks : batch[r] # <<>>
  BY DEF AllReduce
<1>2. /\ Ranks' = Ranks /\ Samples' = Samples /\ Batches' = Batches
      /\ \A s : Arranged(s) => Arranged(s)'
  BY <1>1, SameTraining, SameArranged
<1>3. Kept
  BY <1>1 DEF Kept
<1>4. StateOK'
  <2>1. <<>> \in Seq(Samples)
    OBVIOUS
  <2>2. batch' \in [Ranks -> Seq(Samples)]
    BY <1>1, <2>1
  <2> QED  BY <1>1, <1>2, <2>2, InvFacts DEF StateOK, NoOrder, NotDrawn
<1>5. OrdersOK'
  <2>1. ASSUME NEW e \in 0..(Epochs - 1), orders'[e] # NoOrder PROVE Arranged(orders[e])'
    <3>1. PICK s : s = orders'[e]
      OBVIOUS
    <3>2. Arranged(s)'
      BY <1>1, <1>2, <2>1, <3>1, InvFacts DEF OrdersOK
    <3> QED  BY <3>1, <3>2 DEF Arranged
  <2> QED  BY <1>1, <1>2, <2>1, InvFacts DEF OrdersOK, NoOrder
<1>6. BusyOK'
  BY <1>1, <1>2 DEF SamplersInv, BusyOK, NotDrawn
<1>7. InStep'
  <2>1. ASSUME NEW r \in Ranks PROVE Trained(r)' = Trained(r) + 1
    <3> DEFINE m == round[r] * Batches
               k == IF round[r] < Epochs THEN Len(given[round[r]][r]) ELSE 0
    <3>1. round[r] \in 0..Epochs /\ Batches \in Nat
      BY InvFacts, BatchCount DEF StateOK
    <3>2. m \in Int /\ k \in Int
      <4>1. round[r] < Epochs => given[round[r]][r] \in Seq(Seq(Samples))
        BY <3>1, InvFacts DEF StateOK
      <4>2. round[r] < Epochs => Len(given[round[r]][r]) \in Nat
        BY <4>1
      <4>3. m \in Int
        BY <3>1
      <4> QED  BY <4>2, <4>3
    <3>3. Trained(r) = m + k - 1
      BY <1>1 DEF Trained
    <3>4. Trained(r)' = m + k - 0
      BY <1>1, <1>2 DEF Trained
    <3> HIDE DEF m, k
    <3> QED  BY <3>2, <3>3, <3>4
  <2> QED  BY <1>2, <2>1 DEF SamplersInv, InStep
<1>8. ASSUME NEW r \in Ranks, NEW e \in 0..(Epochs - 1) PROVE GivenOK(r, e)'
  <2>1. rest'[r] = rest[r] /\ batch'[r] = <<>> /\ round'[r] = round[r] /\ given'[e][r] = given[e][r]
    BY <1>1
  <2> QED  BY <1>3, <2>1, RankKept
<1> QED  BY <1>2, <1>4, <1>5, <1>6, <1>7, <1>8 DEF SamplersInv

\* What a rank that is at its list has been given of it.
LEMMA Midway ==
  ASSUME SamplersInv, NEW r \in Ranks, rest[r] # NotDrawn
  PROVE  /\ round[r] \in 0..(Epochs - 1) /\ Drawn(round[r], r)
         /\ Part(round[r], r) \in Seq(Samples) /\ Len(Part(round[r], r)) = NumSamples
         /\ given[round[r]][r] \in Seq(Seq(Samples))
         /\ GivenOK(r, round[r])
         /\ rest[r] = SubSeq(Part(round[r], r), Before(Len(given[round[r]][r]) + 1) + 1, NumSamples)
<1> DEFINE e == round[r]
<1>1. e \in 0..(Epochs - 1)
  BY InvFacts DEF SamplersInv, StateOK, BusyOK
<1>2. GivenOK(r, e)
  BY <1>1 DEF SamplersInv
<1>3. /\ Drawn(e, r) /\ given[e][r] \in Seq(Seq(Samples))
      /\ rest[r] = SubSeq(Part(e, r), Before(Len(given[e][r]) + 1) + 1, NumSamples)
  BY <1>1, <1>2, InvFacts DEF GivenOK, StateOK
<1> HIDE DEF e
<1>4. Part(e, r) \in Seq(Samples) /\ Len(Part(e, r)) = NumSamples
  BY <1>1, <1>3, InvFacts, PartFacts
<1> QED  BY <1>1, <1>2, <1>3, <1>4 DEF e

\* A rank that has used up its list begins the next epoch: it has been given all
\* of its part.
LEMMA EndStep ==
  ASSUME SamplersInv, NEW r \in Ranks, EndEpoch(r)
  PROVE  SamplersInv'
<1> DEFINE c == round[r]
           K == Len(given[c][r])
<1>1. /\ training' = training /\ orders' = orders /\ epoch' = epoch
      /\ batch' = batch /\ failed' = failed /\ given' = given
      /\ round' = [round EXCEPT ![r] = @ + 1] /\ rest' = [rest EXCEPT ![r] = NotDrawn]
      /\ rest[r] = <<>> /\ batch[r] = <<>>
  BY DEF EndEpoch
<1>2. /\ Ranks' = Ranks /\ Samples' = Samples /\ Batches' = Batches /\ NumSamples' = NumSamples
      /\ \A s : Arranged(s) => Arranged(s)'
  BY <1>1, SameTraining, SameArranged
<1>3. Kept
  BY <1>1 DEF Kept
<1>4. /\ c \in 0..(Epochs - 1) /\ Drawn(c, r) /\ GivenOK(r, c)
      /\ Part(c, r) \in Seq(Samples) /\ Len(Part(c, r)) = NumSamples
      /\ given[c][r] \in Seq(Seq(Samples)) /\ K \in Nat
      /\ rest[r] = SubSeq(Part(c, r), Before(K + 1) + 1, NumSamples)
  <2>1. rest[r] # NotDrawn
    BY <1>1, InvFacts
  <2> QED  BY <2>1, Midway
<1> HIDE DEF c, K
<1>5. NumSamples <= Before(K + 1)
  <2>1. Before(K + 1) \in Nat /\ NumSamples \in Nat
    BY <1>4, BeforeFacts, InvFacts
  <2> QED  BY <1>1, <1>4, <2>1, RestFacts
<1>6. K <= Batches /\ Batches <= K
  <2>1. K = 0 \/ Before(K) < NumSamples
    <3>1. K # 0 => K \in 1..Len(given[c][r])
      BY <1>4 DEF K
    <3> QED  BY <1>4, <3>1 DEF GivenOK, Batched
  <2> QED  BY <1>4, <1>5, <2>1, BatchCount, InvFacts
<1>7. /\ round' = [round EXCEPT ![r] = c + 1] /\ round \in [Ranks -> 0..Epochs]
      /\ rest \in [Ranks -> Seq(Samples) \cup {NotDrawn}] /\ c + 1 \in 0..Epochs /\ c = round[r]
  BY <1>1, <1>4, InvFacts DEF StateOK, c
<1>8. StateOK'
  <2>1. rest' \in [Ranks -> Seq(Samples) \cup {NotDrawn}] /\ round' \in [Ranks -> 0..Epochs]
    BY <1>1, <1>7
  <2> QED  BY <1>1, <1>2, <2>1, InvFacts DEF StateOK, NoOrder, NotDrawn
<1>9. OrdersOK'
  <2>1. ASSUME NEW e \in 0..(Epochs - 1), orders'[e] # NoOrder PROVE Arranged(orders[e])'
    <3>1. PICK s : s = orders'[e]
      OBVIOUS
    <3>2. Arranged(s)'
      BY <1>1, <1>2, <2>1, <3>1, InvFacts DEF OrdersOK
    <3> QED  BY <3>1, <3>2 DEF Arranged
  <2> QED  BY <1>1, <1>2, <2>1, InvFacts DEF OrdersOK, NoOrder
<1>10. BusyOK'
  <2>1. ASSUME NEW q \in Ranks
        PROVE  /\ rest'[q] # NotDrawn => round'[q] < Epochs
               /\ batch'[q] # <<>> => rest'[q] # NotDrawn
    BY <1>1, <1>7 DEF SamplersInv, BusyOK
  <2> QED  BY <1>2, <2>1 DEF BusyOK, NotDrawn
<1>11. ASSUME NEW q \in Ranks PROVE Trained(q)' = Trained(q)
  <2>1. CASE q # r
    <3>1. round'[q] = round[q]
      BY <1>7, <2>1
    <3>2. batch' = batch /\ given' = given /\ Batches' = Batches
      BY <1>1, <1>2
    <3> QED  BY <3>1, <3>2 DEF Trained
  <2>2. CASE q = r
    <3>1. round'[r] = c + 1
      BY <1>7
    <3>2. Trained(r) = c * Batches + K - 0
      <4>1. c < Epochs /\ batch[r] = <<>> /\ round[r] = c
        BY <1>1, <1>4, <1>7, InvFacts
      <4> QED  BY <4>1 DEF Trained, K
    <3>3. c + 1 < Epochs => Len(given[c + 1][r]) = 0
      <4>1. c + 1 < Epochs => c + 1 \in 0..(Epochs - 1) /\ c + 1 > round[r]
        BY <1>4, <1>7, InvFacts
      <4> DEFINE d == c + 1
      <4>2. d < Epochs => d \in 0..(Epochs - 1) /\ d > round[r]
        BY <4>1
      <4> HIDE DEF d
      <4>3. d < Epochs => given[d][r] = <<>>
        BY <4>2 DEF SamplersInv, GivenOK
      <4>4. Len(<<>>) = 0
        OBVIOUS
      <4> QED  BY <4>3, <4>4 DEF d
    <3>4. Trained(r)' = (c + 1) * Batches + 0 - 0
      BY <1>1, <1>2, <3>1, <3>3 DEF Trained
    <3>5. Batches \in Nat /\ K = Batches
      BY <1>4, <1>6, InvFacts, BatchCount
    <3>6. (c + 1) * Batches = c * Batches + Batches /\ c * Batches \in Int
      BY <1>4, <3>5
    <3> QED  BY <2>2, <3>2, <3>4, <3>5, <3>6
  <2> QED  BY <2>1, <2>2
<1>12. InStep'
  BY <1>2, <1>11 DEF SamplersInv, InStep
<1>13. ASSUME NEW q \in Ranks, NEW e \in 0..(Epochs - 1) PROVE GivenOK(q, e)'
  <2>1. CASE q # r
    <3>1. rest'[q] = rest[q] /\ batch'[q] = batch[q] /\ round'[q] = round[q] /\ given'[e][q] = given[e][q]
      BY <1>1, <1>7, <2>1
    <3> QED  BY <1>3, <3>1, RankKept
  <2>2. CASE q = r
    <3>1. GivenOK(r, e) /\ GivenOK(r, c) /\ e \in Int /\ c \in Int
      BY <1>4 DEF SamplersInv
    <3>2. rest'[r] = NotDrawn /\ batch'[r] = <<>> /\ round'[r] = c + 1 /\ given' = given
      BY <1>1, <1>7
    <3>3. e < c + 1 => Drawn(e, r) /\ NumSamples <= Before(Len(given[e][r]) + 1)
      <4>1. e < c \/ e = c \/ ~(e < c + 1)
        BY <3>1
      <4> QED  BY <1>4, <1>5, <1>7, <3>1, <4>1 DEF GivenOK, K
    <3>4. ~(e < c + 1) => given[e][r] = <<>>
      <4>1. ~(e < c + 1) => e > c
        BY <3>1
      <4> QED  BY <1>7, <3>1, <4>1 DEF GivenOK
    <3>5. Batched(given[e][r], Part(e, r))'
      <4>1. PICK bs : bs = given[e][r]
        OBVIOUS
      <4>2. Batched(bs, Part(e, r)) /\ given'[e][r] = bs /\ (bs = <<>> \/ Drawn(e, r))
        BY <3>1, <3>2, <3>3, <3>4, <4>1 DEF GivenOK
      <4> QED  BY <1>3, <4>2, GivenKept, InvFacts
    <3>6. (e < round[r] => Drawn(e, r) /\ NumSamples <= Before(Len(given[e][r]) + 1))'
      <4>1. PICK k : k = Len(given[e][r]) + 1
        OBVIOUS
      <4>2. Before(Len(given[e][r]) + 1)' = Before(k)' /\ Before(k)' = Before(k)
        BY <1>1, <4>1, SameBatched
      <4>3. Drawn(e, r) => Drawn(e, r)'
        BY <1>3, DrawnKept, InvFacts
      <4> QED  BY <1>2, <3>2, <3>3, <4>1, <4>2, <4>3
    <3>7. (e > round[r] => given[e][r] = <<>>)'
      <4>1. e > c + 1 => ~(e < c + 1)
        BY <3>1
      <4> QED  BY <3>2, <3>4, <4>1, Zenon
    <3>8. (e = round[r] /\ rest[r] = NotDrawn => given[e][r] = <<>>)'
      BY <3>1, <3>2, <3>4
    <3>9. ~(rest[r] # NotDrawn)' /\ ~(batch[r] # <<>>)'
      BY <3>2 DEF NotDrawn
    <3>10. GivenOK(r, e)'
      BY <3>5, <3>6, <3>7, <3>8, <3>9, Zenon DEF GivenOK
    <3> QED  BY <2>2, <3>10
  <2> QED  BY <2>1, <2>2
<1> QED  BY <1>2, <1>8, <1>9, <1>10, <1>12, <1>13 DEF SamplersInv

\* next() of one rank's batch sampler: the first of the rest becomes the batch
\* after the ones that were given.
LEMMA TakeStep ==
  ASSUME SamplersInv, NEW r \in Ranks, TakeBatch(r)
  PROVE  SamplersInv'
<1> DEFINE c == round[r]
           bs == given[c][r]
           K == Len(bs)
           a == Before(K + 1)
           k == Min({training.batch_size, Len(rest[r])})
           new == SubSeq(rest[r], 1, k)
           more == SubSeq(rest[r], k + 1, Len(rest[r]))
           s == Part(c, r)
<1>1. /\ training' = training /\ orders' = orders /\ epoch' = epoch
      /\ round' = round /\ failed' = failed
      /\ rest[r] # NotDrawn /\ rest[r] # <<>> /\ batch[r] = <<>>
      /\ batch' = [batch EXCEPT ![r] = new] /\ rest' = [rest EXCEPT ![r] = more]
      /\ given' = [given EXCEPT ![c][r] = Append(@, new)]
  BY DEF TakeBatch
<1>2. /\ Ranks' = Ranks /\ Samples' = Samples /\ Batches' = Batches /\ NumSamples' = NumSamples
      /\ \A z : Arranged(z) => Arranged(z)'
  BY <1>1, SameTraining, SameArranged
<1>3. Kept
  BY <1>1 DEF Kept
<1>4. /\ c \in 0..(Epochs - 1) /\ Drawn(c, r) /\ GivenOK(r, c)
      /\ s \in Seq(Samples) /\ Len(s) = NumSamples
      /\ bs \in Seq(Seq(Samples)) /\ K \in Nat
      /\ rest[r] = SubSeq(s, a + 1, NumSamples)
  BY <1>1, Midway
<1>5. c = round[r] /\ bs = given[c][r] /\ K = Len(bs)
  OBVIOUS
<1> HIDE DEF c, bs, K, s
<1>6. a \in Nat /\ Before(K + 2) = a + training.batch_size
  <2>1. K + 1 \in Nat /\ K + 1 + 1 = K + 2
    BY <1>4
  <2>2. Before(K + 1) \in Nat /\ Before((K + 1) + 1) = Before(K + 1) + training.batch_size
    BY <1>4, <2>1, BeforeFacts, InvFacts
  <2> QED  BY <2>1, <2>2
<1> HIDE DEF a
<1>7. /\ a < NumSamples /\ k = Min({training.batch_size, NumSamples - a}) /\ k \in Nat \ {0}
      /\ new \in Seq(Samples) /\ Len(new) = k
      /\ \A i \in 1..k : new[i] = s[a + i]
      /\ more = SubSeq(s, a + training.batch_size + 1, NumSamples)
  <2>1. rest[r] = SubSeq(s, a + 1, Len(s)) /\ training.batch_size \in Nat \ {0}
    BY <1>4, InvFacts
  <2>2. rest[r] # <<>> /\ k = Min({training.batch_size, Len(rest[r])})
    BY <1>1
  <2> DEFINE b == training.batch_size
  <2>3. /\ a < Len(s) /\ k = Min({b, Len(s) - a}) /\ k \in Nat \ {0}
        /\ SubSeq(rest[r], 1, k) \in Seq(Samples) /\ Len(SubSeq(rest[r], 1, k)) = k
        /\ \A i \in 1..k : SubSeq(rest[r], 1, k)[i] = s[a + i]
        /\ SubSeq(rest[r], k + 1, Len(rest[r])) = SubSeq(s, a + b + 1, Len(s))
    <3> HIDE DEF k
    <3>1. b \in Nat \ {0}
      BY <2>1
    <3> HIDE DEF b
    <3>2. rest[r] = SubSeq(s, a + 1, Len(s)) /\ rest[r] # <<>> /\ k = Min({b, Len(rest[r])})
      BY <2>1, <2>2 DEF b
    <3>3. s \in Seq(Samples) /\ a \in Nat
      BY <1>4, <1>6
    <3> DEFINE rs == rest[r]
    <3>4. rs = SubSeq(s, a + 1, Len(s)) /\ rs # <<>> /\ k = Min({b, Len(rs)})
      BY <3>2
    <3> HIDE DEF rs
    <3>5. Takes(Samples, s, a, b, rs, k)
      BY <3>1, <3>3, <3>4, FirstTaken
    <3> QED  BY <3>5 DEF rs, Takes
  <2> HIDE DEF k
  <2> QED  BY <1>4, <2>3 DEF new, more
<1> HIDE DEF k, new, more
<1> DEFINE bs2 == Append(bs, new)
<1>8. /\ bs2 \in Seq(Seq(Samples)) /\ Len(bs2) = K + 1 /\ bs2 # <<>>
      /\ (\A i \in 1..K : bs2[i] = bs[i]) /\ bs2[K + 1] = new
  <2>1. bs \in Seq(Seq(Samples)) /\ new \in Seq(Samples)
    BY <1>4, <1>7
  <2>2. /\ bs2 \in Seq(Seq(Samples)) /\ Len(bs2) = Len(bs) + 1 /\ bs2 # <<>>
        /\ (\A i \in 1..Len(bs) : bs2[i] = bs[i]) /\ bs2[Len(bs) + 1] = new
    BY <2>1, Appended
  <2> HIDE DEF bs2
  <2> QED  BY <1>5, <2>2
<1> HIDE DEF bs2
<1>9. /\ rest'[r] = more /\ batch'[r] = new /\ given'[c][r] = bs2 /\ new # <<>> /\ more # NotDrawn
      /\ more \in Seq(Samples)
      /\ rest' \in [Ranks -> Seq(Samples) \cup {NotDrawn}] /\ batch' \in [Ranks -> Seq(Samples)]
      /\ given' \in [0..(Epochs - 1) -> [Ranks -> Seq(Seq(Samples))]]
      /\ \A q \in Ranks \ {r} : rest'[q] = rest[q] /\ batch'[q] = batch[q]
      /\ \A q \in Ranks, e \in 0..(Epochs - 1) : e # c \/ q # r => given'[e][q] = given[e][q]
  <2>1. more \in Seq(Samples)
    <3>1. a + training.batch_size \in Nat
      BY <1>6, InvFacts
    <3> QED  BY <1>4, <1>7, <3>1, RestFacts
  <2>2. more # NotDrawn
    BY <2>1, InvFacts
  <2>3. new # <<>>
    <3>1. Len(<<>>) = 0
      OBVIOUS
    <3> QED  BY <1>7, <3>1
  <2>4. /\ rest \in [Ranks -> Seq(Samples) \cup {NotDrawn}] /\ batch \in [Ranks -> Seq(Samples)]
        /\ given \in [0..(Epochs - 1) -> [Ranks -> Seq(Seq(Samples))]]
    BY InvFacts DEF StateOK
  <2>5. /\ rest'[r] = more /\ batch'[r] = new
        /\ rest' \in [Ranks -> Seq(Samples) \cup {NotDrawn}] /\ batch' \in [Ranks -> Seq(Samples)]
        /\ \A q \in Ranks \ {r} : rest'[q] = rest[q] /\ batch'[q] = batch[q]
    BY <1>1, <1>7, <2>1, <2>4
  <2>6. given' = [given EXCEPT ![c] = [given[c] EXCEPT ![r] = bs2]]
    BY <1>1, <1>5, <2>4 DEF bs2
  <2>7. /\ given'[c][r] = bs2
        /\ given' \in [0..(Epochs - 1) -> [Ranks -> Seq(Seq(Samples))]]
        /\ \A q \in Ranks, e \in 0..(Epochs - 1) : e # c \/ q # r => given'[e][q] = given[e][q]
    BY <1>4, <1>8, <2>4, <2>6
  <2> QED  BY <2>1, <2>2, <2>3, <2>5, <2>7
<1>10. StateOK'
  BY <1>1, <1>2, <1>9, InvFacts DEF StateOK, NoOrder, NotDrawn
<1>11. OrdersOK'
  <2>1. ASSUME NEW e \in 0..(Epochs - 1), orders'[e] # NoOrder PROVE Arranged(orders[e])'
    <3>1. PICK z : z = orders'[e]
      OBVIOUS
    <3>2. Arranged(z)'
      BY <1>1, <1>2, <2>1, <3>1, InvFacts DEF OrdersOK
    <3> QED  BY <3>1, <3>2 DEF Arranged
  <2> QED  BY <1>1, <1>2, <2>1, InvFacts DEF OrdersOK, NoOrder
<1>12. BusyOK'
  <2>1. ASSUME NEW q \in Ranks
        PROVE  /\ rest'[q] # NotDrawn => round'[q] < Epochs
               /\ batch'[q] # <<>> => rest'[q] # NotDrawn
    BY <1>1, <1>9 DEF SamplersInv, BusyOK
  <2> QED  BY <1>2, <2>1 DEF BusyOK, NotDrawn
<1>13. ASSUME NEW q \in Ranks PROVE Trained(q)' = Trained(q)
  <2>1. CASE q # r
    <3>1. batch'[q] = batch[q] /\ round'[q] = round[q] /\ Batches' = Batches
      BY <1>1, <1>2, <1>9, <2>1
    <3>2. round[q] < Epochs => given'[round[q]][q] = given[round[q]][q]
      <4>1. round[q] < Epochs => round[q] \in 0..(Epochs - 1)
        BY InvFacts DEF StateOK
      <4> QED  BY <1>9, <2>1, <4>1
    <3> QED  BY <3>1, <3>2 DEF Trained
  <2>2. CASE q = r
    <3>1. c < Epochs
      BY <1>4, InvFacts
    <3>2. Trained(r) = c * Batches + K - 0
      BY <1>1, <1>5, <3>1 DEF Trained
    <3>3. Trained(r)' = c * Batches + (K + 1) - 1
      <4>1. round'[r] = c /\ batch'[r] # <<>> /\ Len(given'[c][r]) = K + 1 /\ Batches' = Batches
        BY <1>1, <1>2, <1>5, <1>8, <1>9
      <4> QED  BY <3>1, <4>1 DEF Trained
    <3>4. c * Batches \in Int /\ K \in Int
      BY <1>4, InvFacts, BatchCount
    <3> QED  BY <2>2, <3>2, <3>3, <3>4
  <2> QED  BY <2>1, <2>2
<1>14. InStep'
  BY <1>2, <1>13 DEF SamplersInv, InStep
<1>15. Batched(bs2, s)
  <2> SUFFICES ASSUME NEW l \in 1..(K + 1)
               PROVE  /\ Before(l) < NumSamples
                      /\ Len(bs2[l]) = Min({training.batch_size, NumSamples - Before(l)})
                      /\ \A i \in 1..Len(bs2[l]) : bs2[l][i] = s[Before(l) + i]
    BY <1>8 DEF Batched
  <2>1. CASE l = K + 1
    <3>1. Before(l) = a /\ bs2[l] = new
      BY <1>8, <2>1 DEF a
    <3> QED  BY <1>7, <3>1
  <2>2. CASE l # K + 1
    <3>1. l \in 1..K
      BY <1>4, <2>2
    <3>2. Batched(bs, s)
      BY <1>4, <1>5 DEF GivenOK, s
    <3>3. /\ Before(l) < NumSamples
          /\ Len(bs[l]) = Min({training.batch_size, NumSamples - Before(l)})
          /\ \A i \in 1..Len(bs[l]) : bs[l][i] = s[Before(l) + i]
      <4>1. l \in 1..Len(bs)
        BY <1>5, <3>1
      <4> QED  BY <3>2, <4>1, Zenon DEF Batched
    <3>4. bs2[l] = bs[l]
      BY <1>8, <3>1
    <3> QED  BY <3>3, <3>4
  <2> QED  BY <2>1, <2>2
<1>16. ASSUME NEW q \in Ranks, NEW e \in 0..(Epochs - 1) PROVE GivenOK(q, e)'
  <2>1. CASE q # r
    <3>1. rest'[q] = rest[q] /\ batch'[q] = batch[q] /\ round'[q] = round[q] /\ given'[e][q] = given[e][q]
      BY <1>1, <1>9, <2>1
    <3> QED  BY <1>3, <3>1, RankKept
  <2>2. CASE q = r /\ e = c
    <3>1. Drawn(e, r)' /\ Part(e, r)' = s
      <4>1. PICK d : d = c
        OBVIOUS
      <4>2. Drawn(d, r)' /\ Part(d, r)' = Part(d, r)
        BY <1>3, <1>4, <4>1, DrawnKept, InvFacts
      <4>3. Drawn(e, r)' /\ Part(e, r)' = Part(e, r)
        BY <2>2, <4>1, <4>2
      <4> QED  BY <2>2, <4>3 DEF s
    <3>2. given'[e][r] = bs2 /\ round'[r] = e /\ rest'[r] = more /\ batch'[r] = new
      BY <1>1, <1>5, <1>9, <2>2
    <3>3. Batched(given[e][r], Part(e, r))'
      <4>1. PICK z, w : z = s /\ w = bs2
        OBVIOUS
      <4>2. Batched(w, z)' = Batched(w, z)
        BY <1>1, SameBatched
      <4>3. Batched(given[e][r], Part(e, r))' = Batched(w, z)'
        BY <2>2, <3>1, <3>2, <4>1 DEF Batched
      <4> QED  BY <1>15, <4>1, <4>2, <4>3
    <3>4. Before(Len(given[e][r]) + 1)' = a + training.batch_size
      <4>1. PICK l : l = K + 2
        OBVIOUS
      <4>2. Len(given'[e][r]) + 1 = l
        BY <1>4, <1>8, <3>2, <4>1
      <4>3. Before(Len(given[e][r]) + 1)' = Before(l)' /\ Before(l)' = Before(l)
        BY <1>1, <4>2, SameBatched
      <4> QED  BY <1>6, <4>1, <4>3
    <3>5. ~(e < round[r])' /\ ~(e > round[r])'
      BY <3>2
    <3>6. (rest[r] # NotDrawn /\ given[e][r] # <<>>)'
      BY <1>8, <1>9, <3>2 DEF NotDrawn
    <3>7. (Drawn(e, r) /\ rest[r] = SubSeq(Part(e, r), Before(Len(given[e][r]) + 1) + 1, NumSamples))'
      BY <1>2, <1>7, <2>2, <3>1, <3>2, <3>4
    <3>8. (batch[r] = given[e][r][Len(given[e][r])])'
      BY <1>8, <3>2
    <3>9. GivenOK(r, e)'
      BY <3>3, <3>5, <3>6, <3>7, <3>8, Zenon DEF GivenOK
    <3> QED  BY <2>2, <3>9
  <2>3. CASE q = r /\ e # c
    <3>1. GivenOK(r, e) /\ e \in Int /\ c \in Int
      BY <1>4 DEF SamplersInv
    <3>2. given'[e][r] = given[e][r] /\ round'[r] = c
      BY <1>1, <1>5, <1>9, <2>3
    <3>3. /\ e < c => Drawn(e, r) /\ NumSamples <= Before(Len(given[e][r]) + 1)
          /\ e > c => given[e][r] = <<>>
      BY <1>5, <3>1 DEF GivenOK
    <3>4. Batched(given[e][r], Part(e, r))'
      <4>1. PICK w : w = given[e][r]
        OBVIOUS
      <4>2. e < c \/ e > c
        BY <2>3, <3>1
      <4>3. Batched(w, Part(e, r)) /\ given'[e][r] = w /\ (w = <<>> \/ Drawn(e, r))
        BY <3>1, <3>2, <3>3, <4>1, <4>2 DEF GivenOK
      <4> QED  BY <1>3, <4>3, GivenKept, InvFacts
    <3>5. (e < round[r] => Drawn(e, r) /\ NumSamples <= Before(Len(given[e][r]) + 1))'
      <4>1. PICK l : l = Len(given[e][r]) + 1
        OBVIOUS
      <4>2. Before(Len(given[e][r]) + 1)' = Before(l)' /\ Before(l)' = Before(l)
        BY <1>1, <3>2, <4>1, SameBatched
      <4>3. Drawn(e, r) => Drawn(e, r)'
        BY <1>3, DrawnKept, InvFacts
      <4> QED  BY <1>2, <3>2, <3>3, <4>1, <4>2, <4>3
    <3>6. (e > round[r] => given[e][r] = <<>>)'
      BY <3>2, <3>3, Zenon
    <3>7. ~(e = round[r])'
      BY <2>3, <3>2
    <3>8. GivenOK(r, e)'
      BY <3>4, <3>5, <3>6, <3>7, Zenon DEF GivenOK
    <3> QED  BY <2>3, <3>8
  <2> QED  BY <2>1, <2>2, <2>3
<1> QED  BY <1>2, <1>10, <1>11, <1>12, <1>14, <1>16 DEF SamplersInv

\* A step that changes nothing.
LEMMA NoStep ==
  ASSUME SamplersInv, UNCHANGED vars
  PROVE  SamplersInv'
<1>1. /\ training' = training /\ orders' = orders /\ round' = round /\ epoch' = epoch
      /\ rest' = rest /\ batch' = batch /\ failed' = failed /\ given' = given
  BY DEF vars
<1>2. /\ Ranks' = Ranks /\ Samples' = Samples /\ Batches' = Batches
      /\ \A s : Arranged(s) => Arranged(s)'
  BY <1>1, SameTraining, SameArranged
<1>3. StateOK'
  BY <1>1, <1>2, InvFacts DEF StateOK, NoOrder, NotDrawn
<1>4. OrdersOK'
  <2>1. ASSUME NEW e \in 0..(Epochs - 1), orders'[e] # NoOrder PROVE Arranged(orders[e])'
    <3>1. PICK s : s = orders'[e]
      OBVIOUS
    <3>2. Arranged(s)'
      BY <1>1, <1>2, <2>1, <3>1, InvFacts DEF OrdersOK
    <3> QED  BY <3>1, <3>2 DEF Arranged
  <2> QED  BY <1>1, <1>2, <2>1, InvFacts DEF OrdersOK, NoOrder
<1>5. BusyOK'
  BY <1>1, <1>2 DEF SamplersInv, BusyOK, NotDrawn
<1>6. InStep'
  <2>1. \A r \in Ranks : Trained(r)' = Trained(r)
    BY <1>1, <1>2 DEF Trained
  <2> QED  BY <1>2, <2>1 DEF SamplersInv, InStep
<1>7. ASSUME NEW r \in Ranks, NEW e \in 0..(Epochs - 1) PROVE GivenOK(r, e)'
  BY <1>1, RankKept DEF Kept
<1> QED  BY <1>2, <1>3, <1>4, <1>5, <1>6, <1>7 DEF SamplersInv

-----------------------------------------------------------------------------
(* The theorems *)

\* In every training the model allows, and for every shuffle the generators can
\* make, each rank has been given the batches of its part in order and the ranks
\* are in step (dynamic_sampler.py, agent_dataset.py: __iter__ of the samplers).
THEOREM SamplersInvariant == Spec => []SamplersInv
<1>1. Init => SamplersInv
  BY InitInv
<1>2. SamplersInv /\ [Next]_vars => SamplersInv'
  <2> SUFFICES ASSUME SamplersInv, [Next]_vars PROVE SamplersInv'
    OBVIOUS
  <2>1. CASE Work
    BY <2>1, DrawStep, TakeStep, EndStep, ReduceStep DEF Work
  <2>2. CASE UNCHANGED vars
    BY <2>2, NoStep
  <2> QED  BY <2>1, <2>2 DEF Next, Over
<1> QED  BY <1>1, <1>2, PTL DEF Spec

\* The type invariant the runs check holds for every training.
THEOREM TypeCorrect == Spec => []SamplersTypeOK
<1>1. SamplersInv => SamplersTypeOK
  <2> SUFFICES ASSUME SamplersInv PROVE SamplersTypeOK
    OBVIOUS
  <2>1. StateOK
    BY InvFacts
  <2>2. \A s \in Seq(Samples) : ToSet(s) \subseteq Samples
    BY DEF ToSet
  <2>3. ASSUME NEW r \in Ranks, rest[r] # NotDrawn
        PROVE  Len(rest[r]) <= NumSamples
    <3> DEFINE s == Part(round[r], r)
               a == Before(Len(given[round[r]][r]) + 1)
    <3>1. /\ s \in Seq(Samples) /\ Len(s) = NumSamples /\ rest[r] = SubSeq(s, a + 1, NumSamples)
          /\ given[round[r]][r] \in Seq(Seq(Samples))
      BY <2>3, Midway
    <3>2. a \in Nat /\ NumSamples \in Nat
      <4>1. Len(given[round[r]][r]) \in Nat
        BY <3>1
      <4> QED  BY <4>1, InvFacts, BeforeFacts
    <3> HIDE DEF s, a
    <3>3. Len(SubSeq(s, a + 1, Len(s))) = IF a <= Len(s) THEN Len(s) - a ELSE 0
      BY <3>1, <3>2, RestFacts
    <3> QED  BY <3>1, <3>2, <3>3
  <2> QED  BY <2>1, <2>2, <2>3 DEF StateOK, SamplersTypeOK
<1> QED  BY <1>1, SamplersInvariant, PTL

-----------------------------------------------------------------------------
(* Ranks that train together *)

\* The ranks that all hold a batch hold the same batch of the same epoch.
LEMMA AllInStep ==
  ASSUME SamplersInv, \A r \in Ranks : batch[r] # <<>>, NEW r \in Ranks, NEW q \in Ranks
  PROVE  round[r] = round[q] /\ Len(given[round[r]][r]) = Len(given[round[q]][q])
<1>1. Batches \in Nat /\ Epochs \in Nat
  BY InvFacts, BatchCount
<1> DEFINE K(x) == Len(given[round[x]][x])
<1>2. ASSUME NEW x \in Ranks
      PROVE  /\ round[x] \in 0..(Epochs - 1) /\ K(x) \in 1..Batches
             /\ Trained(x) = round[x] * Batches + K(x) - 1
  <2>1. rest[x] # NotDrawn /\ batch[x] # <<>>
    BY DEF SamplersInv, BusyOK
  <2>2. /\ round[x] \in 0..(Epochs - 1) /\ given[round[x]][x] \in Seq(Seq(Samples))
        /\ GivenOK(x, round[x])
    BY <2>1, Midway
  <2>3. given[round[x]][x] # <<>> /\ Batched(given[round[x]][x], Part(round[x], x))
    BY <2>1, <2>2 DEF GivenOK
  <2>4. K(x) \in Nat \ {0}
    BY <2>2, <2>3
  <2>5. Before(K(x)) < NumSamples
    <3>1. K(x) \in 1..Len(given[round[x]][x])
      BY <2>4
    <3> QED  BY <2>3, <3>1 DEF Batched
  <2>6. K(x) <= Batches
    BY <2>4, <2>5, InvFacts, BatchCount
  <2>7. round[x] < Epochs
    BY <1>1, <2>2
  <2>8. Trained(x) = round[x] * Batches + K(x) - 1
    BY <2>1, <2>7 DEF Trained
  <2> QED  BY <1>1, <2>2, <2>4, <2>6, <2>8
<1>3. Trained(r) = Trained(q)
  BY DEF SamplersInv, InStep
<1>4. round[r] * Batches + K(r) = round[q] * Batches + K(q)
  <2>1. round[r] * Batches \in Int /\ round[q] * Batches \in Int /\ K(r) \in Int /\ K(q) \in Int
    BY <1>1, <1>2
  <2>2. round[r] * Batches + K(r) - 1 = round[q] * Batches + K(q) - 1
    BY <1>2, <1>3
  <2> HIDE DEF K
  <2> QED  BY <2>1, <2>2
<1>5. /\ round[r] \in 0..(Epochs - 1) /\ K(r) \in 1..Batches
      /\ round[q] \in 0..(Epochs - 1) /\ K(q) \in 1..Batches
  BY <1>2
<1>6. round[r] = round[q] /\ K(r) = K(q)
  <2>1. PICK a, k, b, l : a = round[r] /\ k = K(r) /\ b = round[q] /\ l = K(q)
    OBVIOUS
  <2> HIDE DEF K
  <2>2. a * Batches + k = b * Batches + l
    BY <1>4, <2>1
  <2>3. a \in 0..(Epochs - 1) /\ k \in 1..Batches /\ b \in 0..(Epochs - 1) /\ l \in 1..Batches
    BY <1>5, <2>1
  <2>4. a = b /\ k = l
    BY <1>1, <2>2, <2>3, CellOnce
  <2> QED  BY <2>1, <2>4
<1> QED  BY <1>6 DEF K

\* Ranks that train a batch together hold samples of one bucket, at the same
\* places of their batches, under the conditions SameBucket names: what the
\* dynamic batch samplers are for (dynamic_sampler.py).
THEOREM OneBucket == Spec => []SameBucket
<1>1. SamplersInv => SameBucket
  <2> SUFFICES ASSUME SamplersInv, training.batch_size = 1,
                      training.shuffle \/ training.sampler # "ReplicasDistributedSampler",
                      \A b \in DOMAIN Buckets : Fits(Buckets[b]),
                      \A r \in Ranks : batch[r] # <<>>
               PROVE  \E b \in DOMAIN Buckets : \A r \in Ranks : batch[r][1] \in ToSet(Buckets[b])
    BY DEF SameBucket
  <2>1. 0 \in Ranks
    BY InvFacts DEF Ranks
  <2> DEFINE c == round[0]
             K == Len(given[c][0])
             order == orders[Told(c)]
  <2>2. ASSUME NEW r \in Ranks
        PROVE  /\ round[r] = c /\ Len(given[c][r]) = K /\ c \in 0..(Epochs - 1)
               /\ Drawn(c, r) /\ GivenOK(r, c) /\ K \in Nat \ {0}
    <3>1. round[r] = c /\ Len(given[c][r]) = K
      BY <2>1, AllInStep
    <3>2. rest[r] # NotDrawn
      BY DEF SamplersInv, BusyOK
    <3>3. /\ c \in 0..(Epochs - 1) /\ Drawn(c, r) /\ GivenOK(r, c)
          /\ given[c][r] \in Seq(Seq(Samples))
      BY <3>1, <3>2, Midway
    <3>4. given[c][r] # <<>>
      BY <3>1, <3>3 DEF GivenOK
    <3>5. K \in Nat \ {0}
      BY <3>1, <3>3, <3>4
    <3> QED  BY <3>1, <3>3, <3>5
  <2>3. Arranged(order)
    <3>1. Drawn(c, 0) /\ Told(c) \in 0..(Epochs - 1)
      BY <2>1, <2>2, InvFacts DEF Told
    <3> QED  BY <3>1, InvFacts DEF OrdersOK, Drawn
  <2>4. Level(order)
    BY <2>3 DEF Arranged, AllFit
  <2>5. Before(K) = K - 1 /\ K \in Nat \ {0} /\ NumSamples \in Nat
    <3>1. K \in Nat \ {0} /\ NumSamples \in Nat
      BY <2>1, <2>2, InvFacts
    <3> HIDE DEF K
    <3>2. Before(K) = (K - 1) * 1
      BY DEF Before
    <3> QED  BY <3>1, <3>2
  <2> HIDE DEF c, K
  <2>6. ASSUME NEW r \in Ranks
        PROVE  K \in 1..NumSamples /\ batch[r][1] = Share(Even(order), r)[K]
    <3> DEFINE bs == given[c][r]
               s == Part(c, r)
    <3>1. /\ Len(bs) = K /\ K \in Nat \ {0} /\ GivenOK(r, c) /\ c = round[r]
          /\ s = Share(Even(order), r)
      BY <2>2 DEF Part
    <3>2. Batched(bs, s) /\ batch[r] = bs[K]
      BY <3>1 DEF GivenOK
    <3> HIDE DEF bs, s, order
    <3>3. K \in 1..Len(bs)
      BY <3>1
    <3>4. /\ Before(K) < NumSamples /\ Len(bs[K]) = Min({training.batch_size, NumSamples - Before(K)})
          /\ \A i \in 1..Len(bs[K]) : bs[K][i] = s[Before(K) + i]
      BY <3>2, <3>3 DEF Batched
    <3>5. K <= NumSamples
      BY <2>5, <3>4
    <3>6. Len(bs[K]) = 1
      <4> DEFINE m == NumSamples - Before(K)
      <4>1. m \in Nat \ {0}
        BY <2>5, <3>5
      <4> HIDE DEF m
      <4>2. Min({1, m}) = 1
        BY <4>1, MinPair
      <4> QED  BY <3>4, <4>2 DEF m
    <3>7. bs[K][1] = s[Before(K) + 1] /\ Before(K) + 1 = K
      BY <2>5, <3>4, <3>6
    <3> QED  BY <2>5, <3>1, <3>2, <3>5, <3>7
  <2>7. K \in 1..NumSamples
    BY <2>1, <2>6
  <2>8. PICK b \in 1..Len(Buckets) : \A r \in Ranks :
               \E l \in 1..Len(Buckets[b]) : Share(Even(order), r)[K] = Buckets[b][l]
    BY <2>4, <2>7 DEF Level
  <2>9. DOMAIN Buckets = 1..Len(Buckets) /\ Buckets[b] \in Seq(Nat)
    BY InvFacts, TrainingFacts
  <2>10. ASSUME NEW r \in Ranks PROVE batch[r][1] \in ToSet(Buckets[b])
    <3>1. PICK l \in 1..Len(Buckets[b]) : batch[r][1] = Buckets[b][l]
      BY <2>6, <2>8
    <3> QED  BY <2>9, <3>1 DEF ToSet
  <2> QED  BY <2>9, <2>10
<1> QED  BY <1>1, SamplersInvariant, PTL

-----------------------------------------------------------------------------
(* Each sample in each epoch *)

\* The places of sample s in a whole.
Positions(whole, s) == {p \in 1..TotalSize : whole[p] = s}

\* When an epoch is over, the whole of its order has the size it should have,
\* and every rank has been given all of its part.
LEMMA EpochOver ==
  ASSUME SamplersInv, NEW e \in 0..(Epochs - 1), \A r \in Ranks : round[r] > e
  PROVE  /\ Arranged(orders[Told(e)]) /\ Len(Even(orders[Told(e)])) = TotalSize
         /\ \A r \in Ranks :
              /\ given[e][r] \in Seq(Seq(Samples)) /\ Batched(given[e][r], Part(e, r))
              /\ NumSamples <= Before(Len(given[e][r]) + 1)
              /\ \A k \in 1..NumSamples : Part(e, r)[k] = Even(orders[Told(e)])[Place(r, k)]
<1> DEFINE order == orders[Told(e)]
<1>1. Told(e) \in 0..(Epochs - 1) /\ 0 \in Ranks
  BY InvFacts DEF Told, Ranks
<1>2. ASSUME NEW r \in Ranks
      PROVE  /\ Drawn(e, r) /\ NumSamples <= Before(Len(given[e][r]) + 1)
             /\ given[e][r] \in Seq(Seq(Samples)) /\ Batched(given[e][r], Part(e, r))
  <2>1. GivenOK(r, e) /\ round[r] \in 0..Epochs /\ round[r] > e
    BY InvFacts DEF SamplersInv, StateOK
  <2>2. e < round[r]
    BY <2>1
  <2>3. given[e][r] \in Seq(Seq(Samples))
    BY InvFacts DEF StateOK
  <2> QED  BY <2>1, <2>2, <2>3 DEF GivenOK
<1>3. Arranged(order)
  BY <1>1, <1>2, InvFacts DEF OrdersOK, Drawn
<1>4. \A r \in Ranks : ~WrongLength(r, order) /\ Part(e, r) = Share(Even(order), r)
  BY <1>2 DEF Drawn, Part
<1> HIDE DEF order
<1>5. /\ Even(order) \in Seq(Samples) /\ TotalSize \in Nat /\ Size \in Nat /\ R \in Nat \ {0}
      /\ NumSamples \in Nat
      /\ Len(Even(order)) = IF TotalSize <= 2 * Size THEN TotalSize ELSE 2 * Size
  BY <1>3, InvFacts, ArrangedEven
<1>6. Len(Even(order)) = TotalSize
  <2>1. Len(Even(order)) <= TotalSize
    BY <1>5
  <2>2. /\ training.sampler # "AgentDynamicBatchSampler" => Len(Even(order)) = TotalSize
        /\ \A r \in Ranks : Len(Share(Even(order), r)) = NumSamples
    BY <1>1, <1>4 DEF WrongLength
  <2> QED  BY <1>5, <2>1, <2>2, WholeSize
<1>7. \A r \in Ranks : \A k \in 1..NumSamples : Share(Even(order), r)[k] = Even(order)[Place(r, k)]
  BY <1>5, <1>6, ShareFacts
<1> QED  BY <1>2, <1>3, <1>4, <1>6, <1>7 DEF order

\* The k-th batch of a rank and its places in the whole.
LEMMA BatchPlaces ==
  ASSUME training \in Trainings, NumSamples \in Nat, NEW bs, NEW s,
         bs \in Seq(Seq(Samples)), Batched(bs, s),
         NEW k \in 1..Len(bs)
  PROVE  /\ \A i \in 1..Len(bs[k]) :
              /\ i \in 1..training.batch_size /\ Before(k) + i \in 1..NumSamples
              /\ bs[k][i] = s[Before(k) + i]
         /\ \A i \in 1..training.batch_size :
              Before(k) + i <= NumSamples => i \in 1..Len(bs[k])
<1> DEFINE size == training.batch_size
           m == NumSamples - Before(k)
           n == Len(bs[k])
<1>1. size \in Nat \ {0}
  BY TrainingFacts
<1>2. Before(k) \in Nat
  <2> DEFINE j == k - 1
  <2>1. j \in Nat /\ j + 1 = k
    BY SMT
  <2> HIDE DEF j
  <2> QED  BY <2>1, BeforeFacts
<1>3. /\ Before(k) < NumSamples /\ n = Min({size, m})
      /\ \A i \in 1..n : bs[k][i] = s[Before(k) + i]
  BY DEF Batched
<1>4. m \in Nat \ {0} /\ NumSamples = Before(k) + m
  BY <1>2, <1>3
<1> HIDE DEF m, size, n
<1>5. n = IF size <= m THEN size ELSE m
  BY <1>1, <1>3, <1>4, MinPair
<1>6. \A i \in 1..n : i \in 1..size /\ Before(k) + i \in 1..NumSamples
  BY <1>1, <1>2, <1>4, <1>5
<1>7. \A i \in 1..size : Before(k) + i <= NumSamples => i \in 1..n
  BY <1>1, <1>2, <1>4, <1>5
<1> QED  BY <1>3, <1>6, <1>7 DEF n, size

\* Batch n + 1 comes after n batches.
LEMMA BeforeNext ==
  ASSUME NEW n \in Nat PROVE Before(n + 1) = n * training.batch_size
<1> DEFINE m == n + 1
           size == training.batch_size
<1>1. m - 1 = n
  OBVIOUS
<1>2. Before(m) = (m - 1) * size
  BY Zenon DEF Before
<1> HIDE DEF m, size
<1>3. Before(m) = n * size
  BY <1>1, <1>2
<1> QED  BY <1>3 DEF m, size

\* When an epoch is over, a sample has been used once for each place it has in
\* the whole: the ranks' batches number the places once each.
LEMMA UsesPlaces ==
  ASSUME SamplersInv, NEW e \in 0..(Epochs - 1), \A r \in Ranks : round[r] > e, NEW s
  PROVE  Times(e, s) = Cardinality(Positions(Even(orders[Told(e)]), s))
<1> DEFINE whole == Even(orders[Told(e)])
           size == training.batch_size
           us == Uses(e, s)
           ps == Positions(whole, s)
           j(u) == Before(u[2]) + u[3]
           f == [u \in us |-> Place(u[1], j(u))]
<1>1. /\ size \in Nat \ {0} /\ NumSamples \in Nat /\ R \in Nat \ {0} /\ training \in Trainings
      /\ TotalSize \in Nat /\ TotalSize = NumSamples * R /\ NumSamples <= TotalSize
  <2>1. /\ size \in Nat \ {0} /\ NumSamples \in Nat /\ R \in Nat \ {0} /\ training \in Trainings
        /\ TotalSize \in Nat /\ TotalSize = NumSamples * R
    BY InvFacts, Counts
  <2>2. 1 * NumSamples <= R * NumSamples /\ R * NumSamples = NumSamples * R
    BY <2>1, TimesGrows
  <2> QED  BY <2>1, <2>2
<1> HIDE DEF whole, size
<1>2. ASSUME NEW r \in Ranks
      PROVE  /\ given[e][r] \in Seq(Seq(Samples)) /\ Batched(given[e][r], Part(e, r))
             /\ NumSamples <= Before(Len(given[e][r]) + 1)
             /\ \A k \in 1..NumSamples : Part(e, r)[k] = whole[Place(r, k)]
  BY EpochOver DEF whole
<1>3. ASSUME NEW u \in us
      PROVE  /\ u = <<u[1], u[2], u[3]>> /\ u[1] \in Ranks
             /\ u[2] \in 1..Len(given[e][u[1]]) /\ u[3] \in 1..size
             /\ j(u) \in 1..NumSamples /\ whole[Place(u[1], j(u))] = s
  <2>1. /\ u \in Ranks \X (1..TotalSize) \X (1..training.batch_size)
        /\ u[2] \in DOMAIN given[e][u[1]] /\ u[3] \in DOMAIN given[e][u[1]][u[2]]
        /\ given[e][u[1]][u[2]][u[3]] = s
    BY DEF Uses
  <2>2. u = <<u[1], u[2], u[3]>> /\ u[1] \in Ranks
    BY <2>1
  <2> DEFINE r == u[1]
             k == u[2]
             i == u[3]
             bs == given[e][r]
  <2>3. bs \in Seq(Seq(Samples)) /\ Batched(bs, Part(e, r)) /\ r \in Ranks
    BY <1>2, <2>2
  <2>4. k \in DOMAIN bs /\ i \in DOMAIN bs[k] /\ bs[k][i] = s
    BY <2>1
  <2> HIDE DEF r, k, i, bs
  <2>5. k \in 1..Len(bs)
    BY <2>3, <2>4
  <2>6. i \in 1..Len(bs[k])
    BY <2>3, <2>4, <2>5
  <2>7. i \in 1..size /\ Before(k) + i \in 1..NumSamples /\ bs[k][i] = Part(e, r)[Before(k) + i]
    BY <1>1, <2>3, <2>5, <2>6, BatchPlaces DEF size
  <2>8. Part(e, r)[Before(k) + i] = whole[Place(r, Before(k) + i)]
    BY <1>2, <2>3, <2>7
  <2> QED  BY <2>2, <2>4, <2>5, <2>7, <2>8 DEF r, k, i, bs
<1>4. f \in [us -> ps]
  <2> SUFFICES ASSUME NEW u \in us PROVE Place(u[1], j(u)) \in ps
    OBVIOUS
  <2>1. Place(u[1], j(u)) \in 1..TotalSize
    BY <1>1, <1>3, Places
  <2> QED  BY <1>3, <2>1 DEF Positions
<1>5. ASSUME NEW u \in us, NEW v \in us, f[u] = f[v] PROVE u = v
  <2>1. Place(u[1], j(u)) = Place(v[1], j(v))
    BY <1>5
  <2>2. u[1] = v[1] /\ j(u) = j(v)
    <3>1. /\ u[1] \in Ranks /\ v[1] \in Ranks /\ j(u) \in 1..NumSamples /\ j(v) \in 1..NumSamples
      BY <1>3
    <3> HIDE DEF j
    <3> QED  BY <1>1, <2>1, <3>1, Places
  <2> DEFINE x == u[2] - 1
             y == v[2] - 1
             n == Len(given[e][u[1]])
  <2>3. n \in Nat /\ u[2] \in 1..n /\ v[2] \in 1..n /\ u[3] \in 1..size /\ v[3] \in 1..size
    BY <1>2, <1>3, <2>2
  <2>4. x \in 0..(n - 1) /\ y \in 0..(n - 1)
    BY <2>3
  <2>5. Before(u[2]) = x * size /\ Before(v[2]) = y * size
    BY DEF Before, size
  <2>6. x * size + u[3] = y * size + v[3]
    BY <2>2, <2>5
  <2> HIDE DEF x, y, n, j
  <2>7. PICK a, b, c, d : a = x /\ b = u[3] /\ c = y /\ d = v[3]
    OBVIOUS
  <2>8. a = c /\ b = d
    <3>1. /\ a \in 0..(n - 1) /\ c \in 0..(n - 1) /\ b \in 1..size /\ d \in 1..size
          /\ a * size + b = c * size + d /\ n \in Nat /\ size \in Nat
      BY <1>1, <2>3, <2>4, <2>6, <2>7
    <3> QED  BY <3>1, CellOnce
  <2>9. u[2] = v[2]
    BY <2>3, <2>7, <2>8 DEF x, y
  <2>10. u = <<u[1], u[2], u[3]>> /\ v = <<v[1], v[2], v[3]>>
    BY <1>3
  <2> QED  BY <2>2, <2>7, <2>8, <2>9, <2>10
<1>6. ASSUME NEW p \in ps PROVE \E u \in us : f[u] = p
  <2>1. p \in 1..TotalSize /\ whole[p] = s
    BY DEF Positions
  <2>2. PICK r \in Ranks : \E l \in 1..NumSamples : p = Place(r, l)
    BY <1>1, <2>1, Places
  <2>3. PICK l \in 1..NumSamples : p = Place(r, l)
    BY <2>2
  <2> DEFINE bs == given[e][r]
             n == Len(bs)
  <2>4. /\ bs \in Seq(Seq(Samples)) /\ n \in Nat /\ Batched(bs, Part(e, r))
        /\ NumSamples <= Before(n + 1) /\ Part(e, r)[l] = whole[p]
    BY <1>2, <2>3
  <2> HIDE DEF bs
  <2>5. Before(n + 1) = n * size
    <3> HIDE DEF n
    <3> QED  BY <2>4, BeforeNext DEF size
  <2>6. HasCell(l, n, size)
    <3>1. l \in 1..(n * size)
      <4>1. n * size \in Nat
        BY <1>1, <2>4
      <4> QED  BY <1>1, <2>4, <2>5, <4>1
    <3> QED  BY <1>1, <2>4, <3>1, CellFor
  <2>7. PICK x \in 0..(n - 1), i \in 1..size : l = x * size + i
    BY <2>6 DEF HasCell
  <2> DEFINE k == x + 1
  <2>8. k \in 1..n /\ k - 1 = x /\ x \in Nat
    BY <2>4, <2>7
  <2> HIDE DEF k, n
  <2>9. Before(k) = x * size
    BY <2>8 DEF Before, size
  <2>10. Before(k) + i = l
    BY <2>7, <2>9
  <2>11. i \in 1..Len(bs[k]) /\ bs[k][i] = s
    <3>1. k \in 1..Len(bs)
      BY <2>8 DEF n
    <3>2. i \in 1..training.batch_size /\ Before(k) + i <= NumSamples
      BY <1>1, <2>7, <2>10 DEF size
    <3>3. i \in 1..Len(bs[k])
      BY <1>1, <2>4, <3>1, <3>2, BatchPlaces
    <3>4. bs[k][i] = Part(e, r)[Before(k) + i]
      BY <1>1, <2>4, <3>1, <3>3, BatchPlaces
    <3> QED  BY <2>1, <2>4, <2>10, <3>3, <3>4
  <2>12. k \in 1..TotalSize
    <3>1. 1 * x <= size * x /\ size * x = x * size
      BY <1>1, <2>8, TimesGrows
    <3>2. x < l
      BY <1>1, <2>7, <2>8, <3>1
    <3> QED  BY <1>1, <2>3, <2>8, <3>2 DEF k
  <2> DEFINE u == <<r, k, i>>
  <2>13. u \in us
    <3>1. u \in Ranks \X (1..TotalSize) \X (1..training.batch_size)
      BY <2>7, <2>12 DEF size
    <3>2. u[1] = r /\ u[2] = k /\ u[3] = i
      OBVIOUS
    <3>3. k \in DOMAIN bs /\ i \in DOMAIN bs[k] /\ bs[k][i] = s
      BY <2>4, <2>8, <2>11 DEF n
    <3> HIDE DEF u
    <3> QED  BY <3>1, <3>2, <3>3 DEF Uses, bs
  <2>14. f[u] = p
    <3>1. f[u] = Place(u[1], j(u)) /\ u[1] = r /\ j(u) = Before(k) + i
      BY <2>13
    <3> QED  BY <2>3, <2>10, <3>1
  <2> QED  BY <2>13, <2>14
<1> HIDE DEF f, us
<1>7. IsFiniteSet(ps)
  <2>1. IsFiniteSet(1..TotalSize)
    BY <1>1, FS_Interval
  <2> QED  BY <2>1, FS_Subset DEF Positions
<1> HIDE DEF ps
<1>8. f \in Injection(us, ps) /\ f \in Surjection(us, ps)
  BY <1>4, <1>5, <1>6 DEF Injection, IsInjective, Surjection
<1>9. Cardinality(us) = Cardinality(ps)
  BY <1>7, <1>8, FS_Injection
<1> QED  BY <1>9 DEF Times, us, ps, whole

\* at finds the place of a sample in an order, and a whole goes round the order
\* at most twice.
LEMMA PositionsCount ==
  ASSUME training \in Trainings, NEW order, Arranged(order), Len(Even(order)) = TotalSize,
         NEW q \in 1..Size
  PROVE  /\ TotalSize <= 2 * Size
         /\ q > TotalSize => Cardinality(Positions(Even(order), order[q])) = 0
         /\ q <= TotalSize /\ q + Size > TotalSize =>
              Cardinality(Positions(Even(order), order[q])) = 1
         /\ q + Size <= TotalSize => Cardinality(Positions(Even(order), order[q])) = 2
<1> DEFINE ps == Positions(Even(order), order[q])
<1>1. /\ order \in Seq(Samples) /\ Len(order) = Size /\ Size \in Nat /\ TotalSize \in Nat
      /\ TotalSize <= 2 * Size
      /\ \A p \in 1..TotalSize :
           Even(order)[p] = IF p <= Size THEN order[p] ELSE order[p - Size]
  BY ArrangedEven
<1>2. \A p \in 1..Size : order[p] = order[q] => p = q
  BY <1>1 DEF Arranged, Lists
<1>3. ASSUME NEW p \in 1..TotalSize
      PROVE  Even(order)[p] = order[q] <=> p = q \/ p = q + Size
  <2>1. CASE p <= Size
    <3>1. p \in 1..Size /\ Even(order)[p] = order[p] /\ p # q + Size
      BY <1>1, <2>1
    <3> QED  BY <1>2, <3>1
  <2>2. CASE ~(p <= Size)
    <3> DEFINE l == p - Size
    <3>1. l \in 1..Size /\ Even(order)[p] = order[l] /\ p # q /\ (l = q <=> p = q + Size)
      BY <1>1, <2>2
    <3> HIDE DEF l
    <3> QED  BY <1>2, <3>1
  <2> QED  BY <2>1, <2>2
<1>4. ps = {p \in 1..TotalSize : p = q \/ p = q + Size}
  BY <1>3 DEF Positions
<1> HIDE DEF ps
<1>5. q > TotalSize => ps = {}
  BY <1>1, <1>4
<1>6. q <= TotalSize /\ q + Size > TotalSize => ps = {q}
  BY <1>1, <1>4
<1>7. q + Size <= TotalSize => ps = {q} \cup {q + Size} /\ q + Size \notin {q}
  BY <1>1, <1>4
<1>8. /\ Cardinality({}) = 0 /\ Cardinality({q}) = 1 /\ IsFiniteSet({q})
      /\ q + Size \notin {q} => Cardinality({q} \cup {q + Size}) = 2
  <2>1. Cardinality({}) = 0 /\ Cardinality({q}) = 1 /\ IsFiniteSet({q})
    BY FS_EmptySet, FS_Singleton
  <2>2. q + Size \notin {q} => Cardinality({q} \cup {q + Size}) = Cardinality({q}) + 1
    BY <2>1, FS_AddElement
  <2> DEFINE two == Cardinality({q} \cup {q + Size})
             one == Cardinality({q})
  <2>3. q + Size \notin {q} => two = one + 1
    BY <2>2
  <2>4. one = 1
    BY <2>1
  <2> HIDE DEF two, one
  <2>5. q + Size \notin {q} => two = 2
    BY <2>3, <2>4
  <2> QED  BY <2>1, <2>5, Zenon DEF two
<1> QED  BY <1>1, <1>5, <1>6, <1>7, <1>8 DEF ps

\* Samples whose places in an order lie in a range are no more than the range
\* is long.
LEMMA FewSamples ==
  ASSUME NEW order, Lists(order, Samples), NEW a \in Int, NEW b \in Int,
         NEW A, A \subseteq Samples,
         \A q \in 1..Len(order) : order[q] \in A => q \in a..b
  PROVE  Cardinality(A) <= IF a > b THEN 0 ELSE b - a + 1
<1> DEFINE at == [x \in A |-> CHOOSE q \in 1..Len(order) : order[q] = x]
<1>1. ASSUME NEW x \in A PROVE at[x] \in 1..Len(order) /\ order[at[x]] = x
  BY DEF Lists
<1> HIDE DEF at
<1>2. at \in [A -> a..b]
  <2>1. \A x \in A : at[x] \in a..b
    BY <1>1
  <2>2. at = [x \in A |-> at[x]]
    BY DEF at
  <2> QED  BY <2>1, <2>2
<1>3. at \in Injection(A, a..b)
  BY <1>1, <1>2 DEF Injection, IsInjective
<1>4. IsFiniteSet(a..b) /\ Cardinality(a..b) = IF a > b THEN 0 ELSE b - a + 1
  BY FS_Interval
<1> QED  BY <1>3, <1>4, FS_Injection

\* Each epoch that all ranks are through with uses every sample of the dataset,
\* and none more than twice, or drops fewer than R of them: EpochCovered, for
\* every training (padding and dropping in ReplicasDistributedSampler and
\* AgentDynamicBatchSampler).
THEOREM AllCovered == Spec => []EpochCovered
<1>1. SamplersInv => EpochCovered
  <2> SUFFICES ASSUME SamplersInv, NEW e \in 0..(Epochs - 1), \A r \in Ranks : round[r] > e
               PROVE  IF DropsLast
                        THEN /\ \A s \in Samples : Times(e, s) <= 1
                             /\ Cardinality({s \in Samples : Times(e, s) = 0}) < R
                        ELSE /\ \A s \in Samples : Times(e, s) \in {1, 2}
                             /\ Cardinality({s \in Samples : Times(e, s) = 2}) < R
    BY DEF EpochCovered
  <2>1. PICK order : order = orders[Told(e)]
    OBVIOUS
  <2>2. /\ Arranged(order) /\ Len(Even(order)) = TotalSize
        /\ \A s : Times(e, s) = Cardinality(Positions(Even(order), s))
    BY <2>1, EpochOver, UsesPlaces
  <2>3. /\ training \in Trainings /\ Size \in Nat /\ R \in Nat \ {0} /\ TotalSize \in Nat
        /\ DropsLast => TotalSize <= Size /\ Size < TotalSize + R
        /\ ~DropsLast => Size <= TotalSize /\ TotalSize < Size + R
    BY InvFacts, Counts
  <2>4. Lists(order, Samples) /\ Len(order) = Size
    BY <2>2, <2>3, ArrangedEven DEF Arranged
  <2>5. ASSUME NEW q \in 1..Size
        PROVE  /\ q > TotalSize => Times(e, order[q]) = 0
               /\ q <= TotalSize /\ q + Size > TotalSize => Times(e, order[q]) = 1
               /\ q + Size <= TotalSize => Times(e, order[q]) = 2
    BY <2>2, <2>3, PositionsCount
  <2>6. ASSUME NEW s \in Samples PROVE \E q \in 1..Size : order[q] = s
    BY <2>4 DEF Lists
  <2>7. CASE DropsLast
    <3>1. ASSUME NEW s \in Samples PROVE Times(e, s) <= 1
      <4>1. PICK q \in 1..Size : order[q] = s
        BY <2>6
      <4> QED  BY <2>3, <2>5, <2>7, <4>1
    <3> DEFINE A == {s \in Samples : Times(e, s) = 0}
    <3>2. ASSUME NEW q \in 1..Size, order[q] \in A PROVE q \in (TotalSize + 1)..Size
      BY <2>3, <2>5, <2>7, <3>2
    <3>3. Cardinality(A) <= IF TotalSize + 1 > Size THEN 0 ELSE Size - (TotalSize + 1) + 1
      <4>1. A \subseteq Samples /\ TotalSize + 1 \in Int /\ Size \in Int
        BY <2>3
      <4> HIDE DEF A
      <4> QED  BY <2>4, <3>2, <4>1, FewSamples
    <3>4. Cardinality(A) < R
      <4>1. IsFiniteSet(A)
        <5>1. IsFiniteSet(Samples)
          BY <2>3, FS_Interval DEF Samples
        <5> QED  BY <5>1, FS_Subset
      <4>2. Cardinality(A) \in Nat
        BY <4>1, FS_CardinalityType
      <4> HIDE DEF A
      <4> QED  BY <2>3, <2>7, <3>3, <4>2
    <3> QED  BY <2>7, <3>1, <3>4
  <2>8. CASE ~DropsLast
    <3>1. ASSUME NEW s \in Samples PROVE Times(e, s) \in {1, 2}
      <4>1. PICK q \in 1..Size : order[q] = s
        BY <2>6
      <4> QED  BY <2>3, <2>5, <2>8, <4>1
    <3> DEFINE A == {s \in Samples : Times(e, s) = 2}
    <3>2. ASSUME NEW q \in 1..Size, order[q] \in A PROVE q \in 1..(TotalSize - Size)
      BY <2>3, <2>5, <2>8, <3>2
    <3>3. Cardinality(A) <= IF 1 > TotalSize - Size THEN 0 ELSE (TotalSize - Size) - 1 + 1
      <4>1. A \subseteq Samples /\ 1 \in Int /\ TotalSize - Size \in Int
        BY <2>3
      <4> HIDE DEF A
      <4> QED  BY <2>4, <3>2, <4>1, FewSamples
    <3>4. Cardinality(A) < R
      <4>1. IsFiniteSet(A)
        <5>1. IsFiniteSet(Samples)
          BY <2>3, FS_Interval DEF Samples
        <5> QED  BY <5>1, FS_Subset
      <4>2. Cardinality(A) \in Nat
        BY <4>1, FS_CardinalityType
      <4> HIDE DEF A
      <4> QED  BY <2>3, <2>8, <3>3, <4>2
    <3> QED  BY <2>8, <3>1, <3>4
  <2> QED  BY <2>7, <2>8
<1> QED  BY <1>1, SamplersInvariant, PTL

=============================================================================
