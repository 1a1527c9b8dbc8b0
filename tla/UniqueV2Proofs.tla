--------------------------- MODULE UniqueV2Proofs ---------------------------
(***************************************************************************)
(* Proofs about UniqueV2.                                                  *)
(*                                                                         *)
(* The tiling cuts a tensor of any length, on any number of cores, into    *)
(* blocks that follow each other without gap or overlap, and the barriers  *)
(* and flags keep the cores from disturbing each other in the workspace.   *)
(*                                                                         *)
(* What the second rests on is the invariant UniqueInv: a core is active   *)
(* as long as it leads a run of the merge it will still take part in, and  *)
(* a core that merges owns the blocks of all runs it has waited for,       *)
(* because no core of them will ever be active again.                      *)
(*                                                                         *)
(* The lemmas at the end, on increasing sequences and on what a tile loses *)
(* with its duplicates, are for the module UniqueV2SortProofs.             *)
(***************************************************************************)
EXTENDS UniqueV2, SequenceFacts

-----------------------------------------------------------------------------
(* The invariant *)

\* A tensor and a device the kernel is called with.
Called == <<input, aivNum>> \in Calls

\* The elements of the blocks from b to before c.
Span(b, c) == Offset(b)..(Offset(c) - 1)

\* A merge of queues head[i], rest[i] keys long, to the element out on, has at most
\* four queues and lies with all it reads and writes from lo to before hi.
Within(head, rest, out, lo, hi) ==
  /\ head \in Seq(Nat) /\ rest \in Seq(Nat) /\ out \in Nat
  /\ Len(rest) = Len(head) /\ Len(rest) <= 4
  /\ \A i \in 1..Len(rest) : lo <= head[i] /\ head[i] + rest[i] <= hi
  /\ lo <= out /\ out + SumOf(rest) <= hi

\* The same of a merge as a core keeps it.
Inside(m, lo, hi) == Within(m.head, m.rest, m.out, lo, hi)

\* How many blocks a run has on each level of GlobalSortV2.
Width == <<1, 4, 16, 64, 256>>

\* The three phases: up to the first barrier, up to the second, and after it.
Sorting == {"tiles", "block", "sync1"}
Gathering == {"global", "sync2"}
Packing == {"unique", "chain", "copy", "done"}

\* A core that is here has dropped its duplicates and may be read.
Written == {"copy", "done"}

\* The barriers keep all cores in one of three phases.
PhaseOK ==
  \/ \A b \in Cores : pc[b] \in Sorting
  \/ \A b \in Cores : pc[b] \in Gathering
  \/ \A b \in Cores : pc[b] \in Packing

\* While a core sorts its block, its merges stay in the block.
SortingOK ==
  \A b \in Cores : pc[b] \in Sorting =>
    /\ flags = {} /\ eventID[b] = 0 /\ waits[b] = 1
    /\ pc[b] # "tiles" => blockNum > 1
    /\ pc[b] # "block" => bind[b] = 1 /\ merge[b] = NoMerge
    /\ merge[b] # NoMerge => Inside(merge[b], Offset(b), Offset(b + 1))

\* A core that may still merge on its level, or on a later one.
Active(b) == b % bind[b] = 0

\* The block behind the last one of the group that core b leads.
GroupEnd(b) == b + GroupSize(blockNum, bind[b], b)

\* A core that leads a group merges in it when it has waited for the others.  The
\* blocks of the runs it has waited for are its own: none of their cores will
\* merge again.
LevelOK(b) ==
  /\ eventID[b] \in 0..4 /\ bind[b] = Width[eventID[b] + 1]
  /\ pc[b] = "global" => bind[b] < blockNum
  /\ pc[b] = "sync2" => blockNum <= bind[b] /\ bind[b] < 4 * blockNum /\ merge[b] = NoMerge
  /\ merge[b] # NoMerge => /\ Leads(b) /\ waits[b] = Runs(b)
                           /\ Inside(merge[b], Offset(b), Offset(GroupEnd(b)))
  /\ Active(b) => \A d \in Cores : b < d /\ d < b + waits[b] * bind[b] => ~Active(d)

\* So are those of the run a flag announces.
FlagOK(c, e) ==
  /\ e < eventID[c]
  /\ \A d \in Cores : c <= d /\ d < c + Width[e + 1] => ~Active(d)

\* While the blocks are merged, every core and every flag keeps to that.
GatheringOK ==
  \A b \in Cores : pc[b] \in Gathering =>
    /\ LevelOK(b)
    /\ \A f \in flags : FlagOK(f[1], f[2])

\* A core gathers what the cores before it have written: the flags of the last
\* event, which is the same for all, pass from each core to the next.
PackingOK ==
  \A b \in Cores : pc[b] \in Packing =>
    /\ merge[b] = NoMerge
    /\ \A c \in Cores : eventID[c] = eventID[b]
    /\ \A c \in Cores : c < b /\ pc[b] \in Written => pc[c] \in Written
    /\ \A f \in flags : f[2] < eventID[f[1]] \/ pc[f[1]] \in Written

\* The inductive invariant.
UniqueInv ==
  /\ ControlOK /\ merge = [b \in Cores |-> merge[b]]
  /\ PhaseOK /\ SortingOK /\ GatheringOK /\ PackingOK

-----------------------------------------------------------------------------
(* The tiling *)

\* Every block has at least one tile, the blocks lie one behind the other, and
\* the last one ends where the padded tensor ends: each core sorts and writes a
\* part of the workspace that is its own, and nothing is left out.
THEOREM BlocksPartition ==
  ASSUME TilingAssumption, NEW n \in Nat \ {0}, NEW aiv \in Nat \ {0}
  PROVE  /\ BlockNum(n, aiv) \in 1..aiv
         /\ GetGlobalOffset(n, aiv, 0) = 0
         /\ \A b \in 0..(BlockNum(n, aiv) - 1) :
              /\ BlockTileNum(n, aiv, b) \in Nat \ {0}
              /\ GetGlobalOffset(n, aiv, b + 1) =
                   GetGlobalOffset(n, aiv, b) + BlockTileNum(n, aiv, b) * TileLength
         /\ GetGlobalOffset(n, aiv, BlockNum(n, aiv)) = TileNum(n) * TileLength
         /\ n \in (((TileNum(n) - 1) * TileLength) + 1)..(TileNum(n) * TileLength)
  <1> DEFINE L == TileLength
             T == TileNum(n)
             B == BlockNum(n, aiv)
             Q == ShortBlockTileNum(n, aiv)
             R == T % B
             S == ShortBlockNum(n, aiv)
  <1>1. L \in Nat \ {0}
    BY DEF TilingAssumption
  <1>2. T \in Nat \ {0} /\ n > (T - 1) * L /\ n <= T * L
    <2>1. n + L - 1 \in Nat
      BY <1>1
    <2>2. /\ T \in Nat
          /\ (n + L - 1) % L \in 0..(L - 1)
          /\ n + L - 1 = L * T + ((n + L - 1) % L)
      BY <1>1, <2>1, Division DEF TileNum
    <2> HIDE DEF L, T
    <2>3. n <= L * T /\ n > L * T - L
      BY <1>1, <2>2
    <2>4. T # 0
      <3> SUFFICES ASSUME T = 0 PROVE FALSE
        OBVIOUS
      <3>1. L * T = 0
        BY <1>1
      <3> QED
        BY <2>3, <3>1
    <2>5. (T - 1) * L = L * T - L /\ T * L = L * T
      BY <1>1, <2>2
    <2> QED
      BY <1>1, <2>2, <2>3, <2>4, <2>5
  <1>3. B \in 1..aiv /\ B <= T
    BY <1>2 DEF BlockNum
  <1>4. Q \in Nat /\ R \in 0..(B - 1) /\ T = B * Q + R
    <2>1. Q = T \div B
      BY DEF ShortBlockTileNum
    <2>2. T \in Nat /\ B \in Nat \ {0}
      BY <1>2, <1>3
    <2> HIDE DEF T, B, Q
    <2> QED
      BY <2>1, <2>2, Division DEF R
  <1>5. S = B - R
    BY DEF ShortBlockNum
  <1> HIDE DEF L, T, B, Q, R, S
  <1>6. Q # 0
    BY <1>2, <1>3, <1>4
  <1>7. S \in 1..B
    BY <1>3, <1>4, <1>5
  <1>8. \A b \in 0..B :
          GetGlobalOffset(n, aiv, b) =
            IF b <= S THEN (Q * b) * L ELSE (Q * S + (Q + 1) * (b - S)) * L
    <2> SUFFICES ASSUME NEW b \in 0..B
                 PROVE GetGlobalOffset(n, aiv, b) =
                   IF b <= S THEN (Q * b) * L ELSE (Q * S + (Q + 1) * (b - S)) * L
      OBVIOUS
    <2>1. GetGlobalOffset(n, aiv, b) =
            (Q * Lesser(S, b) + (Q + 1) * (IF S >= b THEN 0 ELSE b - S)) * L
      BY DEF GetGlobalOffset, Q, S, L
    <2>2. CASE b <= S
      <3>1. Lesser(S, b) = b
        BY <1>3, <1>7, <2>2 DEF Lesser
      <3>2. (Q + 1) * 0 = 0
        BY <1>4
      <3> QED
        BY <1>3, <1>4, <1>7, <2>1, <2>2, <3>1, <3>2
    <2>3. CASE ~(b <= S)
      <3>1. Lesser(S, b) = S
        BY <1>3, <1>7, <2>3 DEF Lesser
      <3> QED
        BY <1>3, <1>7, <2>1, <2>3, <3>1
    <2> QED
      BY <2>2, <2>3
  <1>9. \A b \in 0..(B - 1) :
          BlockTileNum(n, aiv, b) = IF S > b THEN Q ELSE Q + 1
    BY DEF BlockTileNum, S, Q
  <1>10. GetGlobalOffset(n, aiv, 0) = 0
    <2>1. (Q * 0) * L = 0
      BY <1>1, <1>4
    <2> QED
      BY <1>3, <1>7, <1>8, <2>1
  <1>11. ASSUME NEW b \in 0..(B - 1)
         PROVE  /\ BlockTileNum(n, aiv, b) \in Nat \ {0}
                /\ GetGlobalOffset(n, aiv, b + 1) =
                     GetGlobalOffset(n, aiv, b) + BlockTileNum(n, aiv, b) * L
    <2>1. BlockTileNum(n, aiv, b) = IF S > b THEN Q ELSE Q + 1
      BY <1>9
    <2>2. b \in 0..B /\ b + 1 \in 0..B
      BY <1>3
    <2>3. CASE b < S
      <3>1. GetGlobalOffset(n, aiv, b) = (Q * b) * L
        BY <1>7, <1>8, <2>2, <2>3
      <3>2. GetGlobalOffset(n, aiv, b + 1) = (Q * (b + 1)) * L
        BY <1>7, <1>8, <2>2, <2>3
      <3>3. (Q * (b + 1)) * L = (Q * b) * L + Q * L
        BY <1>1, <1>4, <2>2
      <3> QED
        BY <1>4, <1>6, <1>7, <2>1, <2>2, <2>3, <3>1, <3>2, <3>3
    <2>4. CASE b >= S
      <3>1. GetGlobalOffset(n, aiv, b) = (Q * S + (Q + 1) * (b - S)) * L
        <4>1. CASE b = S
          <5>1. (Q * S + (Q + 1) * (b - S)) * L = (Q * b) * L
            BY <1>1, <1>4, <1>7, <2>2, <4>1
          <5> QED
            BY <1>7, <1>8, <2>2, <4>1, <5>1
        <4>2. CASE b # S
          BY <1>7, <1>8, <2>2, <2>4, <4>2
        <4> QED
          BY <4>1, <4>2
      <3>2. GetGlobalOffset(n, aiv, b + 1) = (Q * S + (Q + 1) * (b + 1 - S)) * L
        BY <1>7, <1>8, <2>2, <2>4
      <3>3. (Q * S + (Q + 1) * (b + 1 - S)) * L
              = (Q * S + (Q + 1) * (b - S)) * L + (Q + 1) * L
        BY <1>1, <1>4, <1>7, <2>2
      <3> QED
        BY <1>4, <1>7, <2>1, <2>2, <2>4, <3>1, <3>2, <3>3
    <2> QED
      BY <1>7, <2>2, <2>3, <2>4
  <1>12. GetGlobalOffset(n, aiv, B) = T * L
    <2>1. B \in 0..B
      BY <1>3
    <2>2. CASE S = B
      <3>1. R = 0
        BY <1>3, <1>4, <1>5, <2>2
      <3>2. T = Q * B
        BY <1>3, <1>4, <3>1
      <3> QED
        BY <1>8, <2>1, <2>2, <3>2
    <2>3. CASE S < B
      <3>1. Q * S + (Q + 1) * (B - S) = T
        BY <1>3, <1>4, <1>5
      <3> QED
        BY <1>3, <1>7, <1>8, <2>1, <2>3, <3>1
    <2> QED
      BY <1>3, <1>7, <2>2, <2>3
  <1> QED
    BY <1>2, <1>3, <1>10, <1>11, <1>12 DEF L, T, B

\* The bound on width is sharp.  A block of twice as many tiles as a byte holds is
\* merged last in two runs of as many tiles each, and the length of the second
\* comes out as zero: lastQueTileNum is a uint8_t, and half of the block is not
\* merged.
THEOREM WideRunsLost ==
  ASSUME TilingAssumption
  PROVE  /\ QueueNum(2 * ByteRange, ByteRange, 0) = 2
         /\ LastQueue(2 * ByteRange, ByteRange, 0) = 0
  <1> DEFINE B == ByteRange
  <1>1. B \in Nat \ {0}
    BY DEF TilingAssumption
  <1>2. GroupSize(2 * B, B, 0) = 2 * B
    BY <1>1 DEF GroupSize, Lesser
  <1>3. (2 * B) % B = 0 /\ B % B = 0 /\ 0 % B = 0
    <2>1. \A m \in Nat : m = B * (m \div B) + (m % B) /\ m % B \in 0..(B - 1) /\ m \div B \in Nat
      BY <1>1, Division
    <2> QED
      BY <1>1, <2>1
  <1>4. (2 * B + B - 1) \div B = 2
    BY <1>1, Division
  <1> QED
    BY <1>2, <1>3, <1>4 DEF QueueNum, LastQueue

\* The runs of a merge stay inside their group, however many parts a run has: a
\* length that wraps is too short, never too long.
LEMMA RunsInside ==
  ASSUME TilingAssumption, NEW t \in Nat, NEW first \in Nat, first < t,
         NEW w \in Nat \ {0}
  PROVE  /\ GroupSize(t, w, first) \in 1..(t - first)
         /\ QueueNum(t, w, first) \in 1..4
         /\ LastQueue(t, w, first) \in 0..w
         /\ w * (QueueNum(t, w, first) - 1) + LastQueue(t, w, first) <= GroupSize(t, w, first)
         /\ w < ByteRange =>
              /\ LastQueue(t, w, first) \in 1..w
              /\ w * (QueueNum(t, w, first) - 1) + LastQueue(t, w, first)
                   = GroupSize(t, w, first)
  <1> DEFINE G == GroupSize(t, w, first)
             K == QueueNum(t, w, first)
             B == ByteRange
             q == G \div w
             r == G % w
             s == (G + w - 1) % w
             x == r % B
             y == w % B
  <1>1. G \in 1..(4 * w) /\ G \in 1..(t - first)
    BY DEF GroupSize, Lesser
  <1>2. B \in Nat \ {0}
    BY DEF TilingAssumption
  <1>3. K = (G + w - 1) \div w /\ LastQueue(t, w, first) = IF x = 0 THEN y ELSE x
    BY DEF QueueNum, LastQueue
  <1> HIDE DEF G, B, K
  <1>4. q \in Nat /\ r \in 0..(w - 1) /\ G = w * q + r
    <2>1. G \in Nat
      BY <1>1
    <2> QED  BY <2>1, Division
  <1>5. K \in Nat /\ s \in 0..(w - 1) /\ G + w - 1 = w * K + s
    <2>1. G + w - 1 \in Nat
      BY <1>1
    <2> QED  BY <1>3, <2>1, Division
  <1>6. x \in 0..(B - 1) /\ y \in 0..(B - 1) /\ x <= r /\ y <= w
    <2>1. r \in Nat /\ w \in Nat
      BY <1>4
    <2> HIDE DEF r
    <2>2. r \div B \in Nat /\ w \div B \in Nat /\ x \in 0..(B - 1) /\ y \in 0..(B - 1)
            /\ r = B * (r \div B) + x /\ w = B * (w \div B) + y
      BY <1>2, <2>1, Division DEF x, y
    <2>3. \A z \in Nat : B * z \in Nat
      BY <1>2
    <2> HIDE DEF x, y
    <2>4. B * (r \div B) \in Nat /\ B * (w \div B) \in Nat
      BY <2>2, <2>3
    <2> QED  BY <2>1, <2>2, <2>4
  <1>7. r # 0 /\ x = 0 => B <= r
    <2>1. \A z \in Nat : z < B => z % B = z
      BY <1>2
    <2> QED  BY <1>2, <1>4, <2>1
  <1>8. w < B => x = r /\ y = w
    <2>1. \A z \in Nat : z < B => z % B = z
      BY <1>2
    <2> QED  BY <1>2, <1>4, <2>1
  <1> HIDE DEF q, r, s, x, y
  <1>9. w * (K - q) = r + w - 1 - s
    BY <1>4, <1>5
  <1>10. CASE r = 0
    <2>1. w * (K - q) \in 0..(w - 1)
      BY <1>4, <1>5, <1>9, <1>10
    <2>2. K = q
      BY <1>4, <1>5, <2>1
    <2>3. x = 0
      BY <1>2, <1>4, <1>6, <1>10
    <2>4. w * (K - 1) = G - w /\ w * K = G
      BY <1>1, <1>4, <1>5, <1>10, <2>2
    <2>5. K \in 1..4
      BY <1>1, <1>5, <2>4
    <2>6. w * (K - 1) + y <= G /\ y \in 0..w
      BY <1>1, <1>6, <2>4
    <2>7. w < B => y = w /\ w * (K - 1) + y = G
      BY <1>1, <1>8, <2>4
    <2> QED  BY <1>3, <1>1, <2>3, <2>5, <2>6, <2>7 DEF G, K, B
  <1>11. CASE r # 0
    <2>1. w * (K - q) > 0 /\ w * (K - q) < 2 * w
      BY <1>4, <1>5, <1>9, <1>11
    <2>2. K = q + 1
      BY <1>4, <1>5, <2>1
    <2>3. w * (K - 1) = G - r
      BY <1>1, <1>4, <1>5, <2>2
    <2>4. K \in 1..4
      <3>1. w * (K - 1) < 4 * w
        BY <1>1, <1>4, <1>11, <2>3
      <3> QED  BY <1>4, <1>5, <2>2, <3>1
    <2>5. (IF x = 0 THEN y ELSE x) \in 0..r
      BY <1>2, <1>4, <1>6, <1>7, <1>11
    <2> DEFINE l == IF x = 0 THEN y ELSE x
    <2>6. l \in 0..r /\ r \in 0..(w - 1) /\ w * (K - 1) = G - r
      BY <1>4, <2>3, <2>5
    <2> HIDE DEF l
    <2>7. LastQueue(t, w, first) = l
      BY <1>3 DEF l
    <2>8. l \in 0..w /\ w * (K - 1) + l <= G
      BY <1>1, <1>5, <2>6
    <2>9. w < B => l = r /\ r \in 1..w /\ w * (K - 1) + l = G
      <3>1. w < B => l = r
        BY <1>11, <1>8 DEF l
      <3> QED  BY <1>1, <1>4, <1>11, <2>3, <3>1
    <2> QED  BY <1>1, <2>4, <2>7, <2>8, <2>9 DEF G, K, B
  <1> QED  BY <1>10, <1>11

\* The runs of a group of blocks or tiles add up to the group, so a merge
\* leaves nothing out, as long as a run has fewer parts than a uint8_t counts.
THEOREM RunsCoverGroup ==
  ASSUME TilingAssumption,
         NEW parts \in Nat, NEW first \in Nat, first < parts,
         NEW width \in Nat \ {0}, width < ByteRange
  PROVE  /\ QueueNum(parts, width, first) \in 1..4
         /\ \A i \in 1..QueueNum(parts, width, first) :
              QueueParts(parts, width, first, i) \in 1..width
         /\ width * (QueueNum(parts, width, first) - 1) + LastQueue(parts, width, first)
              = GroupSize(parts, width, first)
  <1> DEFINE K == QueueNum(parts, width, first)
             l == LastQueue(parts, width, first)
  <1>1. K \in 1..4 /\ l \in 1..width /\ width * (K - 1) + l = GroupSize(parts, width, first)
    BY RunsInside
  <1>2. \A i \in 1..K : QueueParts(parts, width, first, i) = IF i < K THEN width ELSE l
    BY DEF QueueParts
  <1> HIDE DEF K, l
  <1>3. \A i \in 1..K : QueueParts(parts, width, first, i) \in 1..width
    BY <1>1, <1>2
  <1> QED  BY <1>1, <1>3 DEF K, l

\* Each of the runs, and all of them together.
LEMMA RunInside ==
  ASSUME TilingAssumption, NEW t \in Nat, NEW first \in Nat, first < t,
         NEW w \in Nat \ {0}, NEW i \in 1..QueueNum(t, w, first)
  PROVE  /\ QueueParts(t, w, first, i) \in Nat
         /\ w * (i - 1) \in Nat
         /\ w * (i - 1) + QueueParts(t, w, first, i) <= GroupSize(t, w, first)
  <1> DEFINE G == GroupSize(t, w, first)
             K == QueueNum(t, w, first)
             l == LastQueue(t, w, first)
  <1>1. G \in 1..(t - first) /\ K \in 1..4 /\ l \in 0..w /\ w * (K - 1) + l <= G
    BY RunsInside
  <1>2. QueueParts(t, w, first, i) = IF i < K THEN w ELSE l
    BY DEF QueueParts
  <1>3. i \in 1..K
    OBVIOUS
  <1> HIDE DEF G, K, l
  <1>4. w * (i - 1) \in Nat
    BY <1>1, <1>3
  <1>5. CASE i = K
    BY <1>1, <1>2, <1>4, <1>5 DEF G
  <1>6. CASE i < K
    <2>1. w * (i - 1) + w = w * i
      BY <1>3, <1>1
    <2>2. w * i <= w * (K - 1)
      <3>1. i <= K - 1 /\ i \in Int /\ K - 1 \in Int
        BY <1>1, <1>3, <1>6
      <3> QED  BY <3>1, TimesGrows
    <2> QED  BY <1>1, <1>2, <1>3, <1>4, <1>6, <2>1, <2>2 DEF G
  <1> QED  BY <1>1, <1>3, <1>5, <1>6

-----------------------------------------------------------------------------
(* Where the blocks lie *)

\* The device and the blocks.
LEMMA CallFacts ==
  ASSUME Called
  PROVE  /\ TilingAssumption /\ total \in Nat \ {0} /\ aivNum \in Nat \ {0}
         /\ blockNum \in Nat \ {0} /\ blockNum <= 255 /\ blockNum < ByteRange /\ ByteRange \in Nat
         /\ Cores = 0..(blockNum - 1)
<1>1. TilingAssumption /\ ByteRange \in Nat /\ ByteRange <= 256
  BY TilingAssumption, UniqueAssumption DEF TilingAssumption
<1>2. /\ input \in Seq(Keys) /\ Len(input) > 1 /\ aivNum \in 2..(ByteRange - 1)
  <2> DEFINE c == <<input, aivNum>>
  <2>1. c[1] \in Seq(Keys) /\ Len(c[1]) > 1 /\ c[2] \in 2..(ByteRange - 1)
    BY UniqueAssumption DEF Called
  <2> QED  BY <2>1
<1>3. total \in Nat \ {0} /\ aivNum \in Nat \ {0}
  BY <1>1, <1>2 DEF total
<1>4. blockNum \in 1..aivNum
  BY <1>1, <1>3, BlocksPartition DEF blockNum
<1> QED  BY <1>1, <1>2, <1>3, <1>4 DEF Cores

\* A block begins where the one before it ends.
LEMMA BlockFacts ==
  ASSUME Called, NEW b \in Cores
  PROVE  /\ tileNum(b) \in Nat \ {0} /\ tileNum(b) * TileLength \in Nat \ {0}
         /\ Offset(b + 1) = Offset(b) + tileNum(b) * TileLength
         /\ Offset(0) = 0
<1>1. /\ tileNum(b) \in Nat \ {0}
      /\ Offset(b + 1) = Offset(b) + tileNum(b) * TileLength
      /\ Offset(0) = 0
  <2>1. TilingAssumption /\ total \in Nat \ {0} /\ aivNum \in Nat \ {0}
    BY CallFacts
  <2>2. b \in 0..(BlockNum(total, aivNum) - 1)
    BY DEF Cores, blockNum
  <2> QED  BY <2>1, <2>2, BlocksPartition DEF tileNum, Offset
<1>2. TileLength \in Nat \ {0}
  BY TilingAssumption DEF TilingAssumption
<1>3. tileNum(b) * TileLength \in Nat \ {0}
  BY <1>1, <1>2
<1> QED  BY <1>1, <1>3

\* Blocks come in the order of their cores.
LEMMA OffsetGrows ==
  ASSUME Called, NEW b \in 0..blockNum, NEW c \in b..blockNum
  PROVE  Offset(b) \in Nat /\ Offset(c) \in Nat /\ Offset(b) <= Offset(c)
<1>1. blockNum \in Nat /\ blockNum # 0 /\ Cores = 0..(blockNum - 1)
  BY CallFacts
<1>2. \A k \in Cores : /\ Offset(k + 1) = Offset(k) + tileNum(k) * TileLength
                       /\ tileNum(k) * TileLength \in Nat
                       /\ Offset(0) = 0
  BY BlockFacts
<1>3. \A k \in 0..blockNum : Offset(k) \in Nat
  <2> DEFINE S == {k \in Nat : k <= blockNum => Offset(k) \in Nat}
  <2>1. 0 \in S
    BY <1>1, <1>2
  <2>2. ASSUME NEW k \in Nat, k \in S PROVE k + 1 \in S
    <3>1. CASE k + 1 <= blockNum
      <4>1. k \in Cores /\ Offset(k) \in Nat
        BY <1>1, <2>2, <3>1
      <4> QED  BY <1>2, <4>1
    <3> QED  BY <3>1
  <2> HIDE DEF S
  <2>3. Nat \subseteq S
    BY <2>1, <2>2, NatInd
  <2> QED  BY <1>1, <2>3 DEF S
<1>4. \A j \in Nat : b + j <= blockNum => Offset(b) <= Offset(b + j)
  <2> DEFINE S == {j \in Nat : b + j <= blockNum => Offset(b) <= Offset(b + j)}
  <2>1. 0 \in S
    BY <1>3
  <2>2. ASSUME NEW j \in Nat, j \in S PROVE j + 1 \in S
    <3>1. CASE b + (j + 1) <= blockNum
      <4>1. b + j \in Cores /\ Offset(b) <= Offset(b + j) /\ (b + j) + 1 = b + (j + 1)
        BY <1>1, <2>2, <3>1
      <4>2. Offset(b + (j + 1)) = Offset(b + j) + tileNum(b + j) * TileLength
              /\ tileNum(b + j) * TileLength \in Nat
        BY <1>2, <4>1
      <4>3. Offset(b) \in Nat /\ Offset(b + j) \in Nat
        <5>1. b + j \in 0..blockNum /\ b \in 0..blockNum
          BY <1>1, <3>1
        <5> QED  BY <1>3, <5>1
      <4> HIDE DEF S
      <4>4. Offset(b) <= Offset(b + (j + 1))
        BY <4>1, <4>2, <4>3
      <4> QED  BY <4>4 DEF S
    <3> QED  BY <3>1
  <2> HIDE DEF S
  <2>3. Nat \subseteq S
    BY <2>1, <2>2, NatInd
  <2> QED  BY <2>3 DEF S
<1>5. c - b \in Nat /\ b + (c - b) = c /\ c \in 0..blockNum /\ c <= blockNum
  BY <1>1
<1>6. Offset(b) <= Offset(b + (c - b))
  BY <1>4, <1>5
<1> QED  BY <1>3, <1>5, <1>6

\* The elements of a block, from where it begins to where the next one does.
LEMMA BlockSpan ==
  ASSUME Called, NEW b \in Cores
  PROVE  Block(b) = Span(b, b + 1)
<1>1. Offset(b) \in Nat
  <2>1. b \in 0..blockNum
    BY CallFacts
  <2> QED  BY <2>1, OffsetGrows
<1>2. PICK x \in Nat : x = Offset(b) + tileNum(b) * TileLength
  BY <1>1, BlockFacts
<1>3. Offset(b + 1) = x
  BY <1>2, BlockFacts
<1>4. Block(b) = Offset(b)..(x - 1)
  BY <1>1, <1>2, BlockFacts DEF Block
<1>5. Span(b, b + 1) = Offset(b)..(x - 1)
  BY <1>3 DEF Span
<1> QED  BY <1>4, <1>5

\* Blocks that follow other blocks have no element in common with them.
LEMMA SpansApart ==
  ASSUME Called, NEW b \in 0..blockNum, NEW c \in b..blockNum,
         NEW d \in c..blockNum, NEW e \in d..blockNum
  PROVE  Span(b, c) \cap Span(d, e) = {}
<1>1. blockNum \in Nat /\ c \in 0..blockNum /\ d \in 0..blockNum /\ e \in 0..blockNum
  BY CallFacts
<1>2. Offset(b) \in Nat /\ Offset(c) \in Nat /\ Offset(d) \in Nat /\ Offset(e) \in Nat
  BY <1>1, OffsetGrows
<1>3. Offset(c) <= Offset(d)
  BY <1>1, OffsetGrows
<1> QED  BY <1>2, <1>3 DEF Span

\* No two blocks have an element in common.
LEMMA BlocksApart ==
  ASSUME Called, NEW b \in Cores, NEW c \in Cores, b # c
  PROVE  Block(b) \cap Block(c) = {}
<1>1. blockNum \in Nat /\ Cores = 0..(blockNum - 1)
  BY CallFacts
<1>2. Block(b) = Span(b, b + 1) /\ Block(c) = Span(c, c + 1)
  BY BlockSpan
<1>3. CASE b < c
  <2>1. Span(b, b + 1) \cap Span(c, c + 1) = {}
    BY <1>1, <1>3, SpansApart
  <2> QED  BY <1>2, <2>1
<1>4. CASE c < b
  <2>1. Span(c, c + 1) \cap Span(b, b + 1) = {}
    BY <1>1, <1>4, SpansApart
  <2> QED  BY <1>2, <2>1
<1> QED  BY <1>1, <1>3, <1>4

-----------------------------------------------------------------------------
(* Where a merge lies *)

\* A sequence without one of its elements.
LEMMA Removed ==
  ASSUME NEW S, NEW s \in Seq(S), NEW e \in 1..Len(s)
  PROVE  /\ RemoveAt(s, e) \in Seq(S) /\ Len(RemoveAt(s, e)) = Len(s) - 1
         /\ \A i \in 1..(Len(s) - 1) : RemoveAt(s, e)[i] = IF i < e THEN s[i] ELSE s[i + 1]
<1> DEFINE u == SubSeq(s, 1, e - 1)
           v == SubSeq(s, e + 1, Len(s))
<1>1. u \in Seq(S) /\ Len(u) = e - 1 /\ \A i \in 1..(e - 1) : u[i] = s[i]
  <2>1. e - 1 \in Nat /\ e - 1 <= Len(s)
    OBVIOUS
  <2> QED  BY <2>1, FirstOf
<1>2. v \in Seq(S) /\ Len(v) = Len(s) - e /\ \A i \in 1..(Len(s) - e) : v[i] = s[e + i]
  <2>1. e \in Nat /\ e <= Len(s) /\ 1 \in Nat \ {0}
    OBVIOUS
  <2> QED  BY <2>1, RestFacts
<1>3. RemoveAt(s, e) = u \o v
  BY DEF RemoveAt
<1> HIDE DEF u, v
<1>4. /\ u \o v \in Seq(S) /\ Len(u \o v) = Len(u) + Len(v)
      /\ \A p \in 1..Len(u) : (u \o v)[p] = u[p]
      /\ \A p \in 1..Len(v) : (u \o v)[Len(u) + p] = v[p]
  <2>1. u \in Seq(S) /\ v \in Seq(S)
    BY <1>1, <1>2
  <2> QED  BY <2>1, Concatenated
<1>5. ASSUME NEW i \in 1..(Len(s) - 1)
      PROVE  (u \o v)[i] = IF i < e THEN s[i] ELSE s[i + 1]
  <2>1. CASE i < e
    BY <1>1, <1>4, <2>1
  <2>2. CASE ~(i < e)
    <3>1. PICK p : p = i - (e - 1)
      OBVIOUS
    <3>2. p \in 1..Len(v) /\ Len(u) + p = i /\ e + p = i + 1
      BY <1>1, <1>2, <2>2, <3>1
    <3>3. (u \o v)[Len(u) + p] = v[p] /\ v[p] = s[e + p]
      BY <1>2, <1>4, <3>2
    <3> QED  BY <2>2, <3>2, <3>3
  <2> QED  BY <2>1, <2>2
<1> QED  BY <1>1, <1>2, <1>3, <1>4, <1>5

\* An element of a sequence, or 0 behind its end.
Item(q, i) == IF i \in DOMAIN q THEN q[i] ELSE 0

\* The sum of up to four numbers, the missing ones being 0.
LEMMA Summed ==
  ASSUME NEW q \in Seq(Nat)
  PROVE  /\ \A i \in Nat : Item(q, i) \in Nat
         /\ SumOf(q) = Item(q, 1) + Item(q, 2) + Item(q, 3) + Item(q, 4)
         /\ SumOf(q) \in Nat
<1>1. \A i \in Nat : Item(q, i) \in Nat
  <2> SUFFICES ASSUME NEW i \in Nat PROVE Item(q, i) \in Nat
    OBVIOUS
  <2>1. i \in DOMAIN q => q[i] \in Nat
    OBVIOUS
  <2> QED  BY <2>1 DEF Item
<1>2. SumOf(q) = Item(q, 1) + Item(q, 2) + Item(q, 3) + Item(q, 4)
  BY DEF SumOf, Item
<1>3. Item(q, 1) \in Nat /\ Item(q, 2) \in Nat /\ Item(q, 3) \in Nat /\ Item(q, 4) \in Nat
  BY <1>1
<1>4. SumOf(q) \in Nat
  BY <1>2, <1>3
<1> QED  BY <1>1, <1>2, <1>4

\* What a merge reads and writes lies where the merge lies.
LEMMA MergeRanges ==
  ASSUME NEW m, NEW lo \in Nat, NEW hi \in Nat, Inside(m, lo, hi)
  PROVE  MergeReads(m) \subseteq lo..(hi - 1) /\ MergeWrites(m) \subseteq lo..(hi - 1)
<1>1. DOMAIN m.head = 1..Len(m.head) /\ Len(m.head) \in Nat /\ Len(m.rest) = Len(m.head)
  BY DEF Inside, Within
<1>2. \A i \in 1..Len(m.head) : /\ m.head[i] \in Nat /\ m.rest[i] \in Nat
                                /\ lo <= m.head[i] /\ m.head[i] + m.rest[i] <= hi
  BY <1>1 DEF Inside, Within
<1>3. m.out \in Nat /\ lo <= m.out /\ m.out + SumOf(m.rest) <= hi /\ SumOf(m.rest) \in Nat
  BY Summed DEF Inside, Within
<1>4. MergeReads(m) \subseteq lo..(hi - 1)
  <2> SUFFICES ASSUME NEW x \in MergeReads(m) PROVE x \in lo..(hi - 1)
    OBVIOUS
  <2>1. PICK i \in DOMAIN m.head : x \in m.head[i]..(m.head[i] + m.rest[i] - 1)
    BY DEF MergeReads
  <2>2. i \in 1..Len(m.head)
    BY <1>1
  <2> QED  BY <1>2, <2>1, <2>2
<1>5. MergeWrites(m) \subseteq lo..(hi - 1)
  BY <1>3 DEF MergeWrites
<1> QED  BY <1>4, <1>5

\* No merge reads and writes nothing.
LEMMA NoMergeRanges ==
  MergeReads(NoMerge) = {} /\ MergeWrites(NoMerge) = {}
<1>1. NoMerge.head = <<>> /\ NoMerge.rest = <<>> /\ NoMerge.out = 0
  BY DEF NoMerge
<1>2. SumOf(<<>>) = 0
  <2>1. DOMAIN (<<>>) = {}
    OBVIOUS
  <2>2. SumOf(<<>>) = 0 + 0 + 0 + 0
    BY <2>1 DEF SumOf
  <2> QED  BY <2>2
<1>3. MergeReads(NoMerge) = {}
  BY <1>1 DEF MergeReads
<1>4. MergeWrites(NoMerge) = 0..(0 + 0 - 1)
  BY <1>1, <1>2 DEF MergeWrites
<1> QED  BY <1>3, <1>4

\* What is taken of the queues and what is left of them.
LEMMA SumsAdd ==
  ASSUME NEW n \in Nat, NEW q \in Seq(Nat), NEW k \in Seq(Nat), NEW r \in Seq(Nat),
         Len(q) = n, Len(k) = n, Len(r) = n, \A i \in 1..n : k[i] + r[i] = q[i]
  PROVE  SumOf(k) + SumOf(r) = SumOf(q)
<1>1. ASSUME NEW i \in Nat \ {0} PROVE Item(k, i) + Item(r, i) = Item(q, i)
  <2>1. i \in DOMAIN q <=> i <= n
    OBVIOUS
  <2>2. i \in DOMAIN k <=> i <= n
    OBVIOUS
  <2>3. i \in DOMAIN r <=> i <= n
    OBVIOUS
  <2>4. CASE i <= n
    BY <2>1, <2>2, <2>3, <2>4 DEF Item
  <2>5. CASE ~(i <= n)
    <3>1. Item(k, i) = 0 /\ Item(r, i) = 0 /\ Item(q, i) = 0
      BY <2>1, <2>2, <2>3, <2>5 DEF Item
    <3> QED  BY <3>1
  <2> QED  BY <2>4, <2>5
<1>2. /\ Item(k, 1) + Item(r, 1) = Item(q, 1) /\ Item(k, 2) + Item(r, 2) = Item(q, 2)
      /\ Item(k, 3) + Item(r, 3) = Item(q, 3) /\ Item(k, 4) + Item(r, 4) = Item(q, 4)
  BY <1>1
<1>3. /\ \A i \in 1..4 : Item(k, i) \in Nat /\ Item(r, i) \in Nat
      /\ SumOf(k) = Item(k, 1) + Item(k, 2) + Item(k, 3) + Item(k, 4)
      /\ SumOf(r) = Item(r, 1) + Item(r, 2) + Item(r, 3) + Item(r, 4)
      /\ SumOf(q) = Item(q, 1) + Item(q, 2) + Item(q, 3) + Item(q, 4)
  BY Summed
<1>4. /\ Item(k, 1) \in Nat /\ Item(k, 2) \in Nat /\ Item(k, 3) \in Nat /\ Item(k, 4) \in Nat
      /\ Item(r, 1) \in Nat /\ Item(r, 2) \in Nat /\ Item(r, 3) \in Nat /\ Item(r, 4) \in Nat
  BY <1>3
<1> QED  BY <1>2, <1>3, <1>4

\* A queue that is taken from starts later and is shorter.
LEMMA Shortened ==
  ASSUME NEW g, NEW q, NEW o, NEW lo \in Nat, NEW hi \in Nat, Within(g, q, o, lo, hi),
         NEW n \in Nat, n = Len(q),
         NEW k \in [1..n -> Nat], \A i \in 1..n : k[i] <= q[i],
         NEW h, h = [i \in 1..n |-> g[i] + k[i]],
         NEW r, r = [i \in 1..n |-> q[i] - k[i]]
  PROVE  Within(h, r, o + SumOf(k), lo, hi)
<1>1. /\ g \in Seq(Nat) /\ q \in Seq(Nat) /\ o \in Nat
      /\ Len(g) = n /\ Len(q) = n /\ n <= 4
      /\ \A i \in 1..n : lo <= g[i] /\ g[i] + q[i] <= hi
      /\ lo <= o /\ o + SumOf(q) <= hi
  BY DEF Within
<1>2. \A i \in 1..n : g[i] \in Nat /\ q[i] \in Nat /\ k[i] \in Nat /\ k[i] <= q[i]
  <2>1. \A i \in 1..n : g[i] \in Nat
    BY <1>1
  <2>2. \A i \in 1..n : q[i] \in Nat
    BY <1>1
  <2>3. \A i \in 1..n : k[i] \in Nat
    OBVIOUS
  <2> QED  BY <2>1, <2>2, <2>3
<1>3. /\ h \in [1..n -> Nat] /\ r \in [1..n -> Nat]
      /\ \A i \in 1..n : h[i] = g[i] + k[i] /\ r[i] = q[i] - k[i]
  BY <1>2
<1>4. \A f \in [1..n -> Nat] : f \in Seq(Nat) /\ Len(f) = n
  OBVIOUS
<1>5. h \in Seq(Nat) /\ Len(h) = n /\ r \in Seq(Nat) /\ Len(r) = n /\ k \in Seq(Nat) /\ Len(k) = n
  BY <1>3, <1>4
<1>6. \A i \in 1..n : lo <= h[i] /\ h[i] + r[i] <= hi
  <2> SUFFICES ASSUME NEW i \in 1..n PROVE lo <= h[i] /\ h[i] + r[i] <= hi
    OBVIOUS
  <2>1. /\ g[i] \in Nat /\ q[i] \in Nat /\ k[i] \in Nat /\ h[i] = g[i] + k[i]
        /\ r[i] = q[i] - k[i] /\ lo <= g[i] /\ g[i] + q[i] <= hi
    BY <1>1, <1>2, <1>3
  <2> QED  BY <2>1
<1>7. SumOf(k) + SumOf(r) = SumOf(q)
  <2>1. ASSUME NEW i \in 1..n PROVE k[i] + r[i] = q[i]
    <3>1. k[i] \in Nat /\ q[i] \in Nat /\ r[i] = q[i] - k[i]
      BY <1>2, <1>3
    <3> QED  BY <3>1
  <2>2. q \in Seq(Nat) /\ k \in Seq(Nat) /\ r \in Seq(Nat)
    BY <1>1, <1>5
  <2>3. Len(q) = n /\ Len(k) = n /\ Len(r) = n
    BY <1>1, <1>5
  <2> QED  BY <2>1, <2>2, <2>3, SumsAdd
<1>8. SumOf(k) \in Nat /\ SumOf(r) \in Nat /\ SumOf(q) \in Nat
  BY <1>1, <1>5, Summed
<1>9. lo <= o + SumOf(k) /\ o + SumOf(k) + SumOf(r) <= hi /\ o + SumOf(k) \in Nat
  BY <1>1, <1>7, <1>8
<1> QED  BY <1>1, <1>5, <1>6, <1>9 DEF Within

\* The sum of the queues without one of them.
LEMMA SumRemoved ==
  ASSUME NEW q \in Seq(Nat), Len(q) <= 4, NEW e \in 1..Len(q), q[e] = 0
  PROVE  SumOf(RemoveAt(q, e)) = SumOf(q)
<1>1. PICK t : t = RemoveAt(q, e)
  OBVIOUS
<1>2. PICK n : n = Len(q) /\ n \in Nat
  OBVIOUS
<1>3. /\ t \in Seq(Nat) /\ Len(t) = n - 1
      /\ \A i \in 1..(n - 1) : t[i] = IF i < e THEN q[i] ELSE q[i + 1]
  BY <1>1, <1>2, Removed
<1>4. DOMAIN q = 1..n /\ DOMAIN t = 1..(n - 1) /\ e \in 1..n /\ n <= 4
  BY <1>2, <1>3
<1>5. \A i \in Nat \ {0} : i < e => Item(t, i) = Item(q, i)
  BY <1>2, <1>3, <1>4 DEF Item
<1>6. \A i \in Nat \ {0} : i >= e => Item(t, i) = Item(q, i + 1)
  BY <1>2, <1>3, <1>4 DEF Item
<1>7. Item(q, e) = 0 /\ Item(q, 5) = 0
  BY <1>2, <1>4 DEF Item
<1>8. e = 1 \/ e = 2 \/ e = 3 \/ e = 4
  BY <1>2, <1>4
<1>9. /\ SumOf(t) = Item(t, 1) + Item(t, 2) + Item(t, 3) + Item(t, 4)
      /\ SumOf(q) = Item(q, 1) + Item(q, 2) + Item(q, 3) + Item(q, 4)
  BY <1>3, Summed
<1>10. \A i \in Nat : Item(q, i) \in Nat
  BY Summed
<1>11. /\ Item(q, 1) \in Nat /\ Item(q, 2) \in Nat /\ Item(q, 3) \in Nat /\ Item(q, 4) \in Nat
  BY <1>10
<1>12. /\ Item(t, 1) = IF 1 < e THEN Item(q, 1) ELSE Item(q, 2)
       /\ Item(t, 2) = IF 2 < e THEN Item(q, 2) ELSE Item(q, 3)
       /\ Item(t, 3) = IF 3 < e THEN Item(q, 3) ELSE Item(q, 4)
       /\ Item(t, 4) = IF 4 < e THEN Item(q, 4) ELSE Item(q, 5)
  <2>1. Item(t, 1) = IF 1 < e THEN Item(q, 1) ELSE Item(q, 1 + 1)
    BY <1>5, <1>6, <1>8
  <2>2. Item(t, 2) = IF 2 < e THEN Item(q, 2) ELSE Item(q, 2 + 1)
    BY <1>5, <1>6, <1>8
  <2>3. Item(t, 3) = IF 3 < e THEN Item(q, 3) ELSE Item(q, 3 + 1)
    BY <1>5, <1>6, <1>8
  <2>4. Item(t, 4) = IF 4 < e THEN Item(q, 4) ELSE Item(q, 4 + 1)
    BY <1>5, <1>6, <1>8
  <2> QED  BY <2>1, <2>2, <2>3, <2>4
<1>13. SumOf(t) = SumOf(q)
  BY <1>7, <1>8, <1>9, <1>11, <1>12
<1> QED  BY <1>1, <1>13

\* Dropping an empty queue leaves a merge where it is.
LEMMA RemovedWithin ==
  ASSUME NEW g, NEW q, NEW o, NEW lo \in Nat, NEW hi \in Nat, Within(g, q, o, lo, hi),
         NEW e \in 1..Len(q), q[e] = 0
  PROVE  Within(RemoveAt(g, e), RemoveAt(q, e), o, lo, hi)
<1>1. /\ g \in Seq(Nat) /\ q \in Seq(Nat) /\ o \in Nat
      /\ Len(g) = Len(q) /\ Len(q) <= 4
      /\ \A i \in 1..Len(q) : lo <= g[i] /\ g[i] + q[i] <= hi
      /\ lo <= o /\ o + SumOf(q) <= hi
  BY DEF Within
<1>2. PICK h : h = RemoveAt(g, e)
  OBVIOUS
<1>3. PICK r : r = RemoveAt(q, e)
  OBVIOUS
<1>4. PICK n \in Nat : n = Len(q)
  BY <1>1
<1>5. h \in Seq(Nat) /\ Len(h) = n - 1
      /\ \A i \in 1..(n - 1) : h[i] = IF i < e THEN g[i] ELSE g[i + 1]
  <2>1. e \in 1..Len(g) /\ g \in Seq(Nat)
    BY <1>1
  <2> QED  BY <1>1, <1>2, <1>4, <2>1, Removed
<1>6. r \in Seq(Nat) /\ Len(r) = n - 1
      /\ \A i \in 1..(n - 1) : r[i] = IF i < e THEN q[i] ELSE q[i + 1]
  BY <1>1, <1>3, <1>4, Removed
<1>7. SumOf(r) = SumOf(q)
  BY <1>1, <1>3, SumRemoved
<1>8. ASSUME NEW i \in 1..(n - 1)
      PROVE  lo <= h[i] /\ h[i] + r[i] <= hi
  <2>1. i \in 1..n /\ i + 1 \in 1..n
    BY <1>4
  <2>2. CASE i < e
    BY <1>1, <1>4, <1>5, <1>6, <2>1, <2>2
  <2>3. CASE ~(i < e)
    <3>1. h[i] = g[i + 1] /\ r[i] = q[i + 1]
      BY <1>5, <1>6, <2>3
    <3>2. lo <= g[i + 1] /\ g[i + 1] + q[i + 1] <= hi
      BY <1>1, <1>4, <2>1
    <3> QED  BY <3>1, <3>2
  <2> QED  BY <2>2, <2>3
<1>9. Len(r) = Len(h) /\ Len(r) <= 4 /\ Len(r) = n - 1
  BY <1>1, <1>4, <1>5, <1>6
<1>10. Within(h, r, o, lo, hi)
  BY <1>1, <1>5, <1>6, <1>7, <1>8, <1>9 DEF Within
<1> QED  BY <1>2, <1>3, <1>10

\* A merge that drops its empty queue stays where it lies.
LEMMA Dropped ==
  ASSUME NEW g, NEW q, NEW o, NEW lo \in Nat, NEW hi \in Nat, Within(g, q, o, lo, hi)
  PROVE  Inside(DropEmpty([head |-> g, rest |-> q, out |-> o]), lo, hi)
<1>1. PICK m : m = [head |-> g, rest |-> q, out |-> o]
  OBVIOUS
<1>2. m.head = g /\ m.rest = q /\ m.out = o
  BY <1>1
<1>3. q \in Seq(Nat) /\ DOMAIN q = 1..Len(q)
  BY DEF Within
<1>4. CASE \A i \in DOMAIN q : q[i] # 0
  <2>1. DropEmpty(m) = m
    BY <1>2, <1>4 DEF DropEmpty
  <2> QED  BY <1>1, <1>2, <2>1 DEF Inside
<1>5. CASE \E i \in DOMAIN q : q[i] = 0
  <2>1. PICK e : e = CHOOSE i \in DOMAIN q : q[i] = 0
    OBVIOUS
  <2>2. e \in DOMAIN q /\ q[e] = 0
    BY <1>5, <2>1
  <2>3. DropEmpty(m) = [m EXCEPT !.head = RemoveAt(@, e), !.rest = RemoveAt(@, e)]
    BY <1>2, <1>5, <2>1 DEF DropEmpty
  <2>4. PICK d : d = DropEmpty(m)
    OBVIOUS
  <2>5. d.head = RemoveAt(g, e) /\ d.rest = RemoveAt(q, e) /\ d.out = o
    BY <1>1, <1>2, <2>3, <2>4
  <2>6. Within(RemoveAt(g, e), RemoveAt(q, e), o, lo, hi)
    BY <1>3, <2>2, RemovedWithin
  <2>7. Inside(d, lo, hi)
    BY <2>5, <2>6 DEF Inside
  <2> QED  BY <1>1, <2>4, <2>7
<1> QED  BY <1>4, <1>5

\* What one instruction takes of its chunks is not more than they have.
LEMMA TakenBounds ==
  ASSUME NEW n \in 2..4, NEW chunks, DOMAIN chunks = 1..n, Len(chunks) = n,
         NEW len \in [1..n -> Nat], \A i \in 1..n : Len(chunks[i]) = len[i],
         NEW k \in Taken(chunks)
  PROVE  k \in [1..n -> Nat] /\ \A i \in 1..n : k[i] <= len[i]
<1>1. BufferLen[n] \in Nat
  BY UniqueAssumption
<1>2. PICK u \in Nat : u = BufferLen[n]
  BY <1>1
<1>3. k \in [1..n -> 0..u]
  BY <1>2 DEF Taken
<1>4. \A i \in 1..n : k[i] \in Nat
  BY <1>3
<1>5. PICK e \in 1..n : /\ k[e] = len[e]
                        /\ \A i \in 1..n : i # e => k[i] < len[i]
  BY DEF Taken
<1>6. \A i \in 1..n : k[i] <= len[i]
  BY <1>4, <1>5
<1> QED  BY <1>3, <1>4, <1>6

\* The keys of n pairs are n.
LEMMA KeysLength ==
  ASSUME NEW m, NEW from, NEW n \in Nat
  PROVE  Len(KeysAt(m, from, n)) = n
<1>1. PICK s : s = [i \in 1..n |-> m[2 * (from + i - 1) + 1]]
  OBVIOUS
<1>2. DOMAIN s = 1..n
  BY <1>1
<1>3. Len(s) = n
  BY <1>1
<1> QED  BY <1>1, <1>3 DEF KeysAt

\* A round of a merge leaves it where it lies.
LEMMA RoundKept ==
  ASSUME NEW b \in Cores, DOMAIN merge = Cores, NEW lo \in Nat, NEW hi \in Nat,
         Inside(merge[b], lo, hi), MergeRound(b)
  PROVE  \E m : merge' = [merge EXCEPT ![b] = m] /\ Inside(m, lo, hi)
<1>1. PICK g : g = merge[b].head
  OBVIOUS
<1>2. PICK q : q = merge[b].rest
  OBVIOUS
<1>3. PICK o : o = merge[b].out
  OBVIOUS
<1>4. Within(g, q, o, lo, hi) /\ q \in Seq(Nat) /\ Len(q) \in 2..4
      /\ Len(g) = Len(q) /\ g \in Seq(Nat) /\ DOMAIN q = 1..Len(q) /\ o \in Nat
  <2>1. Within(g, q, o, lo, hi)
    BY <1>1, <1>2, <1>3 DEF Inside
  <2>2. Len(q) > 1
    BY <1>2 DEF MergeRound
  <2>3. q \in Seq(Nat) /\ Len(q) <= 4 /\ Len(g) = Len(q) /\ g \in Seq(Nat) /\ o \in Nat
    BY <2>1 DEF Within
  <2>4. DOMAIN q = 1..Len(q) /\ Len(q) \in Nat
    BY <2>3
  <2>5. Len(q) \in 2..4
    <3>1. \A n \in Nat : n > 1 /\ n <= 4 => n \in 2..4
      OBVIOUS
    <3>2. Len(q) > 1 /\ Len(q) <= 4 /\ Len(q) \in Nat
      BY <2>2, <2>3, <2>4
    <3> QED  BY <3>1, <3>2
  <2> QED  BY <2>1, <2>3, <2>4, <2>5
<1>5. PICK n \in 2..4 : n = Len(q)
  BY <1>4
<1>6. PICK u : u = [i \in 1..n |-> Lesser(q[i], BufferLen[n])]
  OBVIOUS
<1>7. u \in [1..n -> Nat] /\ \A i \in 1..n : u[i] <= q[i]
  <2>1. BufferLen[n] \in Nat
    BY UniqueAssumption
  <2>2. \A i \in 1..n : q[i] \in Nat
    BY <1>4, <1>5
  <2>3. \A i \in 1..n : Lesser(q[i], BufferLen[n]) \in Nat /\ Lesser(q[i], BufferLen[n]) <= q[i]
    BY <2>1, <2>2 DEF Lesser
  <2> QED  BY <1>6, <2>3
<1>8. PICK chunks : chunks = [i \in DOMAIN merge[b].rest |->
                     KeysAt(buf[cur[b]], merge[b].head[i],
                            Lesser(merge[b].rest[i], BufferLen[Len(merge[b].rest)]))]
  OBVIOUS
<1>9. DOMAIN chunks = 1..n /\ Len(chunks) = n /\ \A i \in 1..n : Len(chunks[i]) = u[i]
  <2>1. DOMAIN merge[b].rest = 1..n
    BY <1>2, <1>4, <1>5
  <2>2. \A i \in 1..n : chunks[i] = KeysAt(buf[cur[b]], g[i], u[i]) /\ u[i] \in Nat
    BY <1>1, <1>2, <1>5, <1>6, <1>7, <1>8, <2>1
  <2>3. \A i \in 1..n : Len(chunks[i]) = u[i]
    BY <2>2, KeysLength
  <2>4. DOMAIN chunks = 1..n
    BY <1>8, <2>1
  <2>5. Len(chunks) = n
    BY <2>1, <2>4, <1>8
  <2> QED  BY <2>3, <2>4, <2>5
<1>10. PICK k \in Taken(chunks) :
         merge' = [merge EXCEPT ![b] =
                     DropEmpty([head |-> [i \in DOMAIN merge[b].rest |-> merge[b].head[i] + k[i]],
                                rest |-> [i \in DOMAIN merge[b].rest |-> merge[b].rest[i] - k[i]],
                                out |-> merge[b].out + SumOf(k)])]
  BY <1>8, Zenon DEF MergeRound
<1>11. k \in [1..n -> Nat] /\ \A i \in 1..n : k[i] <= q[i]
  <2>1. k \in [1..n -> Nat] /\ \A i \in 1..n : k[i] <= u[i]
    BY <1>7, <1>9, TakenBounds
  <2>2. \A i \in 1..n : q[i] \in Nat /\ k[i] \in Nat /\ u[i] \in Nat
    BY <1>4, <1>5, <1>7, <2>1
  <2> QED  BY <1>7, <2>1, <2>2
<1>12. PICK h : h = [i \in 1..n |-> g[i] + k[i]]
  OBVIOUS
<1>13. PICK r : r = [i \in 1..n |-> q[i] - k[i]]
  OBVIOUS
<1>14. Within(h, r, o + SumOf(k), lo, hi)
  <2>1. n \in Nat /\ n = Len(q)
    BY <1>5
  <2> QED  BY <1>4, <1>11, <1>12, <1>13, <2>1, Shortened
<1>15. Inside(DropEmpty([head |-> h, rest |-> r, out |-> o + SumOf(k)]), lo, hi)
  BY <1>14, Dropped
<1>16. /\ [i \in DOMAIN merge[b].rest |-> merge[b].head[i] + k[i]] = h
       /\ [i \in DOMAIN merge[b].rest |-> merge[b].rest[i] - k[i]] = r
  <2>1. DOMAIN merge[b].rest = 1..n
    BY <1>2, <1>4, <1>5
  <2> QED  BY <1>1, <1>2, <1>12, <1>13, <2>1
<1>17. merge' = [merge EXCEPT ![b] = DropEmpty([head |-> h, rest |-> r, out |-> o + SumOf(k)])]
  BY <1>3, <1>10, <1>16, Zenon
<1> QED  BY <1>15, <1>17, Zenon

\* A function on 1..n is a sequence.
LEMMA IsSequence ==
  ASSUME NEW n \in Nat, NEW S, NEW f \in [1..n -> S]
  PROVE  f \in Seq(S) /\ Len(f) = n /\ DOMAIN f = 1..n
OBVIOUS

\* Runs that lie one behind the other can be merged in the place they fill.
LEMMA RunsFit ==
  ASSUME NEW lo \in Nat, NEW hi \in Nat, NEW n \in Nat, 1 <= n, n <= 4,
         NEW h \in [1..n -> Nat], NEW r \in [1..n -> Nat], lo <= h[1],
         \A i \in 1..n : i < n => h[i] + r[i] <= h[i + 1],
         \A i \in 1..n : lo <= h[i] /\ h[i] + r[i] <= hi
  PROVE  Within(h, r, h[1], lo, hi)
<1>1. h \in Seq(Nat) /\ r \in Seq(Nat) /\ Len(h) = n /\ Len(r) = n /\ DOMAIN r = 1..n
  BY IsSequence
<1>2. SumOf(r) = Item(r, 1) + Item(r, 2) + Item(r, 3) + Item(r, 4)
  BY <1>1, Summed
<1>3. \A i \in 1..n : h[i] \in Nat /\ r[i] \in Nat
  OBVIOUS
<1>4. SUFFICES h[1] + SumOf(r) <= hi
  <2>1. h[1] \in Nat
    BY <1>3
  <2> QED  BY <1>1, <2>1 DEF Within
<1>5. CASE n = 1
  <2>1. Item(r, 1) = r[1] /\ Item(r, 2) = 0 /\ Item(r, 3) = 0 /\ Item(r, 4) = 0
    BY <1>1, <1>5 DEF Item
  <2>2. h[1] \in Nat /\ r[1] \in Nat
    BY <1>3, <1>5
  <2>3. h[1] + r[1] <= hi
    BY <1>5
  <2>4. PICK a1 \in Nat : a1 = h[1]
    BY <2>2
  <2>5. PICK c1 \in Nat : c1 = r[1]
    BY <2>2
  <2>6. a1 + c1 <= hi
    BY <2>3, <2>4, <2>5
  <2>7. SumOf(r) = c1 + 0 + 0 + 0
    BY <1>2, <2>1, <2>4, <2>5
  <2>8. a1 + (c1 + 0 + 0 + 0) <= hi
    BY <2>6
  <2> QED  BY <2>4, <2>7, <2>8
<1>6. CASE n = 2
  <2>1. Item(r, 1) = r[1] /\ Item(r, 2) = r[2] /\ Item(r, 3) = 0 /\ Item(r, 4) = 0
    BY <1>1, <1>6 DEF Item
  <2>2. h[1] \in Nat /\ r[1] \in Nat /\ h[2] \in Nat /\ r[2] \in Nat
    BY <1>3, <1>6
  <2>3. h[1] + r[1] <= h[2] /\ h[2] + r[2] <= hi
    BY <1>6
  <2>4. PICK a1 \in Nat : a1 = h[1]
    BY <2>2
  <2>5. PICK c1 \in Nat : c1 = r[1]
    BY <2>2
  <2>6. PICK a2 \in Nat : a2 = h[2]
    BY <2>2
  <2>7. PICK c2 \in Nat : c2 = r[2]
    BY <2>2
  <2>8. a1 + c1 <= a2 /\ a2 + c2 <= hi
    BY <2>3, <2>4, <2>5, <2>6, <2>7
  <2>9. SumOf(r) = c1 + c2 + 0 + 0
    BY <1>2, <2>1, <2>4, <2>5, <2>6, <2>7
  <2>10. a1 + (c1 + c2 + 0 + 0) <= hi
    BY <2>8
  <2> QED  BY <2>4, <2>9, <2>10
<1>7. CASE n = 3
  <2>1. Item(r, 1) = r[1] /\ Item(r, 2) = r[2] /\ Item(r, 3) = r[3] /\ Item(r, 4) = 0
    BY <1>1, <1>7 DEF Item
  <2>2. h[1] \in Nat /\ r[1] \in Nat /\ h[2] \in Nat /\ r[2] \in Nat /\ h[3] \in Nat /\ r[3] \in Nat
    BY <1>3, <1>7
  <2>3. h[1] + r[1] <= h[2] /\ h[2] + r[2] <= h[3] /\ h[3] + r[3] <= hi
    BY <1>7
  <2>4. PICK a1 \in Nat : a1 = h[1]
    BY <2>2
  <2>5. PICK c1 \in Nat : c1 = r[1]
    BY <2>2
  <2>6. PICK a2 \in Nat : a2 = h[2]
    BY <2>2
  <2>7. PICK c2 \in Nat : c2 = r[2]
    BY <2>2
  <2>8. PICK a3 \in Nat : a3 = h[3]
    BY <2>2
  <2>9. PICK c3 \in Nat : c3 = r[3]
    BY <2>2
  <2>10. a1 + c1 <= a2 /\ a2 + c2 <= a3 /\ a3 + c3 <= hi
    BY <2>3, <2>4, <2>5, <2>6, <2>7, <2>8, <2>9
  <2>11. SumOf(r) = c1 + c2 + c3 + 0
    BY <1>2, <2>1, <2>4, <2>5, <2>6, <2>7, <2>8, <2>9
  <2>12. a1 + (c1 + c2 + c3 + 0) <= hi
    BY <2>10
  <2> QED  BY <2>4, <2>11, <2>12
<1>8. CASE n = 4
  <2>1. Item(r, 1) = r[1] /\ Item(r, 2) = r[2] /\ Item(r, 3) = r[3] /\ Item(r, 4) = r[4]
    BY <1>1, <1>8 DEF Item
  <2>2. h[1] \in Nat /\ r[1] \in Nat /\ h[2] \in Nat /\ r[2] \in Nat
        /\ h[3] \in Nat /\ r[3] \in Nat /\ h[4] \in Nat /\ r[4] \in Nat
    BY <1>3, <1>8
  <2>3. h[1] + r[1] <= h[2] /\ h[2] + r[2] <= h[3] /\ h[3] + r[3] <= h[4] /\ h[4] + r[4] <= hi
    BY <1>8
  <2>4. PICK a1 \in Nat : a1 = h[1]
    BY <2>2
  <2>5. PICK c1 \in Nat : c1 = r[1]
    BY <2>2
  <2>6. PICK a2 \in Nat : a2 = h[2]
    BY <2>2
  <2>7. PICK c2 \in Nat : c2 = r[2]
    BY <2>2
  <2>8. PICK a3 \in Nat : a3 = h[3]
    BY <2>2
  <2>9. PICK c3 \in Nat : c3 = r[3]
    BY <2>2
  <2>10. PICK a4 \in Nat : a4 = h[4]
    BY <2>2
  <2>11. PICK c4 \in Nat : c4 = r[4]
    BY <2>2
  <2>12. a1 + c1 <= a2 /\ a2 + c2 <= a3 /\ a3 + c3 <= a4 /\ a4 + c4 <= hi
    BY <2>3, <2>4, <2>5, <2>6, <2>7, <2>8, <2>9, <2>10, <2>11
  <2>13. SumOf(r) = c1 + c2 + c3 + c4
    BY <1>2, <2>1, <2>4, <2>5, <2>6, <2>7, <2>8, <2>9, <2>10, <2>11
  <2>14. a1 + (c1 + c2 + c3 + c4) <= hi
    BY <2>12
  <2> QED  BY <2>4, <2>13, <2>14
<1> QED  BY <1>5, <1>6, <1>7, <1>8

\* Where the runs of a group end: every run but the last ends where the next one
\* begins, and the last one not behind the group.
Ends(t, first, w, n, p, size) ==
  /\ 1 <= n /\ n <= 4 /\ p \in [1..n -> Nat]
  /\ \A i \in 1..n : /\ w * (i - 1) \in Nat /\ w * (i - 1) + p[i] \in Nat
                     /\ w * (i - 1) + p[i] <= size
                     /\ i < n => w * (i - 1) + p[i] = w * ((i + 1) - 1)
  /\ size \in Nat /\ first + size <= t

\* The ends of the runs are as the tiling promises.
LEMMA RunEnds ==
  ASSUME TilingAssumption, NEW t \in Nat, NEW first \in Nat, first < t,
         NEW w \in Nat \ {0}, NEW n \in Nat, n = QueueNum(t, w, first),
         NEW p, p = [i \in 1..n |-> QueueParts(t, w, first, i)]
  PROVE  Ends(t, first, w, n, p, GroupSize(t, w, first))
<1>1. 1 <= n /\ n <= 4 /\ GroupSize(t, w, first) \in Nat /\ first + GroupSize(t, w, first) <= t
  <2>1. GroupSize(t, w, first) \in 1..(t - first)
    BY RunsInside
  <2>2. n \in 1..4
    BY RunsInside
  <2>3. PICK g : g = GroupSize(t, w, first)
    OBVIOUS
  <2>4. g \in Nat /\ first + g <= t
    BY <2>1, <2>3
  <2> QED  BY <2>2, <2>3, <2>4
<1>2. \A i \in 1..n : /\ p[i] \in Nat /\ w * (i - 1) \in Nat
                      /\ w * (i - 1) + p[i] <= GroupSize(t, w, first)
  BY RunInside
<1>3. ASSUME NEW i \in 1..n, i < n PROVE w * (i - 1) + p[i] = w * ((i + 1) - 1)
  <2>1. p[i] = w
    BY <1>3 DEF QueueParts
  <2>2. w * ((i + 1) - 1) = w * (i - 1) + w
    OBVIOUS
  <2> QED  BY <2>1, <2>2
<1>4. p \in [1..n -> Nat]
  BY <1>2
<1>5. \A i \in 1..n : w * (i - 1) + p[i] \in Nat
  BY <1>2
<1> QED  BY <1>1, <1>2, <1>3, <1>4, <1>5 DEF Ends

\* The merge of a group of tiles lies in its block.
LEMMA BlockMergeInside ==
  ASSUME Called, NEW b \in Cores, NEW w \in Nat \ {0},
         NEW first \in Nat, first < tileNum(b),
         NEW n \in Nat, n = QueueNum(tileNum(b), w, first),
         NEW base \in Nat, base = Offset(b) + first * TileLength,
         NEW h, h = [i \in 1..n |-> base + w * (i - 1) * TileLength],
         NEW r, r = [i \in 1..n |-> QueueParts(tileNum(b), w, first, i) * TileLength]
  PROVE  Within(h, r, base, Offset(b), Offset(b + 1))
<1>1. PICK t \in Nat \ {0} : t = tileNum(b)
  BY BlockFacts
<1>2. TilingAssumption /\ TileLength \in Nat
  BY TilingAssumption DEF TilingAssumption
<1>3. PICK lo \in Nat : lo = Offset(b)
  <2>1. b \in 0..blockNum
    BY CallFacts
  <2> QED  BY <2>1, OffsetGrows
<1>4. PICK hi \in Nat : hi = lo + t * TileLength /\ hi = Offset(b + 1)
  BY <1>1, <1>2, <1>3, BlockFacts
<1>5. PICK p : p = [i \in 1..n |-> QueueParts(t, w, first, i)]
  OBVIOUS
<1>6. PICK g \in Nat : g = GroupSize(t, w, first)
  BY <1>1, <1>2, RunsInside
<1>7. /\ 1 <= n /\ n <= 4 /\ p \in [1..n -> Nat]
      /\ \A i \in 1..n : /\ w * (i - 1) \in Nat /\ w * (i - 1) + p[i] \in Nat
                         /\ w * (i - 1) + p[i] <= g
                         /\ i < n => w * (i - 1) + p[i] = w * ((i + 1) - 1)
      /\ first + g <= t
  <2>1. n = QueueNum(t, w, first) /\ first < t /\ t \in Nat
    BY <1>1
  <2>2. Ends(t, first, w, n, p, GroupSize(t, w, first))
    BY <1>2, <1>5, <2>1, RunEnds
  <2>3. Ends(t, first, w, n, p, g)
    BY <1>6, <2>2
  <2> QED  BY <2>3 DEF Ends
<1>8. ASSUME NEW i \in 1..n
      PROVE  /\ h[i] \in Nat /\ r[i] \in Nat
             /\ lo <= h[i] /\ h[i] + r[i] <= hi
             /\ i < n => h[i] + r[i] <= h[i + 1]
  <2>1. PICK x \in Nat : x = w * (i - 1)
    BY <1>7
  <2>2. PICK y \in Nat : y = p[i]
    BY <1>7
  <2>3. h[i] = base + x * TileLength /\ r[i] = y * TileLength
    BY <1>1, <1>5, <2>1, <2>2
  <2>4. x + y <= g /\ first + g <= t
    BY <1>7, <2>1, <2>2
  <2>5. x * TileLength \in Nat /\ y * TileLength \in Nat
        /\ x * TileLength + y * TileLength = (x + y) * TileLength
    BY <1>2
  <2>6. (first + (x + y)) * TileLength <= t * TileLength
        /\ (first + (x + y)) * TileLength = first * TileLength + (x + y) * TileLength
    <3>1. first + (x + y) \in Nat /\ first + (x + y) <= t
      BY <2>4
    <3>2. PICK z \in Nat : z = first + (x + y)
      BY <3>1
    <3>3. z * TileLength <= t * TileLength
      BY <1>2, <3>1, <3>2
    <3>4. (first + (x + y)) * TileLength = first * TileLength + (x + y) * TileLength
      BY <1>2
    <3> QED  BY <3>2, <3>3, <3>4
  <2>7. first * TileLength \in Nat /\ t * TileLength \in Nat /\ (x + y) * TileLength \in Nat
    BY <1>2
  <2>8. h[i] + r[i] <= hi
    <3>1. PICK u \in Nat : u = first * TileLength
      BY <2>7
    <3>2. PICK v \in Nat : v = t * TileLength
      BY <2>7
    <3>3. PICK z \in Nat : z = (x + y) * TileLength
      BY <2>7
    <3>4. h[i] + r[i] = base + z
      BY <2>3, <2>5, <3>3
    <3>5. base = lo + u /\ hi = lo + v /\ u + z <= v
      BY <1>3, <1>4, <2>6, <3>1, <3>2, <3>3
    <3> QED  BY <3>4, <3>5
  <2>9. ASSUME i < n PROVE h[i] + r[i] = h[i + 1]
    <3>1. x + y = w * ((i + 1) - 1) /\ i + 1 \in 1..n
      BY <1>7, <2>1, <2>2, <2>9
    <3>2. h[i + 1] = base + (x + y) * TileLength
      BY <3>1
    <3> QED  BY <2>3, <2>5, <3>2
  <2>10. h[i] \in Nat /\ r[i] \in Nat
    BY <2>3, <2>5
  <2>11. lo <= h[i]
    <3>1. first * TileLength \in Nat /\ x * TileLength \in Nat
      BY <1>2
    <3> QED  BY <1>3, <2>3, <3>1
  <2>12. i < n => h[i] + r[i] <= h[i + 1]
    <3>1. h[i] + r[i] \in Nat
      BY <2>10
    <3> QED  BY <2>9, <3>1
  <2> QED  BY <2>8, <2>10, <2>11, <2>12
<1>9. h \in [1..n -> Nat] /\ r \in [1..n -> Nat]
  BY <1>8
<1>10. h[1] = base /\ lo <= base
  <2>1. 1 \in 1..n
    BY <1>7
  <2>2. h[1] = base + (w * 0) * TileLength
    BY <2>1
  <2>3. (w * 0) * TileLength = 0
    BY <1>2
  <2>4. first * TileLength \in Nat
    BY <1>2
  <2> QED  BY <1>3, <2>2, <2>3, <2>4
<1>11. \A i \in 1..n : lo <= h[i] /\ h[i] + r[i] <= hi
  BY <1>8
<1>12. Within(h, r, h[1], lo, hi)
  <2>1. 1 <= n /\ n <= 4
    BY <1>7
  <2>2. lo <= h[1]
    BY <1>3, <1>10
  <2>3. \A i \in 1..n : i < n => h[i] + r[i] <= h[i + 1]
    BY <1>8
  <2> QED  BY <1>9, <1>11, <2>1, <2>2, <2>3, RunsFit
<1> QED  BY <1>3, <1>4, <1>10, <1>12

\* The merge of a group of blocks lies in these blocks.
LEMMA GlobalMergeInside ==
  ASSUME Called, NEW b \in Cores, NEW w \in Nat \ {0},
         NEW n \in Nat, n = QueueNum(blockNum, w, b),
         NEW h, h = [i \in 1..n |-> Offset(b + w * (i - 1))],
         NEW r, r = [i \in 1..n |-> Offset(b + w * (i - 1) + QueueParts(blockNum, w, b, i))
                                      - Offset(b + w * (i - 1))],
         NEW e, e = b + GroupSize(blockNum, w, b)
  PROVE  Within(h, r, Offset(b), Offset(b), Offset(e))
<1>1. PICK t \in Nat \ {0} : t = blockNum
  BY CallFacts
<1>2. TilingAssumption /\ b \in Nat /\ b < t
  BY <1>1, CallFacts
<1>3. PICK p : p = [i \in 1..n |-> QueueParts(t, w, b, i)]
  OBVIOUS
<1>4. PICK g \in Nat : g = GroupSize(t, w, b)
  BY <1>1, <1>2, RunsInside
<1>5. /\ 1 <= n /\ n <= 4 /\ p \in [1..n -> Nat]
      /\ \A i \in 1..n : /\ w * (i - 1) \in Nat /\ w * (i - 1) + p[i] \in Nat
                         /\ w * (i - 1) + p[i] <= g
                         /\ i < n => w * (i - 1) + p[i] = w * ((i + 1) - 1)
      /\ b + g <= t
  <2>1. n = QueueNum(t, w, b) /\ t \in Nat
    BY <1>1
  <2>2. Ends(t, b, w, n, p, GroupSize(t, w, b))
    BY <1>2, <1>3, <2>1, RunEnds
  <2>3. Ends(t, b, w, n, p, g)
    BY <1>4, <2>2
  <2> QED  BY <2>3 DEF Ends
<1>6. PICK lo \in Nat : lo = Offset(b)
  BY <1>1, <1>2, OffsetGrows
<1>7. PICK hi \in Nat : hi = Offset(e)
  BY <1>1, <1>2, <1>4, <1>5, OffsetGrows
<1>8. ASSUME NEW i \in 1..n
      PROVE  /\ h[i] \in Nat /\ r[i] \in Nat
             /\ lo <= h[i] /\ h[i] + r[i] <= hi
             /\ i < n => h[i] + r[i] <= h[i + 1]
  <2>1. PICK x \in Nat : x = w * (i - 1)
    BY <1>5
  <2>2. PICK y \in Nat : y = p[i]
    BY <1>5
  <2>3. h[i] = Offset(b + x) /\ r[i] = Offset(b + x + y) - Offset(b + x)
    BY <1>1, <1>3, <2>1, <2>2
  <2>4. x + y <= g /\ b + g <= t
    BY <1>5, <2>1, <2>2
  <2>5. /\ Offset(b + x) \in Nat /\ Offset(b + x + y) \in Nat
        /\ Offset(b + x) <= Offset(b + x + y)
    <3>1. b + x \in 0..blockNum /\ b + x + y \in (b + x)..blockNum
      BY <1>1, <1>2, <2>4
    <3> QED  BY <3>1, OffsetGrows
  <2>6. Offset(b + x + y) <= Offset(b + g)
    <3>1. b + x + y \in 0..blockNum /\ b + g \in (b + x + y)..blockNum
      BY <1>1, <1>2, <2>4
    <3> QED  BY <3>1, OffsetGrows
  <2>7. e = b + g
    BY <1>1, <1>4
  <2>8. h[i] + r[i] = Offset(b + x + y) /\ h[i] \in Nat /\ r[i] \in Nat
    BY <2>3, <2>5
  <2>9. ASSUME i < n PROVE h[i] + r[i] = h[i + 1]
    <3>1. x + y = w * ((i + 1) - 1) /\ i + 1 \in 1..n
      BY <1>5, <2>1, <2>2, <2>9
    <3>2. h[i + 1] = Offset(b + (x + y))
      BY <3>1
    <3>3. b + (x + y) = b + x + y
      BY <1>2
    <3> QED  BY <2>8, <3>2, <3>3
  <2>10. h[i] + r[i] <= hi
    BY <1>7, <2>6, <2>7, <2>8
  <2>11. i < n => h[i] + r[i] <= h[i + 1]
    <3>1. h[i] + r[i] \in Nat
      BY <2>8
    <3> QED  BY <2>9, <3>1
  <2>12. lo <= h[i]
    <3>1. b \in 0..blockNum /\ b + x \in b..blockNum
      BY <1>1, <1>2, <2>4
    <3>2. Offset(b) <= Offset(b + x)
      BY <3>1, OffsetGrows
    <3> QED  BY <1>6, <2>3, <3>2
  <2> QED  BY <2>8, <2>10, <2>11, <2>12
<1>9. h \in [1..n -> Nat] /\ r \in [1..n -> Nat]
  BY <1>8
<1>10. h[1] = lo
  <2>1. 1 \in 1..n
    BY <1>5
  <2>2. h[1] = Offset(b + w * 0)
    BY <2>1
  <2>3. b + w * 0 = b
    BY <1>2
  <2> QED  BY <1>6, <2>2, <2>3
<1>11. \A i \in 1..n : lo <= h[i] /\ h[i] + r[i] <= hi
  BY <1>8
<1>12. Within(h, r, h[1], lo, hi)
  <2>1. 1 <= n /\ n <= 4
    BY <1>5
  <2>2. lo <= h[1]
    BY <1>6, <1>10
  <2>3. \A i \in 1..n : i < n => h[i] + r[i] <= h[i + 1]
    BY <1>8
  <2> QED  BY <1>9, <1>11, <2>1, <2>2, <2>3, RunsFit
<1> QED  BY <1>6, <1>7, <1>10, <1>12

-----------------------------------------------------------------------------
(* The steps of each phase *)

\* The call does not change, nor what depends on it alone.
LEMMA CallKept ==
  ASSUME UNCHANGED call
  PROVE  /\ input' = input /\ aivNum' = aivNum /\ stale' = stale
         /\ blockNum' = blockNum /\ Cores' = Cores
         /\ \A b : Offset(b)' = Offset(b) /\ tileNum(b)' = tileNum(b)
<1>1. input' = input /\ aivNum' = aivNum /\ stale' = stale
  BY DEF call
<1>2. total' = total
  BY <1>1 DEF total
<1>3. blockNum' = blockNum
  BY <1>1, <1>2 DEF blockNum
<1>4. Cores' = Cores
  BY <1>3 DEF Cores
<1>5. \A b : Offset(b)' = Offset(b)
  BY <1>1, <1>2 DEF Offset
<1>6. \A b : tileNum(b)' = tileNum(b)
  BY <1>1, <1>2 DEF tileNum
<1> QED  BY <1>1, <1>3, <1>4, <1>5, <1>6

\* A merge that is somewhere has the shape of one.
LEMMA MergeShape ==
  ASSUME NEW m, m = NoMerge \/ \E lo, hi : Inside(m, lo, hi)
  PROVE  Len(m.rest) = Len(m.head) /\ Len(m.rest) <= 4
<1>1. CASE m = NoMerge
  <2>1. m.rest = <<>> /\ m.head = <<>>
    BY <1>1 DEF NoMerge
  <2> QED  BY <2>1
<1>2. CASE \E lo, hi : Inside(m, lo, hi)
  BY <1>2 DEF Inside, Within
<1> QED  BY <1>1, <1>2

\* The cores are in one phase.
LEMMA OnePhase ==
  ASSUME UniqueInv, NEW b \in Cores
  PROVE  /\ pc[b] \in Sorting => \A c \in Cores : pc[c] \in Sorting
         /\ pc[b] \in Gathering => \A c \in Cores : pc[c] \in Gathering
         /\ pc[b] \in Packing => \A c \in Cores : pc[c] \in Packing
BY DEF UniqueInv, PhaseOK, Sorting, Gathering, Packing

\* What a step changes while the blocks are sorted.
LEMMA SortingStep ==
  ASSUME UniqueInv, NEW b \in Cores, pc[b] \in Sorting,
         UNCHANGED <<call, flags, eventID, waits, tile, hasInf>>,
         NEW p \in Sorting, pc' = [pc EXCEPT ![b] = p],
         p # "tiles" => blockNum > 1,
         NEW m, merge' = [merge EXCEPT ![b] = m],
         NEW w \in Nat \ {0}, bind' = [bind EXCEPT ![b] = w],
         p # "block" => w = 1 /\ m = NoMerge,
         m # NoMerge => Inside(m, Offset(b), Offset(b + 1)),
         cur' \in [Cores -> 1..2], group' \in [Cores -> Nat]
  PROVE  UniqueInv'
<1>1. /\ input' = input /\ aivNum' = aivNum /\ stale' = stale
      /\ blockNum' = blockNum /\ Cores' = Cores
      /\ \A c : Offset(c)' = Offset(c)
  BY CallKept
<1>2. ControlOK /\ DOMAIN merge = Cores /\ SortingOK /\ \A c \in Cores : pc[c] \in Sorting
  BY OnePhase DEF UniqueInv
<1>3. merge = [c \in Cores |-> merge[c]]
  BY DEF UniqueInv
<1>4. flags' = flags /\ eventID' = eventID /\ waits' = waits /\ tile' = tile /\ hasInf' = hasInf
  OBVIOUS
<1>5. pc \in [Cores -> {"tiles", "block", "sync1", "global", "sync2",
                        "unique", "chain", "copy", "done"}]
      /\ bind \in [Cores -> Nat \ {0}]
  BY <1>2 DEF ControlOK
<1>6. \A c \in Cores : pc'[c] = IF c = b THEN p ELSE pc[c]
  BY <1>5
<1>7. \A c \in Cores : bind'[c] = IF c = b THEN w ELSE bind[c]
  BY <1>5
<1>8. \A c \in Cores : merge'[c] = IF c = b THEN m ELSE merge[c]
  BY <1>2
<1>9. \A c \in Cores : pc'[c] \in Sorting
  BY <1>2, <1>6
<1>10. SortingOK'
  <2> SUFFICES ASSUME NEW c \in Cores
               PROVE  /\ flags' = {} /\ eventID'[c] = 0 /\ waits'[c] = 1
                      /\ pc'[c] # "tiles" => blockNum > 1
                      /\ pc'[c] # "block" => bind'[c] = 1 /\ merge'[c] = NoMerge
                      /\ merge'[c] # NoMerge =>
                           Inside(merge'[c], Offset(c), Offset(c + 1))
    BY <1>1 DEF SortingOK
  <2>1. /\ flags = {} /\ eventID[c] = 0 /\ waits[c] = 1
        /\ pc[c] # "tiles" => blockNum > 1
        /\ pc[c] # "block" => bind[c] = 1 /\ merge[c] = NoMerge
        /\ merge[c] # NoMerge => Inside(merge[c], Offset(c), Offset(c + 1))
    BY <1>2 DEF SortingOK
  <2>2. CASE c = b
    <3>1. pc'[c] = p /\ bind'[c] = w /\ merge'[c] = m
      BY <1>6, <1>7, <1>8, <2>2
    <3> QED  BY <1>4, <2>1, <2>2, <3>1
  <2>3. CASE c # b
    <3>1. pc'[c] = pc[c] /\ bind'[c] = bind[c] /\ merge'[c] = merge[c]
      BY <1>6, <1>7, <1>8, <2>3
    <3> QED  BY <1>4, <2>1, <3>1
  <2> QED  BY <2>2, <2>3
<1>11. \A c \in Cores : /\ Len(merge'[c].rest) = Len(merge'[c].head)
                        /\ Len(merge'[c].rest) <= 4
  <2> SUFFICES ASSUME NEW c \in Cores
               PROVE  /\ Len(merge'[c].rest) = Len(merge'[c].head)
                      /\ Len(merge'[c].rest) <= 4
    OBVIOUS
  <2>1. merge'[c] = NoMerge \/ \E lo, hi : Inside(merge'[c], lo, hi)
    BY <1>1, <1>9, <1>10 DEF SortingOK
  <2> QED  BY <2>1, MergeShape
<1>12. ControlOK'
  <2>1. <<input, aivNum>>' \in Calls /\ stale' \in Stale
    BY <1>1, <1>2 DEF ControlOK
  <2>2. flags' \subseteq Cores' \X (0..7)
    BY <1>1, <1>2, <1>4 DEF ControlOK
  <2>3. pc' \in [Cores' -> {"tiles", "block", "sync1", "global", "sync2",
                            "unique", "chain", "copy", "done"}]
    BY <1>1, <1>5 DEF Sorting
  <2>4. bind' \in [Cores' -> Nat \ {0}]
    BY <1>1, <1>5
  <2>5. /\ waits' \in [Cores' -> 1..4] /\ eventID' \in [Cores' -> 0..7]
        /\ tile' \in [Cores' -> Nat] /\ hasInf' \in [Cores' -> BOOLEAN]
    BY <1>1, <1>2, <1>4 DEF ControlOK
  <2>6. cur' \in [Cores' -> 1..2] /\ group' \in [Cores' -> Nat]
    BY <1>1
  <2> QED  BY <1>1, <1>11, <2>1, <2>2, <2>3, <2>4, <2>5, <2>6 DEF ControlOK
<1>13. merge' = [c \in Cores' |-> merge'[c]]
  BY <1>1, <1>2, <1>3
<1>14. PhaseOK' /\ GatheringOK' /\ PackingOK'
  <2>1. PhaseOK'
    BY <1>1, <1>9 DEF PhaseOK
  <2>2. \A c \in Cores : pc'[c] \notin Gathering /\ pc'[c] \notin Packing
    BY <1>9 DEF Sorting, Gathering, Packing
  <2>3. GatheringOK'
    BY <1>1, <2>2 DEF GatheringOK
  <2>4. PackingOK'
    BY <1>1, <2>2 DEF PackingOK
  <2> QED  BY <2>1, <2>3, <2>4
<1> QED  BY <1>10, <1>12, <1>13, <1>14 DEF UniqueInv

\* What a step changes while the blocks are merged.
LEMMA GatheringStep ==
  ASSUME UniqueInv, NEW b \in Cores, pc[b] \in Gathering,
         UNCHANGED <<call, group, tile, hasInf>>,
         NEW p \in Gathering, pc' = [pc EXCEPT ![b] = p],
         NEW m, merge' = [merge EXCEPT ![b] = m],
         m = NoMerge \/ \E lo, hi : Inside(m, lo, hi),
         cur' \in [Cores -> 1..2], bind' \in [Cores -> Nat \ {0}],
         waits' \in [Cores -> 1..4], eventID' \in [Cores -> 0..7],
         flags' \subseteq Cores \X (0..7),
         \A c \in Cores : LevelOK(c)',
         \A f \in flags' : FlagOK(f[1], f[2])'
  PROVE  UniqueInv'
<1>1. /\ input' = input /\ aivNum' = aivNum /\ stale' = stale
      /\ blockNum' = blockNum /\ Cores' = Cores
      /\ \A c : Offset(c)' = Offset(c)
  BY CallKept
<1>2. ControlOK /\ DOMAIN merge = Cores /\ GatheringOK /\ \A c \in Cores : pc[c] \in Gathering
  BY OnePhase DEF UniqueInv
<1>3. merge = [c \in Cores |-> merge[c]]
  BY DEF UniqueInv
<1>4. pc \in [Cores -> {"tiles", "block", "sync1", "global", "sync2",
                        "unique", "chain", "copy", "done"}]
  BY <1>2 DEF ControlOK
<1>5. \A c \in Cores : pc'[c] \in Gathering
  BY <1>2, <1>4
<1>6. GatheringOK'
  BY <1>1 DEF GatheringOK
<1>7. \A c \in Cores : /\ Len(merge'[c].rest) = Len(merge'[c].head)
                        /\ Len(merge'[c].rest) <= 4
  <2> SUFFICES ASSUME NEW c \in Cores
               PROVE  /\ Len(merge'[c].rest) = Len(merge'[c].head)
                      /\ Len(merge'[c].rest) <= 4
    OBVIOUS
  <2>1. CASE c = b
    <3>1. merge'[c] = m
      BY <1>2, <2>1
    <3> QED  BY <3>1, MergeShape
  <2>2. CASE c # b
    <3>1. merge'[c] = merge[c]
      BY <1>2, <2>2
    <3> QED  BY <1>2, <3>1 DEF ControlOK
  <2> QED  BY <2>1, <2>2
<1>8. ControlOK'
  <2>1. <<input, aivNum>>' \in Calls /\ stale' \in Stale
    BY <1>1, <1>2 DEF ControlOK
  <2>2. flags' \subseteq Cores' \X (0..7)
    BY <1>1
  <2>3. pc' \in [Cores' -> {"tiles", "block", "sync1", "global", "sync2",
                            "unique", "chain", "copy", "done"}]
    BY <1>1, <1>4 DEF Gathering
  <2>4. group' \in [Cores' -> Nat] /\ tile' \in [Cores' -> Nat] /\ hasInf' \in [Cores' -> BOOLEAN]
    BY <1>1, <1>2 DEF ControlOK
  <2>5. /\ cur' \in [Cores' -> 1..2] /\ bind' \in [Cores' -> Nat \ {0}]
        /\ waits' \in [Cores' -> 1..4] /\ eventID' \in [Cores' -> 0..7]
    BY <1>1
  <2> QED  BY <1>1, <1>7, <2>1, <2>2, <2>3, <2>4, <2>5 DEF ControlOK
<1>9. merge' = [c \in Cores' |-> merge'[c]]
  BY <1>1, <1>2, <1>3
<1>10. PhaseOK' /\ SortingOK' /\ PackingOK'
  <2>1. PhaseOK'
    BY <1>1, <1>5 DEF PhaseOK
  <2>2. \A c \in Cores : pc'[c] \notin Sorting /\ pc'[c] \notin Packing
    BY <1>5 DEF Sorting, Gathering, Packing
  <2>3. SortingOK'
    BY <1>1, <2>2 DEF SortingOK
  <2>4. PackingOK'
    BY <1>1, <2>2 DEF PackingOK
  <2> QED  BY <2>1, <2>3, <2>4
<1> QED  BY <1>6, <1>8, <1>9, <1>10 DEF UniqueInv

\* What a step changes while the duplicates are dropped.
LEMMA PackingStep ==
  ASSUME UniqueInv, NEW b \in Cores, pc[b] \in Packing,
         UNCHANGED <<call, sorting>>,
         NEW p \in Packing, pc' = [pc EXCEPT ![b] = p],
         pc[b] \in Written => p \in Written,
         p \in Written => \A c \in Cores : c < b => pc[c] \in Written,
         flags' \subseteq Cores \X (0..7),
         \A f \in flags' : f \in flags \/ (f[1] = b /\ p \in Written),
         tile' \in [Cores -> Nat], hasInf' \in [Cores -> BOOLEAN]
  PROVE  UniqueInv'
<1>1. /\ input' = input /\ aivNum' = aivNum /\ stale' = stale
      /\ blockNum' = blockNum /\ Cores' = Cores
  BY CallKept
<1>2. ControlOK /\ DOMAIN merge = Cores /\ PackingOK /\ \A c \in Cores : pc[c] \in Packing
  BY OnePhase DEF UniqueInv
<1>3. merge = [c \in Cores |-> merge[c]]
  BY DEF UniqueInv
<1>4. cur' = cur /\ bind' = bind /\ group' = group /\ waits' = waits /\ merge' = merge
      /\ eventID' = eventID
  BY DEF sorting
<1>5. pc \in [Cores -> {"tiles", "block", "sync1", "global", "sync2",
                        "unique", "chain", "copy", "done"}]
  BY <1>2 DEF ControlOK
<1>6. \A c \in Cores : pc'[c] = IF c = b THEN p ELSE pc[c]
  BY <1>5
<1>7. \A c \in Cores : pc'[c] \in Packing
  BY <1>2, <1>6
<1>8. \A c \in Cores : pc[c] \in Written => pc'[c] \in Written
  BY <1>6
<1>9. PackingOK'
  <2> SUFFICES ASSUME NEW c \in Cores
               PROVE  /\ merge'[c] = NoMerge
                      /\ \A d \in Cores : eventID'[d] = eventID'[c]
                      /\ \A d \in Cores : d < c /\ pc'[c] \in Written => pc'[d] \in Written
                      /\ \A f \in flags' : f[2] < eventID'[f[1]] \/ pc'[f[1]] \in Written
    BY <1>1 DEF PackingOK
  <2>1. merge'[c] = NoMerge /\ \A d \in Cores : eventID'[d] = eventID'[c]
    BY <1>2, <1>4 DEF PackingOK
  <2>2. ASSUME NEW d \in Cores, d < c, pc'[c] \in Written PROVE pc'[d] \in Written
    <3>1. CASE c = b
      <4>1. p \in Written
        BY <1>6, <2>2, <3>1
      <4>2. pc[d] \in Written
        BY <2>2, <3>1, <4>1
      <4> QED  BY <1>8, <4>2
    <3>2. CASE c # b
      <4>1. pc[c] \in Written
        BY <1>6, <2>2, <3>2
      <4>2. pc[d] \in Written
        BY <1>2, <2>2, <4>1 DEF PackingOK
      <4> QED  BY <1>8, <4>2
    <3> QED  BY <3>1, <3>2
  <2>3. ASSUME NEW f \in flags' PROVE f[2] < eventID'[f[1]] \/ pc'[f[1]] \in Written
    <3>1. CASE f \in flags
      <4>1. f[2] < eventID[f[1]] \/ pc[f[1]] \in Written
        BY <1>2, <3>1 DEF PackingOK
      <4>2. f[1] \in Cores
        BY <1>2, <3>1 DEF ControlOK
      <4> QED  BY <1>4, <1>8, <4>1, <4>2
    <3>2. CASE f[1] = b /\ p \in Written
      BY <1>6, <3>2
    <3> QED  BY <2>3, <3>1, <3>2
  <2> QED  BY <2>1, <2>2, <2>3
<1>10. ControlOK'
  <2>1. <<input, aivNum>>' \in Calls /\ stale' \in Stale
    BY <1>1, <1>2 DEF ControlOK
  <2>2. flags' \subseteq Cores' \X (0..7)
    BY <1>1
  <2>3. pc' \in [Cores' -> {"tiles", "block", "sync1", "global", "sync2",
                            "unique", "chain", "copy", "done"}]
    BY <1>1, <1>5 DEF Packing
  <2>4. tile' \in [Cores' -> Nat] /\ hasInf' \in [Cores' -> BOOLEAN]
    BY <1>1
  <2>5. /\ cur' \in [Cores' -> 1..2] /\ bind' \in [Cores' -> Nat \ {0}]
        /\ waits' \in [Cores' -> 1..4] /\ eventID' \in [Cores' -> 0..7]
        /\ group' \in [Cores' -> Nat]
    BY <1>1, <1>2, <1>4 DEF ControlOK
  <2>6. \A c \in Cores' : /\ Len(merge'[c].rest) = Len(merge'[c].head)
                          /\ Len(merge'[c].rest) <= 4
    BY <1>1, <1>2, <1>4 DEF ControlOK
  <2> QED  BY <2>1, <2>2, <2>3, <2>4, <2>5, <2>6 DEF ControlOK
<1>11. merge' = [c \in Cores' |-> merge'[c]]
  BY <1>1, <1>2, <1>4, <1>3
<1>12. PhaseOK' /\ SortingOK' /\ GatheringOK'
  <2>1. PhaseOK'
    BY <1>1, <1>7 DEF PhaseOK
  <2>2. \A c \in Cores : pc'[c] \notin Sorting /\ pc'[c] \notin Gathering
    BY <1>7 DEF Sorting, Gathering, Packing
  <2>3. SortingOK'
    BY <1>1, <2>2 DEF SortingOK
  <2>4. GatheringOK'
    BY <1>1, <2>2 DEF GatheringOK
  <2> QED  BY <2>1, <2>3, <2>4
<1> QED  BY <1>9, <1>10, <1>11, <1>12 DEF UniqueInv

-----------------------------------------------------------------------------
(* The start *)

\* The invariant holds when the kernel is called.
LEMMA InitInv ==
  ASSUME Init PROVE UniqueInv
<1>1. Called
  <2>1. PICK c \in Calls : input = c[1] /\ aivNum = c[2]
    BY DEF Init
  <2>2. c = <<c[1], c[2]>>
    BY UniqueAssumption
  <2> QED  BY <2>1, <2>2 DEF Called
<1>2. blockNum \in Nat \ {0} /\ Cores = 0..(blockNum - 1)
  BY <1>1, CallFacts
<1>3. \A b \in Cores : merge[b] = NoMerge /\ pc[b] = "tiles" /\ bind[b] = 1
                       /\ eventID[b] = 0 /\ waits[b] = 1
  BY DEF Init
<1>4. \A b \in Cores : Len(merge[b].rest) = Len(merge[b].head) /\ Len(merge[b].rest) <= 4
  BY <1>3, MergeShape
<1>5. ControlOK
  <2>1. <<input, aivNum>> \in Calls /\ stale \in Stale
    BY <1>1 DEF Init, Called
  <2>2. flags \subseteq Cores \X (0..7)
    BY DEF Init
  <2>3. pc \in [Cores -> {"tiles", "block", "sync1", "global", "sync2",
                          "unique", "chain", "copy", "done"}]
    BY DEF Init
  <2>4. cur \in [Cores -> 1..2] /\ bind \in [Cores -> Nat \ {0}] /\ group \in [Cores -> Nat]
        /\ waits \in [Cores -> 1..4]
    BY DEF Init
  <2>5. eventID \in [Cores -> 0..7] /\ tile \in [Cores -> Nat] /\ hasInf \in [Cores -> BOOLEAN]
    BY DEF Init
  <2> QED  BY <1>4, <2>1, <2>2, <2>3, <2>4, <2>5 DEF ControlOK
<1>6. merge = [b \in Cores |-> merge[b]]
  BY DEF Init
<1>7. \A b \in Cores : pc[b] \in Sorting /\ pc[b] \notin Gathering /\ pc[b] \notin Packing
  BY <1>3 DEF Sorting, Gathering, Packing
<1>8. PhaseOK /\ GatheringOK /\ PackingOK
  BY <1>7 DEF PhaseOK, GatheringOK, PackingOK
<1>9. SortingOK
  BY <1>3 DEF SortingOK, Init
<1> QED  BY <1>5, <1>6, <1>8, <1>9 DEF UniqueInv

-----------------------------------------------------------------------------
(* Sorting a block *)

\* A core that has sorted its tiles sorts its block, or drops duplicates at once
\* if it is the only core.
LEMMA SortTilesStep ==
  ASSUME UniqueInv, NEW b \in Cores, SortTiles(b) PROVE UniqueInv'
<1>1. pc[b] = "tiles" /\ UNCHANGED <<call, flags, sorting, packing>>
  BY DEF SortTiles
<1>2. /\ cur' = cur /\ bind' = bind /\ group' = group /\ waits' = waits /\ merge' = merge
      /\ eventID' = eventID /\ tile' = tile /\ hasInf' = hasInf
  BY <1>1 DEF sorting, packing
<1>3. ControlOK /\ merge = [c \in Cores |-> merge[c]] /\ SortingOK
  BY DEF UniqueInv
<1>4. pc[b] \in Sorting
  BY <1>1 DEF Sorting
<1>5. bind \in [Cores -> Nat \ {0}] /\ cur \in [Cores -> 1..2] /\ group \in [Cores -> Nat]
  BY <1>3 DEF ControlOK
<1>6. bind[b] = 1 /\ merge[b] = NoMerge
  BY <1>1, <1>3, <1>4 DEF SortingOK
<1>7. Called
  BY <1>3 DEF ControlOK, Called
<1>8. blockNum \in Nat \ {0} /\ Cores = 0..(blockNum - 1)
  BY <1>7, CallFacts
<1>9. CASE blockNum # 1
  <2>1. PICK p : p = IF tileNum(b) > 1 THEN "block" ELSE "sync1"
    OBVIOUS
  <2>2. p \in Sorting /\ pc' = [pc EXCEPT ![b] = p]
    BY <1>9, <2>1 DEF SortTiles, Sorting
  <2>3. merge' = [merge EXCEPT ![b] = NoMerge]
    BY <1>2, <1>3, <1>6
  <2>4. bind' = [bind EXCEPT ![b] = 1]
    BY <1>2, <1>5, <1>6
  <2>5. blockNum > 1
    BY <1>8, <1>9
  <2> QED  BY <1>1, <1>2, <1>4, <1>5, <2>2, <2>3, <2>4, <2>5, SortingStep
<1>10. CASE blockNum = 1
  <2>1. pc' = [pc EXCEPT ![b] = "unique"]
    BY <1>10 DEF SortTiles
  <2>2. Cores = {0} /\ b = 0
    BY <1>8, <1>10
  <2>3. pc \in [Cores -> {"tiles", "block", "sync1", "global", "sync2",
                          "unique", "chain", "copy", "done"}]
    BY <1>3 DEF ControlOK
  <2>4. \A c \in Cores : pc'[c] = "unique"
    BY <2>1, <2>2, <2>3
  <2>5. input' = input /\ aivNum' = aivNum /\ stale' = stale /\ Cores' = Cores
    BY <1>1, CallKept
  <2>6. flags' = {}
    BY <1>1, <1>3, <1>4 DEF SortingOK
  <2>7. ControlOK'
    <3>1. <<input, aivNum>>' \in Calls /\ stale' \in Stale
      BY <1>3, <2>5 DEF ControlOK
    <3>2. pc' \in [Cores' -> {"tiles", "block", "sync1", "global", "sync2",
                              "unique", "chain", "copy", "done"}]
      BY <2>1, <2>3, <2>5
    <3>3. /\ cur' \in [Cores' -> 1..2] /\ bind' \in [Cores' -> Nat \ {0}]
          /\ waits' \in [Cores' -> 1..4] /\ eventID' \in [Cores' -> 0..7]
          /\ group' \in [Cores' -> Nat]
      BY <1>2, <1>3, <2>5 DEF ControlOK
    <3>4. tile' \in [Cores' -> Nat] /\ hasInf' \in [Cores' -> BOOLEAN]
      BY <1>2, <1>3, <2>5 DEF ControlOK
    <3>5. \A c \in Cores' : /\ Len(merge'[c].rest) = Len(merge'[c].head)
                            /\ Len(merge'[c].rest) <= 4
      BY <1>2, <1>3, <2>5 DEF ControlOK
    <3> QED  BY <2>6, <3>1, <3>2, <3>3, <3>4, <3>5 DEF ControlOK
  <2>8. \A c \in Cores : pc'[c] \in Packing /\ pc'[c] \notin Written
                         /\ pc'[c] \notin Sorting /\ pc'[c] \notin Gathering
    BY <2>4 DEF Packing, Written, Sorting, Gathering
  <2>9. PhaseOK' /\ SortingOK' /\ GatheringOK'
    BY <2>5, <2>8 DEF PhaseOK, SortingOK, GatheringOK
  <2>10. PackingOK'
    <3>1. \A c \in Cores : merge'[c] = NoMerge /\ \A d \in Cores : eventID'[d] = eventID'[c]
      BY <1>2, <1>6, <2>2
    <3> QED  BY <2>5, <2>6, <2>8, <3>1 DEF PackingOK
  <2>11. merge' = [c \in Cores' |-> merge'[c]]
    BY <1>2, <1>3, <2>5
  <2> QED  BY <2>7, <2>9, <2>10, <2>11 DEF UniqueInv
<1> QED  BY <1>9, <1>10

\* A core that begins to merge a group of its tiles stays inside its block.
LEMMA BlockGroupStep ==
  ASSUME UniqueInv, NEW b \in Cores, BlockGroup(b) PROVE UniqueInv'
<1>1. pc[b] = "block" /\ merge[b] = NoMerge /\ group[b] < tileNum(b)
      /\ UNCHANGED <<call, flags, pc, cur, bind, waits, eventID, packing>>
      /\ group' = [group EXCEPT ![b] = group[b] + 4 * bind[b]]
  BY DEF BlockGroup
<1>2. ControlOK /\ merge = [c \in Cores |-> merge[c]] /\ SortingOK
  BY DEF UniqueInv
<1>3. bind \in [Cores -> Nat \ {0}] /\ cur \in [Cores -> 1..2] /\ group \in [Cores -> Nat]
      /\ pc \in [Cores -> {"tiles", "block", "sync1", "global", "sync2",
                           "unique", "chain", "copy", "done"}]
  BY <1>2 DEF ControlOK
<1>4. Called
  BY <1>2 DEF ControlOK, Called
<1>5. PICK w \in Nat \ {0} : w = bind[b]
  BY <1>3
<1>6. PICK first \in Nat : first = group[b] /\ first < tileNum(b)
  BY <1>1, <1>3
<1>7. PICK t \in Nat : t = tileNum(b)
  BY <1>4, BlockFacts
<1>8. PICK n \in Nat : n = QueueNum(tileNum(b), w, first)
  <2>1. TilingAssumption /\ first < t
    BY <1>6, <1>7, TilingAssumption
  <2>2. QueueNum(t, w, first) \in 1..4
    BY <2>1, RunsInside
  <2>3. QueueNum(t, w, first) \in Nat
    BY <2>2
  <2> QED  BY <1>7, <2>3
<1>9. PICK base \in Nat : base = Offset(b) + first * TileLength
  <2>1. b \in 0..blockNum
    BY <1>4, CallFacts
  <2>2. Offset(b) \in Nat
    BY <1>4, <2>1, OffsetGrows
  <2>3. first * TileLength \in Nat
    BY TilingAssumption DEF TilingAssumption
  <2> QED  BY <2>2, <2>3
<1>10. PICK h : h = [i \in 1..n |-> base + w * (i - 1) * TileLength]
  OBVIOUS
<1>11. PICK r : r = [i \in 1..n |-> QueueParts(tileNum(b), w, first, i) * TileLength]
  OBVIOUS
<1>12. Within(h, r, base, Offset(b), Offset(b + 1))
  BY <1>4, <1>6, <1>8, <1>9, <1>10, <1>11, BlockMergeInside
<1>13. PICK m : m = [head |-> h, rest |-> r, out |-> base]
  OBVIOUS
<1>14. Inside(m, Offset(b), Offset(b + 1))
  BY <1>12, <1>13 DEF Inside
<1>15. merge' = [merge EXCEPT ![b] = m]
  <2>1. merge' = [merge EXCEPT ![b] =
          [head |-> [i \in 1..QueueNum(tileNum(b), bind[b], group[b]) |->
                       Offset(b) + group[b] * TileLength + bind[b] * (i - 1) * TileLength],
           rest |-> [i \in 1..QueueNum(tileNum(b), bind[b], group[b]) |->
                       QueueParts(tileNum(b), bind[b], group[b], i) * TileLength],
           out |-> Offset(b) + group[b] * TileLength]]
    BY Zenon DEF BlockGroup
  <2>2. merge' = [merge EXCEPT ![b] =
          [head |-> [i \in 1..n |-> base + w * (i - 1) * TileLength],
           rest |-> [i \in 1..n |-> QueueParts(tileNum(b), w, first, i) * TileLength],
           out |-> base]]
    BY <1>5, <1>6, <1>8, <1>9, <2>1
  <2> QED  BY <1>10, <1>11, <1>13, <2>2, Zenon
<1>16. pc[b] \in Sorting
  BY <1>1 DEF Sorting
<1>17. blockNum > 1
  BY <1>1, <1>2, <1>16 DEF SortingOK
<1>18. pc' = [pc EXCEPT ![b] = "block"] /\ bind' = [bind EXCEPT ![b] = w]
  BY <1>1, <1>3, <1>5
<1>19. tile' = tile /\ hasInf' = hasInf
  BY <1>1 DEF packing
<1>20. group' \in [Cores -> Nat]
  <2>1. first + 4 * w \in Nat
    OBVIOUS
  <2>2. group' = [group EXCEPT ![b] = first + 4 * w]
    BY <1>1, <1>5, <1>6
  <2> QED  BY <1>3, <2>1, <2>2
<1>21. "block" \in Sorting
  BY DEF Sorting
<1> QED
  BY <1>1, <1>3, <1>14, <1>15, <1>16, <1>17, <1>18, <1>19, <1>20, <1>21, SortingStep

\* The last queue is copied: the merge is over.
LEMMA CopyEnds ==
  ASSUME NEW b \in Cores, CopyRest(b)
  PROVE  merge' = [merge EXCEPT ![b] = NoMerge] /\ merge[b] # NoMerge
<1>1. Len(merge[b].rest) = 1 /\ merge' = [merge EXCEPT ![b] = NoMerge]
  BY DEF CopyRest
<1>2. Len(NoMerge.rest) = 0
  BY DEF NoMerge
<1> QED  BY <1>1, <1>2

\* The steps of a core in BlockSort that have no more to do with merges.
LEMMA BlockQuietStep ==
  ASSUME UniqueInv, NEW b \in Cores, BlockCopyRest(b) \/ BlockLevel(b) \/ BlockDone(b)
  PROVE  UniqueInv'
<1>1. pc[b] = "block" /\ UNCHANGED <<call, flags, waits, eventID, packing>>
  BY DEF BlockCopyRest, BlockLevel, BlockDone
<1>2. ControlOK /\ merge = [c \in Cores |-> merge[c]] /\ SortingOK
  BY DEF UniqueInv
<1>3. bind \in [Cores -> Nat \ {0}] /\ cur \in [Cores -> 1..2] /\ group \in [Cores -> Nat]
      /\ pc \in [Cores -> {"tiles", "block", "sync1", "global", "sync2",
                           "unique", "chain", "copy", "done"}]
  BY <1>2 DEF ControlOK
<1>4. pc[b] \in Sorting
  BY <1>1 DEF Sorting
<1>5. blockNum > 1
  BY <1>1, <1>2, <1>4 DEF SortingOK
<1>6. tile' = tile /\ hasInf' = hasInf
  BY <1>1 DEF packing
<1>7. "block" \in Sorting /\ "sync1" \in Sorting
  BY DEF Sorting
<1>8. CASE BlockCopyRest(b)
  <2>1. merge' = [merge EXCEPT ![b] = NoMerge]
    BY <1>8, CopyEnds DEF BlockCopyRest
  <2>2. pc' = pc /\ cur' = cur /\ bind' = bind /\ group' = group
    BY <1>8 DEF BlockCopyRest
  <2>3. PICK w \in Nat \ {0} : w = bind[b]
    BY <1>3
  <2>4. pc' = [pc EXCEPT ![b] = "block"] /\ bind' = [bind EXCEPT ![b] = w]
    BY <1>1, <1>3, <2>2, <2>3
  <2>5. cur' \in [Cores -> 1..2] /\ group' \in [Cores -> Nat]
    BY <1>3, <2>2
  <2> QED  BY <1>1, <1>4, <1>5, <1>6, <1>7, <2>1, <2>4, <2>5, SortingStep
<1>9. CASE BlockLevel(b)
  <2>1. merge[b] = NoMerge /\ merge' = merge /\ pc' = pc
        /\ bind' = [bind EXCEPT ![b] = 4 * bind[b]] /\ group' = [group EXCEPT ![b] = 0]
        /\ cur' = [cur EXCEPT ![b] = 3 - cur[b]]
    BY <1>9 DEF BlockLevel, Switched, Widened, Other
  <2>2. PICK w \in Nat \ {0} : w = 4 * bind[b]
    BY <1>3
  <2>3. pc' = [pc EXCEPT ![b] = "block"] /\ bind' = [bind EXCEPT ![b] = w]
        /\ merge' = [merge EXCEPT ![b] = NoMerge]
    BY <1>1, <1>2, <1>3, <2>1, <2>2
  <2>4. cur' \in [Cores -> 1..2] /\ group' \in [Cores -> Nat]
    <3>1. cur[b] \in 1..2
      BY <1>3
    <3>2. 3 - cur[b] \in 1..2
      BY <3>1
    <3> QED  BY <1>3, <2>1, <3>2
  <2> QED  BY <1>1, <1>4, <1>5, <1>6, <1>7, <2>3, <2>4, SortingStep
<1>10. CASE BlockDone(b)
  <2>1. merge[b] = NoMerge /\ merge' = merge /\ group' = group
        /\ pc' = [pc EXCEPT ![b] = "sync1"] /\ bind' = [bind EXCEPT ![b] = 1]
        /\ cur' = [cur EXCEPT ![b] = 1]
    BY <1>10 DEF BlockDone
  <2>2. merge' = [merge EXCEPT ![b] = NoMerge]
    BY <1>2, <2>1
  <2>3. cur' \in [Cores -> 1..2] /\ group' \in [Cores -> Nat]
    BY <1>3, <2>1
  <2>4. 1 \in Nat \ {0} /\ ("sync1" # "block" => 1 = 1 /\ NoMerge = NoMerge)
        /\ ("sync1" # "tiles" => blockNum > 1)
    BY <1>5
  <2>5. UNCHANGED <<call, flags, eventID, waits, tile, hasInf>>
    BY <1>1, <1>6
  <2> QED  BY <1>4, <1>7, <2>1, <2>2, <2>3, <2>4, <2>5, SortingStep
<1> QED  BY <1>8, <1>9, <1>10

\* A core that merges has a merge.
LEMMA RoundHasMerge ==
  ASSUME NEW b, MergeRound(b)
  PROVE  /\ merge[b] # NoMerge
         /\ UNCHANGED <<call, flags, pc, cur, bind, group, waits, eventID, packing>>
<1>1. /\ Len(merge[b].rest) > 1
      /\ UNCHANGED <<call, flags, pc, cur, bind, group, waits, eventID, packing>>
  BY DEF MergeRound
<1>2. Len(NoMerge.rest) = 0
  BY DEF NoMerge
<1> QED  BY <1>1, <1>2

\* A round of a merge in BlockSort stays inside the block.
LEMMA BlockRoundStep ==
  ASSUME UniqueInv, NEW b \in Cores, pc[b] \in Sorting, MergeRound(b) PROVE UniqueInv'
<1>1. merge[b] # NoMerge /\ UNCHANGED <<call, flags, pc, cur, bind, group, waits, eventID, packing>>
  BY RoundHasMerge
<1>2. ControlOK /\ merge = [c \in Cores |-> merge[c]] /\ SortingOK /\ DOMAIN merge = Cores
  BY DEF UniqueInv
<1>3. bind \in [Cores -> Nat \ {0}] /\ cur \in [Cores -> 1..2] /\ group \in [Cores -> Nat]
      /\ pc \in [Cores -> {"tiles", "block", "sync1", "global", "sync2",
                           "unique", "chain", "copy", "done"}]
  BY <1>2 DEF ControlOK
<1>4. Called
  BY <1>2 DEF ControlOK, Called
<1>5. pc[b] = "block" /\ Inside(merge[b], Offset(b), Offset(b + 1))
  BY <1>1, <1>2 DEF SortingOK
<1>6. blockNum > 1
  BY <1>2, <1>5 DEF SortingOK
<1>7. Offset(b) \in Nat /\ Offset(b + 1) \in Nat
  <2>1. b \in 0..blockNum /\ b + 1 \in b..blockNum
    BY <1>4, CallFacts
  <2> QED  BY <1>4, <2>1, OffsetGrows
<1>8. PICK m : merge' = [merge EXCEPT ![b] = m] /\ Inside(m, Offset(b), Offset(b + 1))
  BY <1>2, <1>5, <1>7, RoundKept
<1>9. PICK w \in Nat \ {0} : w = bind[b]
  BY <1>3
<1>10. pc' = [pc EXCEPT ![b] = "block"] /\ bind' = [bind EXCEPT ![b] = w]
  BY <1>1, <1>3, <1>5, <1>9
<1>11. cur' \in [Cores -> 1..2] /\ group' \in [Cores -> Nat]
  BY <1>1, <1>3
<1>12. UNCHANGED <<call, flags, eventID, waits, tile, hasInf>>
  BY <1>1 DEF packing
<1>13. "block" \in Sorting
  BY DEF Sorting
<1> QED  BY <1>6, <1>8, <1>10, <1>11, <1>12, <1>13, SortingStep

-----------------------------------------------------------------------------
(* The barriers *)

\* The widths of the runs, level by level.
LEMMA WidthFacts ==
  /\ Width[1] = 1 /\ Width[2] = 4 /\ Width[3] = 16 /\ Width[4] = 64 /\ Width[5] = 256
  /\ \A e \in 0..4 : e = 0 \/ e = 1 \/ e = 2 \/ e = 3 \/ e = 4
  /\ \A e \in 0..4 : Width[e + 1] \in Nat \ {0}
<1>1. Width[1] = 1 /\ Width[2] = 4 /\ Width[3] = 16 /\ Width[4] = 64 /\ Width[5] = 256
  BY DEF Width
<1>2. \A e \in 0..4 : e = 0 \/ e = 1 \/ e = 2 \/ e = 3 \/ e = 4
  OBVIOUS
<1>3. ASSUME NEW e \in 0..4 PROVE Width[e + 1] \in Nat \ {0}
  BY <1>1, <1>2
<1> QED  BY <1>1, <1>2, <1>3

\* A barrier changes only what the cores do next.
LEMMA BarrierFrame ==
  ASSUME UniqueInv, NEW from, NEW to, Barrier(from, to),
         to \in {"tiles", "block", "sync1", "global", "sync2", "unique", "chain", "copy", "done"}
  PROVE  /\ blockNum' = blockNum /\ Cores' = Cores
         /\ \A c \in Cores : pc[c] = from /\ pc'[c] = to
         /\ flags' = flags /\ eventID' = eventID /\ waits' = waits /\ bind' = bind
         /\ merge' = merge
         /\ ControlOK' /\ merge' = [c \in Cores' |-> merge'[c]]
<1>1. UNCHANGED <<call, buf, flags, output, sorting, packing>> /\ pc' = [c \in Cores |-> to]
      /\ \A c \in Cores : pc[c] = from
  BY DEF Barrier
<1>2. /\ cur' = cur /\ bind' = bind /\ group' = group /\ waits' = waits /\ merge' = merge
      /\ eventID' = eventID /\ tile' = tile /\ hasInf' = hasInf /\ flags' = flags
  BY <1>1 DEF sorting, packing
<1>3. input' = input /\ aivNum' = aivNum /\ stale' = stale /\ Cores' = Cores /\ blockNum' = blockNum
  BY <1>1, CallKept
<1>4. ControlOK /\ merge = [c \in Cores |-> merge[c]]
  BY DEF UniqueInv
<1>5. ControlOK'
  <2>1. <<input, aivNum>>' \in Calls /\ stale' \in Stale
    BY <1>3, <1>4 DEF ControlOK
  <2>2. flags' \subseteq Cores' \X (0..7)
    BY <1>2, <1>3, <1>4 DEF ControlOK
  <2>3. pc' \in [Cores' -> {"tiles", "block", "sync1", "global", "sync2",
                            "unique", "chain", "copy", "done"}]
    BY <1>1, <1>3
  <2>4. /\ cur' \in [Cores' -> 1..2] /\ bind' \in [Cores' -> Nat \ {0}]
        /\ waits' \in [Cores' -> 1..4] /\ eventID' \in [Cores' -> 0..7]
        /\ group' \in [Cores' -> Nat]
    BY <1>2, <1>3, <1>4 DEF ControlOK
  <2>5. tile' \in [Cores' -> Nat] /\ hasInf' \in [Cores' -> BOOLEAN]
    BY <1>2, <1>3, <1>4 DEF ControlOK
  <2>6. \A c \in Cores' : /\ Len(merge'[c].rest) = Len(merge'[c].head)
                          /\ Len(merge'[c].rest) <= 4
    BY <1>2, <1>3, <1>4 DEF ControlOK
  <2> QED  BY <2>1, <2>2, <2>3, <2>4, <2>5, <2>6 DEF ControlOK
<1>6. \A c \in Cores : pc'[c] = to
  BY <1>1
<1>7. merge' = [c \in Cores' |-> merge'[c]]
  BY <1>2, <1>3, <1>4
<1> QED  BY <1>1, <1>2, <1>3, <1>5, <1>6, <1>7

\* All blocks are sorted: the cores begin to merge them, in runs of one block.
LEMMA MergingBegins ==
  ASSUME UniqueInv, Barrier("sync1", "global") PROVE UniqueInv'
<1>1. /\ blockNum' = blockNum /\ Cores' = Cores
      /\ \A c \in Cores : pc[c] = "sync1" /\ pc'[c] = "global"
      /\ flags' = flags /\ eventID' = eventID /\ waits' = waits /\ bind' = bind
      /\ merge' = merge
      /\ ControlOK' /\ merge' = [c \in Cores' |-> merge'[c]]
  BY BarrierFrame
<1>2. Called
  BY DEF UniqueInv, ControlOK, Called
<1>3. blockNum \in Nat /\ Cores = 0..(blockNum - 1)
  BY <1>2, CallFacts
<1>4. ASSUME NEW c \in Cores
      PROVE  /\ flags = {} /\ eventID[c] = 0 /\ waits[c] = 1 /\ bind[c] = 1
             /\ merge[c] = NoMerge /\ blockNum > 1
  <2>1. pc[c] = "sync1" /\ pc[c] \in Sorting
    BY <1>1 DEF Sorting
  <2> QED  BY <2>1 DEF UniqueInv, SortingOK
<1>5. ASSUME NEW c \in Cores PROVE LevelOK(c)'
  <2>1. eventID'[c] = 0 /\ bind'[c] = 1 /\ waits'[c] = 1 /\ merge'[c] = NoMerge
        /\ pc'[c] = "global" /\ blockNum > 1
    BY <1>1, <1>4
  <2>2. eventID'[c] \in 0..4 /\ bind'[c] = Width[eventID'[c] + 1]
    BY <2>1, WidthFacts
  <2>3. \A d \in Cores : ~(c < d /\ d < c + 1 * 1)
    BY <1>3
  <2>4. Active(c)' => \A d \in Cores' : c < d /\ d < c + waits'[c] * bind'[c] => ~Active(d)'
    BY <1>1, <2>1, <2>3
  <2>5. bind'[c] < blockNum'
    BY <1>1, <2>1
  <2> QED  BY <2>1, <2>2, <2>4, <2>5 DEF LevelOK
<1>6. flags' = {} \/ Cores = {}
  BY <1>1, <1>4
<1>7. GatheringOK'
  <2>1. \A c \in Cores' : \A f \in flags' : FlagOK(f[1], f[2])'
    BY <1>1, <1>6
  <2> QED  BY <1>1, <1>5, <2>1 DEF GatheringOK
<1>8. \A c \in Cores' : pc'[c] \in Gathering /\ pc'[c] \notin Sorting /\ pc'[c] \notin Packing
  BY <1>1 DEF Gathering, Sorting, Packing
<1>9. PhaseOK' /\ SortingOK' /\ PackingOK'
  BY <1>8 DEF PhaseOK, SortingOK, PackingOK
<1> QED  BY <1>1, <1>7, <1>9 DEF UniqueInv

\* All cores have come to the same level: only one width is at least the number of
\* blocks and less than four times that.
LEMMA LastLevel ==
  ASSUME NEW n \in Nat, NEW e \in 0..4, NEW f \in 0..4,
         n <= Width[e + 1], Width[e + 1] < 4 * n,
         n <= Width[f + 1], Width[f + 1] < 4 * n
  PROVE  e = f
<1>1. (e = 0 \/ e = 1 \/ e = 2 \/ e = 3 \/ e = 4) /\ (f = 0 \/ f = 1 \/ f = 2 \/ f = 3 \/ f = 4)
  BY WidthFacts
<1>2. Width[0 + 1] = 1 /\ Width[1 + 1] = 4 /\ Width[2 + 1] = 16 /\ Width[3 + 1] = 64
      /\ Width[4 + 1] = 256
  BY WidthFacts
<1> QED  BY <1>1, <1>2

\* All blocks are merged: the cores begin to drop duplicates.
LEMMA PackingBegins ==
  ASSUME UniqueInv, Barrier("sync2", "unique") PROVE UniqueInv'
<1>1. /\ blockNum' = blockNum /\ Cores' = Cores
      /\ \A c \in Cores : pc[c] = "sync2" /\ pc'[c] = "unique"
      /\ flags' = flags /\ eventID' = eventID /\ waits' = waits /\ bind' = bind
      /\ merge' = merge
      /\ ControlOK' /\ merge' = [c \in Cores' |-> merge'[c]]
  BY BarrierFrame
<1>2. Called
  BY DEF UniqueInv, ControlOK, Called
<1>3. blockNum \in Nat /\ Cores = 0..(blockNum - 1)
  BY <1>2, CallFacts
<1>4. ASSUME NEW c \in Cores
      PROVE  /\ LevelOK(c) /\ \A f \in flags : FlagOK(f[1], f[2])
             /\ eventID[c] \in 0..4 /\ blockNum <= Width[eventID[c] + 1]
             /\ Width[eventID[c] + 1] < 4 * blockNum /\ merge[c] = NoMerge
  <2>1. pc[c] = "sync2" /\ pc[c] \in Gathering
    BY <1>1 DEF Gathering
  <2>2. LevelOK(c) /\ \A f \in flags : FlagOK(f[1], f[2])
    BY <2>1 DEF UniqueInv, GatheringOK
  <2> QED  BY <2>1, <2>2 DEF LevelOK
<1>5. ASSUME NEW c \in Cores, NEW d \in Cores PROVE eventID[c] = eventID[d]
  BY <1>3, <1>4, LastLevel
<1>6. ASSUME NEW f \in flags PROVE f[2] < eventID[f[1]]
  <2>1. f[1] \in Cores
    BY DEF UniqueInv, ControlOK
  <2>2. FlagOK(f[1], f[2])
    BY <1>4, <2>1
  <2> QED  BY <2>2 DEF FlagOK
<1>7. \A c \in Cores : /\ pc'[c] \in Packing /\ pc'[c] \notin Written
                       /\ pc'[c] \notin Sorting /\ pc'[c] \notin Gathering
  BY <1>1 DEF Packing, Written, Sorting, Gathering
<1>8. PackingOK'
  <2> SUFFICES ASSUME NEW c \in Cores
               PROVE  /\ merge'[c] = NoMerge
                      /\ \A d \in Cores : eventID'[d] = eventID'[c]
                      /\ \A d \in Cores : d < c /\ pc'[c] \in Written => pc'[d] \in Written
                      /\ \A f \in flags' : f[2] < eventID'[f[1]] \/ pc'[f[1]] \in Written
    BY <1>1 DEF PackingOK
  <2>1. merge'[c] = NoMerge
    BY <1>1, <1>4
  <2>2. \A d \in Cores : eventID'[d] = eventID'[c]
    BY <1>1, <1>5
  <2>3. \A f \in flags' : f[2] < eventID'[f[1]]
    BY <1>1, <1>6
  <2> QED  BY <1>7, <2>1, <2>2, <2>3
<1>9. PhaseOK' /\ SortingOK' /\ GatheringOK'
  BY <1>1, <1>7 DEF PhaseOK, SortingOK, GatheringOK
<1> QED  BY <1>1, <1>8, <1>9 DEF UniqueInv

-----------------------------------------------------------------------------
(* Dropping the duplicates and gathering what is left *)

\* Dropping the duplicates of a tile disturbs nobody.
LEMMA TileUniqueStep ==
  ASSUME UniqueInv, NEW b \in Cores, TileUnique(b) PROVE UniqueInv'
<1>1. pc[b] = "unique" /\ UNCHANGED <<call, flags, output, sorting>>
      /\ tile' = [tile EXCEPT ![b] = tile[b] + 1]
  BY DEF TileUnique
<1>2. PICK inf \in BOOLEAN : hasInf' = [hasInf EXCEPT ![b] = inf]
  <2>1. ControlOK
    BY DEF UniqueInv
  <2>2. hasInf[b] \in BOOLEAN
    BY <2>1 DEF ControlOK
  <2>3. PICK x : /\ hasInf' = [hasInf EXCEPT ![b] = x]
                 /\ x = IF tile[b] = 0
                          THEN b = blockNum - 1 /\ ReadAt(cur[b], 2 * (total - 1)) = Inf
                          ELSE hasInf[b]
    BY DEF TileUnique
  <2>4. x \in BOOLEAN
    BY <2>2, <2>3
  <2> QED  BY <2>3, <2>4
<1>3. PICK p : /\ pc' = [pc EXCEPT ![b] = p]
               /\ p = IF tile[b] # tileNum(b) - 1 THEN pc[b]
                      ELSE IF blockNum > 1 THEN "chain" ELSE "copy"
  BY DEF TileUnique
<1>4. ControlOK /\ Called
  BY DEF UniqueInv, ControlOK, Called
<1>5. blockNum \in Nat \ {0} /\ Cores = 0..(blockNum - 1)
  BY <1>4, CallFacts
<1>6. p \in Packing /\ pc[b] \in Packing /\ pc[b] \notin Written
  BY <1>1, <1>3 DEF Packing, Written
<1>7. p \in Written => \A c \in Cores : c < b => pc[c] \in Written
  <2>1. p \in Written => blockNum = 1
    BY <1>1, <1>3, <1>5 DEF Written
  <2>2. blockNum = 1 => \A c \in Cores : ~(c < b)
    BY <1>5
  <2> QED  BY <2>1, <2>2
<1>8. tile' \in [Cores -> Nat] /\ hasInf' \in [Cores -> BOOLEAN]
  <2>1. tile \in [Cores -> Nat] /\ hasInf \in [Cores -> BOOLEAN]
    BY <1>4 DEF ControlOK
  <2>2. tile[b] + 1 \in Nat
    BY <2>1
  <2> QED  BY <1>1, <1>2, <2>1, <2>2
<1>9. flags' \subseteq Cores \X (0..7) /\ \A f \in flags' : f \in flags
  BY <1>1, <1>4 DEF ControlOK
<1>10. UNCHANGED <<call, sorting>>
  BY <1>1
<1> QED  BY <1>3, <1>6, <1>7, <1>8, <1>9, <1>10, PackingStep

\* A core that waited for the one before it comes after all before it.
LEMMA ChainStep ==
  ASSUME UniqueInv, NEW b \in Cores, Chain(b) PROVE UniqueInv'
<1>1. /\ pc[b] = "chain"
      /\ b # 0 => <<b - 1, eventID[b]>> \in flags
      /\ flags' = (flags \ {<<b - 1, eventID[b]>>}) \cup {<<b, eventID[b]>>}
      /\ pc' = [pc EXCEPT ![b] = "copy"]
      /\ UNCHANGED <<call, buf, output, sorting, packing>>
  BY DEF Chain
<1>2. ControlOK /\ Called /\ PackingOK
  BY DEF UniqueInv, ControlOK, Called
<1>3. blockNum \in Nat \ {0} /\ Cores = 0..(blockNum - 1)
  BY <1>2, CallFacts
<1>4. pc[b] \in Packing /\ pc[b] \notin Written /\ "copy" \in Packing /\ "copy" \in Written
  BY <1>1 DEF Packing, Written
<1>5. eventID \in [Cores -> 0..7] /\ tile \in [Cores -> Nat] /\ hasInf \in [Cores -> BOOLEAN]
      /\ flags \subseteq Cores \X (0..7)
  BY <1>2 DEF ControlOK
<1>6. ASSUME NEW c \in Cores, c < b PROVE pc[c] \in Written
  <2>1. b # 0 /\ b - 1 \in Cores /\ (c < b - 1 \/ c = b - 1)
    BY <1>3, <1>6
  <2>2. <<b - 1, eventID[b]>> \in flags
    BY <1>1, <2>1
  <2>3. eventID[b] < eventID[b - 1] \/ pc[b - 1] \in Written
    BY <1>2, <1>4, <2>2 DEF PackingOK
  <2>4. eventID[b - 1] = eventID[b] /\ eventID[b] \in Nat
    BY <1>2, <1>4, <1>5, <2>1 DEF PackingOK
  <2>5. pc[b - 1] \in Written
    BY <2>3, <2>4
  <2>6. pc[b - 1] \in Packing
    BY <2>5 DEF Packing, Written
  <2>7. c < b - 1 => pc[c] \in Written
    BY <1>2, <2>1, <2>5, <2>6 DEF PackingOK
  <2> QED  BY <2>1, <2>5, <2>7
<1>7. flags' \subseteq Cores \X (0..7)
  BY <1>1, <1>5
<1>8. \A f \in flags' : f \in flags \/ (f[1] = b /\ "copy" \in Written)
  BY <1>1, <1>4
<1>9. tile' \in [Cores -> Nat] /\ hasInf' \in [Cores -> BOOLEAN] /\ UNCHANGED <<call, sorting>>
  BY <1>1, <1>5 DEF packing
<1> QED  BY <1>1, <1>4, <1>6, <1>7, <1>8, <1>9, PackingStep

\* A core that copies its block to the output disturbs nobody.
LEMMA CopyOutStep ==
  ASSUME UniqueInv, NEW b \in Cores, CopyOut(b) PROVE UniqueInv'
<1>1. pc[b] = "copy" /\ pc' = [pc EXCEPT ![b] = "done"]
      /\ UNCHANGED <<call, buf, flags, sorting, packing>>
  BY DEF CopyOut
<1>2. ControlOK /\ PackingOK
  BY DEF UniqueInv
<1>3. tile \in [Cores -> Nat] /\ hasInf \in [Cores -> BOOLEAN] /\ flags \subseteq Cores \X (0..7)
  BY <1>2 DEF ControlOK
<1>4. pc[b] \in Packing /\ pc[b] \in Written /\ "done" \in Packing /\ "done" \in Written
  BY <1>1 DEF Packing, Written
<1>5. \A c \in Cores : c < b => pc[c] \in Written
  BY <1>2, <1>4 DEF PackingOK
<1>6. flags' \subseteq Cores \X (0..7) /\ \A f \in flags' : f \in flags
  BY <1>1, <1>3
<1>7. tile' \in [Cores -> Nat] /\ hasInf' \in [Cores -> BOOLEAN] /\ UNCHANGED <<call, sorting>>
  BY <1>1, <1>3 DEF packing
<1> QED  BY <1>1, <1>4, <1>5, <1>6, <1>7, PackingStep

-----------------------------------------------------------------------------
(* Merging the blocks *)

\* Where a core stands on a level, for the widths the runs have.
LEMMA Positions ==
  ASSUME NEW w \in Nat, w = 1 \/ w = 4 \/ w = 16 \/ w = 64, NEW b \in Nat
  PROVE  /\ b % (4 * w) = 0 => b % w = 0
         /\ b % (4 * w) \in {w, 2 * w, 3 * w} => b % w = 0 /\ b % (4 * w) # 0
<1>1. CASE w = 1
  <2>1. b % 4 \in Nat /\ b % 1 = 0
    OBVIOUS
  <2>2. 4 * w = 4 /\ 2 * w = 2 /\ 3 * w = 3
    BY <1>1
  <2> QED  BY <1>1, <2>1, <2>2
<1>2. CASE w = 4
  <2>1. PICK q \in Nat : q = b \div 16
    OBVIOUS
  <2>2. PICK r \in Nat : r = b % 16 /\ b = 16 * q + r
    BY <2>1
  <2>3. r = 0 \/ r = 4 \/ r = 8 \/ r = 12 => b % 4 = 0
    BY <2>2
  <2>4. 4 * w = 16 /\ 2 * w = 8 /\ 3 * w = 12
    BY <1>2
  <2> QED  BY <1>2, <2>2, <2>3, <2>4
<1>3. CASE w = 16
  <2>1. PICK q \in Nat : q = b \div 64
    OBVIOUS
  <2>2. PICK r \in Nat : r = b % 64 /\ b = 64 * q + r
    BY <2>1
  <2>3. r = 0 \/ r = 16 \/ r = 32 \/ r = 48 => b % 16 = 0
    BY <2>2
  <2>4. 4 * w = 64 /\ 2 * w = 32 /\ 3 * w = 48
    BY <1>3
  <2> QED  BY <1>3, <2>2, <2>3, <2>4
<1>4. CASE w = 64
  <2>1. PICK q \in Nat : q = b \div 256
    OBVIOUS
  <2>2. PICK r \in Nat : r = b % 256 /\ b = 256 * q + r
    BY <2>1
  <2>3. r = 0 \/ r = 64 \/ r = 128 \/ r = 192 => b % 64 = 0
    BY <2>2
  <2>4. 4 * w = 256 /\ 2 * w = 128 /\ 3 * w = 192
    BY <1>4
  <2> QED  BY <1>4, <2>2, <2>3, <2>4
<1> QED  BY <1>1, <1>2, <1>3, <1>4

\* The runs of a group cover it, and a group of less than four runs is the last.
LEMMA RunsReachEnd ==
  ASSUME TilingAssumption, NEW t \in Nat, NEW first \in Nat, first < t,
         NEW w \in Nat \ {0}, w < ByteRange, NEW k \in Nat, k = QueueNum(t, w, first)
  PROVE  /\ 1 <= k /\ k <= 4 /\ GroupSize(t, w, first) \in Nat
         /\ GroupSize(t, w, first) <= k * w
         /\ first + GroupSize(t, w, first) <= t
         /\ k < 4 => t <= first + k * w
<1>1. PICK g : g = GroupSize(t, w, first)
  OBVIOUS
<1>2. PICK l : l = LastQueue(t, w, first)
  OBVIOUS
<1>3. g \in 1..(t - first) /\ k \in 1..4 /\ l \in 1..w /\ w * (k - 1) + l = g
  BY <1>1, <1>2, RunsInside
<1>4. g \in Nat /\ l \in Nat /\ l <= w /\ 1 <= k /\ k <= 4 /\ first + g <= t
  <2>1. g \in Nat /\ first + g <= t
    BY <1>3
  <2>2. l \in Nat /\ l <= w
    BY <1>3
  <2>3. 1 <= k /\ k <= 4
    <3>1. k \in 1..4
      BY <1>3
    <3>2. \A i \in 1..4 : 1 <= i /\ i <= 4
      OBVIOUS
    <3> QED  BY <3>1, <3>2
  <2> QED  BY <2>1, <2>2, <2>3
<1>5. w * (k - 1) + w = k * w
  OBVIOUS
<1>6. PICK x \in Nat : x = w * (k - 1)
  BY <1>4
<1>7. g <= k * w
  BY <1>3, <1>4, <1>5, <1>6
<1>8. ASSUME k < 4 PROVE t <= first + k * w
  <2>1. k = 1 \/ k = 2 \/ k = 3
    BY <1>4, <1>8
  <2>2. k * w < 4 * w
    BY <2>1
  <2>3. g < 4 * w
    <3>1. k * w \in Nat
      OBVIOUS
    <3> QED  BY <1>4, <1>7, <2>2, <3>1
  <2>4. g = t - first
    BY <1>1, <1>4, <2>3 DEF GroupSize, Lesser
  <2> QED  BY <1>4, <1>7, <2>4
<1> QED  BY <1>1, <1>4, <1>7, <1>8

\* What holds of a core that merges.
LEMMA GatheringFacts ==
  ASSUME UniqueInv, NEW b \in Cores, pc[b] \in Gathering
  PROVE  /\ ControlOK /\ Called /\ merge = [c \in Cores |-> merge[c]]
         /\ \A c \in Cores : LevelOK(c)
         /\ \A f \in flags : FlagOK(f[1], f[2]) /\ f[1] \in Cores /\ f[2] \in 0..7
         /\ \A c \in Cores : /\ eventID[c] \in 0..4 /\ bind[c] = Width[eventID[c] + 1]
                             /\ bind[c] \in Nat \ {0} /\ waits[c] \in 1..4
<1>1. ControlOK /\ Called /\ merge = [c \in Cores |-> merge[c]] /\ GatheringOK
  BY DEF UniqueInv, ControlOK, Called
<1>2. \A c \in Cores : pc[c] \in Gathering
  BY OnePhase
<1>3. \A c \in Cores : LevelOK(c)
  BY <1>1, <1>2 DEF GatheringOK
<1>4. \A f \in flags : FlagOK(f[1], f[2])
  BY <1>1, <1>2 DEF GatheringOK
<1>5. \A f \in flags : f[1] \in Cores /\ f[2] \in 0..7
  BY <1>1 DEF ControlOK
<1>6. \A c \in Cores : eventID[c] \in 0..4 /\ bind[c] = Width[eventID[c] + 1]
  BY <1>3 DEF LevelOK
<1>7. \A c \in Cores : bind[c] \in Nat \ {0} /\ waits[c] \in 1..4
  BY <1>1 DEF ControlOK
<1> QED  BY <1>1, <1>3, <1>4, <1>5, <1>6, <1>7

\* A core on a level with more to merge: its runs are of 1, 4, 16 or 64 blocks.
LEMMA OnLevel ==
  ASSUME UniqueInv, NEW b \in Cores, pc[b] = "global", NEW w, w = bind[b]
  PROVE  /\ w \in Nat \ {0} /\ w < blockNum /\ w < ByteRange
         /\ w = 1 \/ w = 4 \/ w = 16 \/ w = 64
         /\ eventID[b] \in 0..3 /\ w = Width[eventID[b] + 1]
         /\ 4 * w = Width[(eventID[b] + 1) + 1]
<1>1. pc[b] \in Gathering
  BY DEF Gathering
<1>2. Called /\ LevelOK(b) /\ eventID[b] \in 0..4 /\ bind[b] = Width[eventID[b] + 1]
      /\ bind[b] \in Nat \ {0}
  BY <1>1, GatheringFacts
<1>3. w < blockNum
  BY <1>2 DEF LevelOK
<1>4. blockNum \in Nat /\ blockNum <= 255 /\ blockNum < ByteRange /\ ByteRange \in Nat
  BY <1>2, CallFacts
<1>5. PICK e \in 0..4 : e = eventID[b]
  BY <1>2
<1>6. w = Width[e + 1] /\ w \in Nat /\ w < 255
  BY <1>2, <1>3, <1>4, <1>5
<1>7. e # 4
  <2>1. Width[4 + 1] = 256
    BY WidthFacts
  <2> QED  BY <1>6, <2>1
<1>8. e = 0 \/ e = 1 \/ e = 2 \/ e = 3
  BY <1>7, WidthFacts
<1>9. /\ Width[0 + 1] = 1 /\ Width[1 + 1] = 4 /\ Width[2 + 1] = 16 /\ Width[3 + 1] = 64
      /\ Width[(0 + 1) + 1] = 4 /\ Width[(1 + 1) + 1] = 16 /\ Width[(2 + 1) + 1] = 64
      /\ Width[(3 + 1) + 1] = 256
  BY WidthFacts
<1>10. /\ w = 1 \/ w = 4 \/ w = 16 \/ w = 64
       /\ 4 * w = Width[(e + 1) + 1] /\ e \in 0..3
  BY <1>6, <1>8, <1>9
<1>11. w < ByteRange
  BY <1>3, <1>4, <1>6
<1> QED  BY <1>2, <1>3, <1>5, <1>6, <1>10, <1>11

\* The other cores keep their level, when no core becomes active again.
LEMMA LevelKept ==
  ASSUME UNCHANGED call, NEW c \in Cores, LevelOK(c),
         eventID'[c] = eventID[c], bind'[c] = bind[c], waits'[c] = waits[c],
         pc'[c] = pc[c], merge'[c] = merge[c],
         \A d \in Cores : Active(d)' => Active(d)
  PROVE  LevelOK(c)'
<1>1. /\ total' = total /\ aivNum' = aivNum /\ blockNum' = blockNum /\ Cores' = Cores
  <2>1. total' = total
    BY CallKept DEF total
  <2> QED  BY <2>1, CallKept
<1>2. GroupEnd(c)' = GroupEnd(c)
  BY <1>1 DEF GroupEnd
<1>3. Offset(c)' = Offset(c) /\ Offset(GroupEnd(c))' = Offset(GroupEnd(c))
  BY <1>1, <1>2 DEF Offset
<1>4. Leads(c)' <=> Leads(c)
  BY DEF Leads, Position
<1>5. Runs(c)' = Runs(c)
  BY <1>1 DEF Runs
<1>6. /\ eventID'[c] \in 0..4 /\ bind'[c] = Width[eventID'[c] + 1]
      /\ pc'[c] = "global" => bind'[c] < blockNum'
      /\ pc'[c] = "sync2" => blockNum' <= bind'[c] /\ bind'[c] < 4 * blockNum' /\ merge'[c] = NoMerge
  BY <1>1 DEF LevelOK
<1>7. merge'[c] # NoMerge => /\ Leads(c)' /\ waits'[c] = Runs(c)'
                             /\ Inside(merge'[c], Offset(c)', Offset(GroupEnd(c))')
  BY <1>3, <1>4, <1>5 DEF LevelOK
<1>8. Active(c)' => \A d \in Cores' : c < d /\ d < c + waits'[c] * bind'[c] => ~Active(d)'
  BY <1>1 DEF LevelOK
<1> QED  BY <1>6, <1>7, <1>8 DEF LevelOK

\* A flag still announces a run whose cores are inactive.
LEMMA FlagKept ==
  ASSUME UNCHANGED call, NEW c \in Cores, NEW e \in Nat, FlagOK(c, e),
         eventID[c] \in Nat, eventID'[c] \in Nat, eventID[c] <= eventID'[c],
         \A d \in Cores : Active(d)' => Active(d)
  PROVE  FlagOK(c, e)'
<1>1. Cores' = Cores
  BY CallKept
<1>2. e < eventID'[c]
  BY DEF FlagOK
<1>3. \A d \in Cores' : c <= d /\ d < c + Width[e + 1] => ~Active(d)'
  BY <1>1 DEF FlagOK
<1> QED  BY <1>2, <1>3 DEF FlagOK

\* A core goes to the next level.  It stays active only if all cores behind it up to
\* the end of its next run have become inactive; if it raises a flag, the cores of
\* its run are inactive from now on.
LEMMA NextLevelStep ==
  ASSUME UniqueInv, NEW b \in Cores, pc[b] = "global", NextLevel(b),
         UNCHANGED <<call, group, packing>>, merge' = [merge EXCEPT ![b] = NoMerge],
         NEW w, w = bind[b],
         b % (4 * w) = 0 => \A d \in Cores : b < d /\ d < b + 4 * w => ~Active(d),
         flags' \subseteq flags \cup {<<b, eventID[b]>>},
         \/ flags' \subseteq flags
         \/ b % (4 * w) # 0 /\ \A d \in Cores : b < d /\ d < b + w => ~Active(d)
  PROVE  UniqueInv'
<1>1. pc[b] \in Gathering
  BY DEF Gathering
<1>2. /\ ControlOK /\ Called /\ merge = [c \in Cores |-> merge[c]]
      /\ \A c \in Cores : LevelOK(c)
      /\ \A f \in flags : FlagOK(f[1], f[2]) /\ f[1] \in Cores /\ f[2] \in 0..7
      /\ \A c \in Cores : /\ eventID[c] \in 0..4 /\ bind[c] = Width[eventID[c] + 1]
                          /\ bind[c] \in Nat \ {0} /\ waits[c] \in 1..4
  BY <1>1, GatheringFacts
<1>3. /\ w \in Nat \ {0} /\ w < blockNum /\ w < ByteRange
      /\ w = 1 \/ w = 4 \/ w = 16 \/ w = 64
      /\ eventID[b] \in 0..3 /\ w = Width[eventID[b] + 1]
      /\ 4 * w = Width[(eventID[b] + 1) + 1]
  BY OnLevel
<1>4. blockNum \in Nat \ {0} /\ Cores = 0..(blockNum - 1)
  BY <1>2, CallFacts
<1>5. /\ cur' = [cur EXCEPT ![b] = 3 - cur[b]]
      /\ bind' = [bind EXCEPT ![b] = 4 * w]
      /\ waits' = [waits EXCEPT ![b] = 1]
      /\ eventID' = [eventID EXCEPT ![b] = eventID[b] + 1]
      /\ pc' = [pc EXCEPT ![b] = IF 4 * w >= blockNum THEN "sync2" ELSE "global"]
  BY DEF NextLevel, Switched, Widened, Other
<1>6. /\ pc \in [Cores -> {"tiles", "block", "sync1", "global", "sync2",
                           "unique", "chain", "copy", "done"}]
      /\ cur \in [Cores -> 1..2] /\ bind \in [Cores -> Nat \ {0}]
      /\ waits \in [Cores -> 1..4] /\ eventID \in [Cores -> 0..7] /\ flags \subseteq Cores \X (0..7)
  BY <1>2 DEF ControlOK
<1>7. /\ blockNum' = blockNum /\ Cores' = Cores
  BY CallKept
<1>8. PICK e \in 0..3 : e = eventID[b]
  BY <1>3
<1>9. e + 1 \in 0..4 /\ e + 1 \in 0..7 /\ e \in 0..7 /\ e \in Nat
  OBVIOUS
<1>10. PICK p : p = IF 4 * w >= blockNum THEN "sync2" ELSE "global"
  OBVIOUS
<1>11. p \in Gathering /\ pc' = [pc EXCEPT ![b] = p]
  BY <1>5, <1>10 DEF Gathering
<1>12. \A c \in Cores : /\ pc'[c] = IF c = b THEN p ELSE pc[c]
                        /\ bind'[c] = IF c = b THEN 4 * w ELSE bind[c]
                        /\ waits'[c] = IF c = b THEN 1 ELSE waits[c]
                        /\ eventID'[c] = IF c = b THEN e + 1 ELSE eventID[c]
  BY <1>5, <1>6, <1>8, <1>11
<1>13. \A c \in Cores : merge'[c] = IF c = b THEN NoMerge ELSE merge[c]
  BY <1>2
<1>14. ASSUME NEW d \in Cores, Active(d)' PROVE Active(d)
  <2>1. CASE d = b
    <3>1. b % (4 * w) = 0
      BY <1>12, <1>14, <2>1 DEF Active
    <3>2. b \in Nat
      BY <1>4
    <3>3. w \in Nat /\ (w = 1 \/ w = 4 \/ w = 16 \/ w = 64)
      BY <1>3
    <3>4. b % w = 0
      BY <3>1, <3>2, <3>3, Positions
    <3> QED  BY <2>1, <3>4 DEF Active
  <2>2. CASE d # b
    <3>1. bind'[d] = bind[d]
      BY <1>12, <2>2
    <3> QED  BY <1>14, <3>1 DEF Active
  <2> QED  BY <2>1, <2>2
<1>15. LevelOK(b)'
  <2>1. eventID'[b] = e + 1 /\ bind'[b] = 4 * w /\ pc'[b] = p /\ merge'[b] = NoMerge /\ waits'[b] = 1
    BY <1>12, <1>13
  <2>2. eventID'[b] \in 0..4 /\ bind'[b] = Width[eventID'[b] + 1]
    BY <1>3, <1>8, <1>9, <2>1
  <2>3. pc'[b] = "global" => bind'[b] < blockNum'
    BY <1>3, <1>4, <1>7, <1>10, <2>1
  <2>4. pc'[b] = "sync2" => blockNum' <= bind'[b] /\ bind'[b] < 4 * blockNum' /\ merge'[b] = NoMerge
    BY <1>3, <1>4, <1>7, <1>10, <2>1
  <2>5. Active(b)' => \A d \in Cores' : b < d /\ d < b + waits'[b] * bind'[b] => ~Active(d)'
    <3>1. SUFFICES ASSUME Active(b)', NEW d \in Cores, b < d, d < b + waits'[b] * bind'[b]
                   PROVE  ~Active(d)'
      BY <1>7
    <3>2. b % (4 * w) = 0
      BY <2>1, <3>1 DEF Active
    <3>3. waits'[b] * bind'[b] = 4 * w
      BY <1>3, <2>1
    <3>4. ~Active(d)
      BY <3>1, <3>2, <3>3
    <3> QED  BY <1>14, <3>4
  <2> QED  BY <2>1, <2>2, <2>3, <2>4, <2>5 DEF LevelOK
<1>16. ASSUME NEW c \in Cores PROVE LevelOK(c)'
  <2>1. CASE c = b
    BY <1>15, <2>1
  <2>2. CASE c # b
    <3>1. eventID'[c] = eventID[c] /\ bind'[c] = bind[c] /\ waits'[c] = waits[c]
          /\ pc'[c] = pc[c] /\ merge'[c] = merge[c]
      BY <1>12, <1>13, <2>2
    <3>2. LevelOK(c)
      BY <1>2
    <3> QED  BY <1>14, <3>1, <3>2, LevelKept
  <2> QED  BY <2>1, <2>2
<1>17. ASSUME NEW f \in flags' PROVE FlagOK(f[1], f[2])'
  <2>1. CASE f \in flags
    <3>1. PICK c \in Cores : c = f[1]
      BY <1>2, <2>1
    <3>2. PICK g \in 0..7 : g = f[2]
      BY <1>2, <2>1
    <3>3. FlagOK(c, g) /\ g \in Nat
      BY <1>2, <2>1, <3>1, <3>2
    <3>4. eventID[c] \in Nat /\ eventID'[c] \in Nat /\ eventID[c] <= eventID'[c]
      BY <1>2, <1>8, <1>9, <1>12
    <3>5. FlagOK(c, g)'
      BY <1>14, <3>3, <3>4, FlagKept
    <3> QED  BY <3>1, <3>2, <3>5
  <2>2. CASE f \notin flags
    <3>1. f[1] = b /\ f[2] = e
      BY <1>8, <1>17, <2>2
    <3>2. b % (4 * w) # 0 /\ \A d \in Cores : b < d /\ d < b + w => ~Active(d)
      BY <1>17, <2>2
    <3>3. e < eventID'[b]
      BY <1>9, <1>12
    <3>4. ASSUME NEW d \in Cores, b <= d, d < b + Width[e + 1] PROVE ~Active(d)'
      <4>1. CASE d = b
        BY <1>12, <3>2, <4>1 DEF Active
      <4>2. CASE d # b
        <5>1. b < d /\ d < b + w
          BY <1>3, <1>4, <1>8, <3>4, <4>2
        <5> QED  BY <1>14, <3>2, <5>1
      <4> QED  BY <4>1, <4>2
    <3>5. FlagOK(b, e)'
      BY <1>7, <3>3, <3>4 DEF FlagOK
    <3> QED  BY <3>1, <3>5
  <2> QED  BY <2>1, <2>2
<1>18. flags' \subseteq Cores \X (0..7)
  BY <1>6, <1>8, <1>9
<1>19. cur' \in [Cores -> 1..2]
  <2>1. cur[b] \in 1..2
    BY <1>6
  <2>2. 3 - cur[b] \in 1..2
    BY <2>1
  <2> QED  BY <1>5, <1>6, <2>2
<1>20. bind' \in [Cores -> Nat \ {0}] /\ waits' \in [Cores -> 1..4] /\ eventID' \in [Cores -> 0..7]
  <2>1. 4 * w \in Nat \ {0} /\ 1 \in 1..4
    BY <1>3
  <2>2. eventID' = [eventID EXCEPT ![b] = e + 1]
    BY <1>5, <1>8
  <2> QED  BY <1>5, <1>6, <1>9, <2>1, <2>2
<1>21. UNCHANGED <<call, group, tile, hasInf>>
  BY DEF packing
<1> QED
  BY <1>1, <1>11, <1>16, <1>17, <1>18, <1>19, <1>20, <1>21, GatheringStep

\* An active core has waited at least for itself.
LEMMA OwnRunInactive ==
  ASSUME UniqueInv, NEW b \in Cores, pc[b] = "global", NEW w, w = bind[b], b % w = 0
  PROVE  \A d \in Cores : b < d /\ d < b + w => ~Active(d)
<1>1. pc[b] \in Gathering
  BY DEF Gathering
<1>2. LevelOK(b) /\ waits[b] \in 1..4 /\ Called
  BY <1>1, GatheringFacts
<1>3. w \in Nat \ {0}
  BY OnLevel
<1>4. \A d \in Cores : b < d /\ d < b + waits[b] * w => ~Active(d)
  BY <1>2 DEF LevelOK, Active
<1>5. PICK x \in 1..4 : x = waits[b]
  BY <1>2
<1>6. w <= x * w /\ x * w \in Nat
  <2>1. x = 1 \/ x = 2 \/ x = 3 \/ x = 4
    OBVIOUS
  <2> QED  BY <1>3, <2>1
<1>7. Cores \subseteq Nat
  <2>1. blockNum \in Nat \ {0} /\ Cores = 0..(blockNum - 1)
    BY <1>2, CallFacts
  <2> QED  BY <2>1
<1>8. ASSUME NEW d \in Cores, b < d, d < b + w PROVE ~Active(d)
  <2>1. d \in Nat /\ b \in Nat
    BY <1>7
  <2>2. PICK y \in Nat : y = x * w
    BY <1>6
  <2>3. d < b + y
    BY <1>3, <1>6, <1>8, <2>1, <2>2
  <2> QED  BY <1>4, <1>5, <1>8, <2>2, <2>3
<1> QED  BY <1>8

\* A core that leads a run but not the group raises its flag: its run is from now
\* on that of the leader.
LEMMA GlobalSignalStep ==
  ASSUME UniqueInv, NEW b \in Cores, GlobalSignal(b) PROVE UniqueInv'
<1>1. pc[b] = "global" /\ Follows(b) /\ NextLevel(b)
      /\ flags' = flags \cup {<<b, eventID[b]>>}
      /\ UNCHANGED <<call, buf, output, group, merge, packing>>
  BY DEF GlobalSignal
<1>2. pc[b] \in Gathering
  BY <1>1 DEF Gathering
<1>3. LevelOK(b) /\ Called /\ merge = [c \in Cores |-> merge[c]]
  BY <1>2, GatheringFacts
<1>4. PICK w : w = bind[b]
  OBVIOUS
<1>5. w \in Nat \ {0} /\ (w = 1 \/ w = 4 \/ w = 16 \/ w = 64)
  BY <1>1, <1>4, OnLevel
<1>6. b \in Nat
  BY <1>3, CallFacts
<1>7. b % (4 * w) \in {w, 2 * w, 3 * w}
  BY <1>1, <1>4 DEF Follows, Position
<1>8. b % w = 0 /\ b % (4 * w) # 0
  BY <1>5, <1>6, <1>7, Positions
<1>9. \A d \in Cores : b < d /\ d < b + w => ~Active(d)
  BY <1>1, <1>4, <1>8, OwnRunInactive
<1>10. merge[b] = NoMerge
  BY <1>3, <1>4, <1>8 DEF LevelOK, Leads, Position
<1>11. merge' = [merge EXCEPT ![b] = NoMerge]
  BY <1>1, <1>3, <1>10
<1>12. UNCHANGED <<call, group, packing>>
  BY <1>1
<1> QED  BY <1>1, <1>4, <1>8, <1>9, <1>11, <1>12, NextLevelStep

\* A core inside a run goes on without having done anything.
LEMMA GlobalPassStep ==
  ASSUME UniqueInv, NEW b \in Cores, GlobalPass(b) PROVE UniqueInv'
<1>1. pc[b] = "global" /\ ~Leads(b) /\ NextLevel(b)
      /\ UNCHANGED <<call, buf, flags, output, group, merge, packing>>
  BY DEF GlobalPass
<1>2. pc[b] \in Gathering
  BY <1>1 DEF Gathering
<1>3. LevelOK(b) /\ Called /\ merge = [c \in Cores |-> merge[c]]
  BY <1>2, GatheringFacts
<1>4. PICK w : w = bind[b]
  OBVIOUS
<1>5. b % (4 * w) # 0
  BY <1>1, <1>4 DEF Leads, Position
<1>6. merge[b] = NoMerge
  BY <1>1, <1>3 DEF LevelOK
<1>7. merge' = [merge EXCEPT ![b] = NoMerge]
  BY <1>1, <1>3, <1>6
<1>8. UNCHANGED <<call, group, packing>> /\ flags' = flags
  BY <1>1
<1> QED  BY <1>1, <1>4, <1>5, <1>7, <1>8, NextLevelStep

\* The leader of a group goes on when it has merged all its runs.
LEMMA GlobalCopyRestStep ==
  ASSUME UniqueInv, NEW b \in Cores, GlobalCopyRest(b) PROVE UniqueInv'
<1>1. pc[b] = "global" /\ CopyRest(b) /\ NextLevel(b)
      /\ UNCHANGED <<call, flags, output, group, packing>>
  BY DEF GlobalCopyRest
<1>2. pc[b] \in Gathering
  BY <1>1 DEF Gathering
<1>3. LevelOK(b) /\ Called
  BY <1>2, GatheringFacts
<1>4. PICK w : w = bind[b]
  OBVIOUS
<1>5. w \in Nat \ {0} /\ w < ByteRange /\ (w = 1 \/ w = 4 \/ w = 16 \/ w = 64)
  BY <1>1, <1>4, OnLevel
<1>6. TilingAssumption /\ blockNum \in Nat \ {0} /\ Cores = 0..(blockNum - 1)
  BY <1>3, CallFacts
<1>7. b \in Nat /\ b < blockNum
  BY <1>6
<1>8. merge' = [merge EXCEPT ![b] = NoMerge] /\ merge[b] # NoMerge
  BY <1>1, CopyEnds
<1>9. b % (4 * w) = 0 /\ waits[b] = QueueNum(blockNum, w, b)
  BY <1>3, <1>4, <1>8 DEF LevelOK, Leads, Position, Runs
<1>10. b % w = 0
  BY <1>5, <1>7, <1>9, Positions
<1>11. \A d \in Cores : b < d /\ d < b + waits[b] * w => ~Active(d)
  BY <1>3, <1>4, <1>10 DEF LevelOK, Active
<1>12. PICK k \in Nat : k = waits[b]
  BY <1>2, GatheringFacts
<1>13. 1 <= k /\ k <= 4 /\ (k < 4 => blockNum <= b + k * w)
  BY <1>5, <1>6, <1>7, <1>9, <1>12, RunsReachEnd
<1>14. ASSUME NEW d \in Cores, b < d, d < b + 4 * w PROVE ~Active(d)
  <2>1. d < b + k * w
    <3>1. CASE k = 4
      BY <1>14, <3>1
    <3>2. CASE k # 4
      <4>1. blockNum <= b + k * w
        BY <1>13, <3>2
      <4>2. d \in Nat /\ d < blockNum /\ k * w \in Nat
        BY <1>5, <1>6
      <4> QED  BY <1>6, <1>7, <4>1, <4>2
    <3> QED  BY <3>1, <3>2
  <2> QED  BY <1>11, <1>12, <1>14, <2>1
<1>15. UNCHANGED <<call, group, packing>> /\ flags' = flags
  BY <1>1
<1> QED  BY <1>1, <1>4, <1>8, <1>14, <1>15, NextLevelStep

\* A step of a core on its level that keeps the level: only its merge, and what it
\* has waited for, change.
LEMMA SameLevelStep ==
  ASSUME UniqueInv, NEW b \in Cores, pc[b] = "global",
         UNCHANGED <<call, pc, cur, bind, eventID, group, packing>>,
         flags' \subseteq flags,
         NEW x \in 1..4, waits' = [waits EXCEPT ![b] = x],
         NEW m, merge' = [merge EXCEPT ![b] = m],
         m # NoMerge => /\ Leads(b) /\ x = Runs(b)
                        /\ Inside(m, Offset(b), Offset(GroupEnd(b))),
         Active(b) => \A d \in Cores : b < d /\ d < b + x * bind[b] => ~Active(d)
  PROVE  UniqueInv'
<1>1. pc[b] \in Gathering
  BY DEF Gathering
<1>2. /\ ControlOK /\ Called /\ merge = [c \in Cores |-> merge[c]]
      /\ \A c \in Cores : LevelOK(c)
      /\ \A f \in flags : FlagOK(f[1], f[2]) /\ f[1] \in Cores /\ f[2] \in 0..7
      /\ \A c \in Cores : /\ eventID[c] \in 0..4 /\ bind[c] = Width[eventID[c] + 1]
                          /\ bind[c] \in Nat \ {0} /\ waits[c] \in 1..4
  BY <1>1, GatheringFacts
<1>3. /\ pc' = pc /\ cur' = cur /\ bind' = bind /\ eventID' = eventID /\ group' = group
      /\ tile' = tile /\ hasInf' = hasInf
  BY DEF packing
<1>4. /\ pc \in [Cores -> {"tiles", "block", "sync1", "global", "sync2",
                           "unique", "chain", "copy", "done"}]
      /\ cur \in [Cores -> 1..2] /\ bind \in [Cores -> Nat \ {0}]
      /\ waits \in [Cores -> 1..4] /\ eventID \in [Cores -> 0..7] /\ flags \subseteq Cores \X (0..7)
  BY <1>2 DEF ControlOK
<1>5. /\ total' = total /\ aivNum' = aivNum /\ blockNum' = blockNum /\ Cores' = Cores
  <2>1. total' = total
    BY CallKept DEF total
  <2> QED  BY <2>1, CallKept
<1>6. \A d \in Cores : Active(d)' <=> Active(d)
  BY <1>3 DEF Active
<1>7. \A c \in Cores : /\ waits'[c] = IF c = b THEN x ELSE waits[c]
                       /\ merge'[c] = IF c = b THEN m ELSE merge[c]
  BY <1>2, <1>4
<1>8. LevelOK(b)'
  <2>1. GroupEnd(b)' = GroupEnd(b)
    BY <1>3, <1>5 DEF GroupEnd
  <2>2. Offset(b)' = Offset(b) /\ Offset(GroupEnd(b))' = Offset(GroupEnd(b))
    BY <1>5, <2>1 DEF Offset
  <2>3. Leads(b)' <=> Leads(b)
    BY <1>3 DEF Leads, Position
  <2>4. Runs(b)' = Runs(b)
    BY <1>3, <1>5 DEF Runs
  <2>5. waits'[b] = x /\ merge'[b] = m
    BY <1>7
  <2>6. LevelOK(b)
    BY <1>2
  <2>7. /\ eventID'[b] \in 0..4 /\ bind'[b] = Width[eventID'[b] + 1]
        /\ pc'[b] = "global" => bind'[b] < blockNum'
        /\ pc'[b] # "sync2"
    BY <1>3, <1>5, <2>6 DEF LevelOK
  <2>8. merge'[b] # NoMerge => /\ Leads(b)' /\ waits'[b] = Runs(b)'
                               /\ Inside(merge'[b], Offset(b)', Offset(GroupEnd(b))')
    BY <2>2, <2>3, <2>4, <2>5
  <2>9. Active(b)' => \A d \in Cores' : b < d /\ d < b + waits'[b] * bind'[b] => ~Active(d)'
    BY <1>3, <1>5, <1>6, <2>5
  <2> QED  BY <2>7, <2>8, <2>9 DEF LevelOK
<1>9. ASSUME NEW c \in Cores PROVE LevelOK(c)'
  <2>1. CASE c = b
    BY <1>8, <2>1
  <2>2. CASE c # b
    <3>1. eventID'[c] = eventID[c] /\ bind'[c] = bind[c] /\ waits'[c] = waits[c]
          /\ pc'[c] = pc[c] /\ merge'[c] = merge[c]
      BY <1>3, <1>7, <2>2
    <3>2. LevelOK(c)
      BY <1>2
    <3> QED  BY <1>6, <3>1, <3>2, LevelKept
  <2> QED  BY <2>1, <2>2
<1>10. ASSUME NEW f \in flags' PROVE FlagOK(f[1], f[2])'
  <2>1. PICK c \in Cores : c = f[1]
    BY <1>2
  <2>2. PICK e \in 0..7 : e = f[2]
    BY <1>2
  <2>3. FlagOK(c, e) /\ e \in Nat
    BY <1>2, <2>1, <2>2
  <2>4. eventID[c] \in Nat /\ eventID'[c] \in Nat /\ eventID[c] <= eventID'[c]
    BY <1>2, <1>3
  <2>5. FlagOK(c, e)'
    BY <1>6, <2>3, <2>4, FlagKept
  <2> QED  BY <2>1, <2>2, <2>5
<1>11. "global" \in Gathering /\ pc' = [pc EXCEPT ![b] = "global"]
  BY <1>3, <1>4 DEF Gathering
<1>12. cur' \in [Cores -> 1..2] /\ bind' \in [Cores -> Nat \ {0}]
       /\ waits' \in [Cores -> 1..4] /\ eventID' \in [Cores -> 0..7]
       /\ flags' \subseteq Cores \X (0..7)
  BY <1>3, <1>4
<1>13. m = NoMerge \/ \E lo, hi : Inside(m, lo, hi)
  OBVIOUS
<1>14. UNCHANGED <<call, group, tile, hasInf>>
  BY <1>3
<1> QED  BY <1>1, <1>9, <1>10, <1>11, <1>12, <1>13, <1>14, GatheringStep

\* The leader has waited for the flag of its next run, which belongs to it from now on.
LEMMA GlobalWaitStep ==
  ASSUME UniqueInv, NEW b \in Cores, GlobalWait(b) PROVE UniqueInv'
<1>1. /\ pc[b] = "global" /\ Leads(b) /\ waits[b] < Runs(b)
      /\ <<b + bind[b] * waits[b], eventID[b]>> \in flags
      /\ flags' = flags \ {<<b + bind[b] * waits[b], eventID[b]>>}
      /\ waits' = [waits EXCEPT ![b] = waits[b] + 1]
      /\ UNCHANGED <<call, buf, output, pc, cur, bind, group, merge, eventID, packing>>
  BY DEF GlobalWait
<1>2. pc[b] \in Gathering
  BY <1>1 DEF Gathering
<1>3. /\ LevelOK(b) /\ Called /\ merge = [c \in Cores |-> merge[c]] /\ waits[b] \in 1..4
      /\ \A f \in flags : FlagOK(f[1], f[2])
  BY <1>2, GatheringFacts
<1>4. PICK w : w = bind[b]
  OBVIOUS
<1>5. /\ w \in Nat \ {0} /\ w < ByteRange /\ w = Width[eventID[b] + 1]
  BY <1>1, <1>4, OnLevel
<1>6. TilingAssumption /\ blockNum \in Nat \ {0} /\ Cores = 0..(blockNum - 1)
  BY <1>3, CallFacts
<1>7. b \in Nat /\ b < blockNum
  BY <1>6
<1>8. PICK v \in Nat : v = waits[b] /\ 1 <= v
  BY <1>3
<1>9. v + 1 \in 1..4
  <2>1. Runs(b) \in 1..4
    BY <1>4, <1>5, <1>6, <1>7, RunsInside DEF Runs
  <2> QED  BY <1>1, <1>8, <2>1
<1>10. merge[b] = NoMerge
  <2>1. waits[b] # Runs(b)
    BY <1>1, <1>3, <1>8, <1>9
  <2> QED  BY <1>3, <2>1 DEF LevelOK
<1>11. ASSUME Active(b), NEW d \in Cores, b < d, d < b + (v + 1) * w PROVE ~Active(d)
  <2>1. PICK y \in Nat : y = v * w
    BY <1>5
  <2>2. (v + 1) * w = y + w /\ w * v = y
    BY <1>5, <2>1
  <2>3. d \in Nat
    BY <1>6
  <2>4. CASE d < b + y
    <3>1. d < b + waits[b] * bind[b]
      BY <1>4, <1>8, <2>1, <2>4
    <3> QED  BY <1>3, <1>11, <3>1 DEF LevelOK
  <2>5. CASE ~(d < b + y)
    <3>1. b + y <= d /\ d < (b + y) + w
      BY <1>5, <1>7, <1>11, <2>2, <2>3, <2>5
    <3>2. <<b + y, eventID[b]>> \in flags
      BY <1>1, <1>4, <1>8, <2>2
    <3>3. FlagOK(b + y, eventID[b])
      BY <1>3, <3>2
    <3> QED  BY <1>5, <3>1, <3>3 DEF FlagOK
  <2> QED  BY <2>4, <2>5
<1>12. merge' = [merge EXCEPT ![b] = NoMerge]
  BY <1>1, <1>3, <1>10
<1>13. flags' \subseteq flags /\ waits' = [waits EXCEPT ![b] = v + 1]
  BY <1>1, <1>8
<1>14. UNCHANGED <<call, pc, cur, bind, eventID, group, packing>>
  BY <1>1
<1>15. Active(b) => \A d \in Cores : b < d /\ d < b + (v + 1) * bind[b] => ~Active(d)
  BY <1>4, <1>11
<1> QED  BY <1>1, <1>9, <1>12, <1>13, <1>14, <1>15, SameLevelStep

\* The merge of a group begins inside the group.
LEMMA GlobalMergeStep ==
  ASSUME UniqueInv, NEW b \in Cores, GlobalMerge(b) PROVE UniqueInv'
<1>1. /\ pc[b] = "global" /\ Leads(b) /\ waits[b] = Runs(b)
      /\ UNCHANGED <<call, buf, flags, output, pc, cur, bind, group, waits, eventID, packing>>
  BY DEF GlobalMerge
<1>2. pc[b] \in Gathering
  BY <1>1 DEF Gathering
<1>3. /\ LevelOK(b) /\ Called /\ ControlOK /\ waits[b] \in 1..4
  BY <1>2, GatheringFacts
<1>4. PICK w \in Nat \ {0} : w = bind[b]
  BY <1>2, GatheringFacts
<1>5. PICK x \in 1..4 : x = waits[b]
  BY <1>3
<1>6. PICK n \in Nat : n = x
  OBVIOUS
<1>7. n = QueueNum(blockNum, w, b) /\ n = Runs(b)
  BY <1>1, <1>4, <1>5, <1>6 DEF Runs
<1>8. PICK h : h = [i \in 1..n |-> Offset(b + w * (i - 1))]
  OBVIOUS
<1>9. PICK r : r = [i \in 1..n |-> Offset(b + w * (i - 1) + QueueParts(blockNum, w, b, i))
                                     - Offset(b + w * (i - 1))]
  OBVIOUS
<1>10. Within(h, r, Offset(b), Offset(b), Offset(b + GroupSize(blockNum, w, b)))
  BY <1>3, <1>7, <1>8, <1>9, GlobalMergeInside
<1>11. PICK m : m = [head |-> h, rest |-> r, out |-> Offset(b)]
  OBVIOUS
<1>12. Inside(m, Offset(b), Offset(GroupEnd(b)))
  BY <1>4, <1>10, <1>11 DEF Inside, GroupEnd
<1>13. merge' = [merge EXCEPT ![b] = m]
  <2>1. merge' = [merge EXCEPT ![b] =
          [head |-> [i \in 1..Runs(b) |-> RunStart(b, i)],
           rest |-> [i \in 1..Runs(b) |-> RunEnd(b, i) - RunStart(b, i)],
           out |-> Offset(b)]]
    BY Zenon DEF GlobalMerge
  <2>2. [i \in 1..Runs(b) |-> RunStart(b, i)] = h
    BY <1>4, <1>7, <1>8 DEF RunStart
  <2>3. [i \in 1..Runs(b) |-> RunEnd(b, i) - RunStart(b, i)] = r
    BY <1>4, <1>7, <1>9 DEF RunStart, RunEnd
  <2> QED  BY <1>11, <2>1, <2>2, <2>3, Zenon
<1>14. waits' = [waits EXCEPT ![b] = x]
  BY <1>1, <1>3, <1>5 DEF ControlOK
<1>15. Active(b) => \A d \in Cores : b < d /\ d < b + x * bind[b] => ~Active(d)
  BY <1>3, <1>5 DEF LevelOK
<1>16. UNCHANGED <<call, pc, cur, bind, eventID, group, packing>> /\ flags' \subseteq flags
  BY <1>1
<1>17. x = Runs(b)
  BY <1>1, <1>5
<1> QED  BY <1>1, <1>12, <1>13, <1>14, <1>15, <1>16, <1>17, SameLevelStep

\* A group ends with one of the blocks, and not behind its runs.
LEMMA GroupEndBound ==
  ASSUME UniqueInv, NEW b \in Cores, pc[b] = "global"
  PROVE  GroupEnd(b) \in b..blockNum /\ GroupEnd(b) <= b + Runs(b) * bind[b]
<1>1. Called
  BY DEF UniqueInv, ControlOK, Called
<1>2. PICK w : w = bind[b]
  OBVIOUS
<1>3. w \in Nat \ {0} /\ w < ByteRange
  BY <1>2, OnLevel
<1>4. TilingAssumption /\ blockNum \in Nat \ {0} /\ Cores = 0..(blockNum - 1)
  BY <1>1, CallFacts
<1>5. b \in Nat /\ b < blockNum
  BY <1>4
<1>6. PICK t \in Nat : t = blockNum
  BY <1>4
<1>7. PICK k \in Nat : k = QueueNum(t, w, b)
  <2>1. QueueNum(t, w, b) \in 1..4
    BY <1>3, <1>4, <1>5, <1>6, RunsInside
  <2>2. QueueNum(t, w, b) \in Nat
    BY <2>1
  <2> QED  BY <2>2
<1>8. /\ GroupSize(t, w, b) \in Nat /\ GroupSize(t, w, b) <= k * w
      /\ b + GroupSize(t, w, b) <= t
  BY <1>3, <1>4, <1>5, <1>6, <1>7, RunsReachEnd
<1>9. PICK g \in Nat : g = GroupSize(t, w, b)
  BY <1>8
<1>10. GroupEnd(b) = b + g /\ Runs(b) * bind[b] = k * w
  BY <1>2, <1>6, <1>7, <1>9 DEF GroupEnd, Runs
<1>11. b + g \in b..t /\ b + g <= b + k * w
  <2>1. k * w \in Nat
    BY <1>3
  <2> QED  BY <1>5, <1>8, <1>9, <2>1
<1> QED  BY <1>6, <1>10, <1>11

\* A round of a merge in GlobalSort stays inside the group.
LEMMA GlobalRoundStep ==
  ASSUME UniqueInv, NEW b \in Cores, pc[b] \in Gathering, MergeRound(b) PROVE UniqueInv'
<1>1. merge[b] # NoMerge /\ UNCHANGED <<call, flags, pc, cur, bind, group, waits, eventID, packing>>
  BY RoundHasMerge
<1>2. /\ LevelOK(b) /\ Called /\ ControlOK /\ waits[b] \in 1..4 /\ DOMAIN merge = Cores
  <2>1. merge = [c \in Cores |-> merge[c]]
    BY GatheringFacts
  <2> QED  BY <2>1, GatheringFacts
<1>3. /\ Leads(b) /\ waits[b] = Runs(b)
      /\ Inside(merge[b], Offset(b), Offset(GroupEnd(b))) /\ pc[b] = "global"
  BY <1>1, <1>2 DEF LevelOK, Gathering
<1>4. Offset(b) \in Nat /\ Offset(GroupEnd(b)) \in Nat
  <2>1. b \in 0..blockNum /\ GroupEnd(b) \in b..blockNum
    BY <1>2, <1>3, GroupEndBound, CallFacts
  <2> QED  BY <1>2, <2>1, OffsetGrows
<1>5. PICK m : merge' = [merge EXCEPT ![b] = m] /\ Inside(m, Offset(b), Offset(GroupEnd(b)))
  BY <1>1, <1>2, <1>3, <1>4, RoundKept
<1>6. PICK x \in 1..4 : x = waits[b]
  BY <1>2
<1>7. waits' = [waits EXCEPT ![b] = x]
  BY <1>1, <1>2, <1>6 DEF ControlOK
<1>8. Active(b) => \A d \in Cores : b < d /\ d < b + x * bind[b] => ~Active(d)
  BY <1>2, <1>6 DEF LevelOK
<1>9. UNCHANGED <<call, pc, cur, bind, eventID, group, packing>> /\ flags' \subseteq flags
  BY <1>1
<1>10. x = Runs(b)
  BY <1>3, <1>6
<1> QED  BY <1>3, <1>5, <1>7, <1>8, <1>9, <1>10, SameLevelStep

\* A round of a merge, of whichever sort.
LEMMA MergeRoundStep ==
  ASSUME UniqueInv, NEW b \in Cores, MergeRound(b) PROVE UniqueInv'
<1>1. merge[b] # NoMerge
  BY RoundHasMerge
<1>2. pc[b] \notin Packing
  BY <1>1 DEF UniqueInv, PackingOK
<1>3. pc[b] \in Sorting \/ pc[b] \in Gathering
  BY <1>2 DEF UniqueInv, PhaseOK
<1> QED  BY <1>3, BlockRoundStep, GlobalRoundStep

\* Every step keeps the invariant.
LEMMA NextInv ==
  ASSUME UniqueInv, [Next]_vars PROVE UniqueInv'
<1>1. CASE SyncAll
  BY <1>1, MergingBegins, PackingBegins DEF SyncAll
<1>2. ASSUME NEW b \in Cores, Step(b) PROVE UniqueInv'
  BY <1>2, SortTilesStep, BlockGroupStep, BlockQuietStep, MergeRoundStep, GlobalSignalStep,
     GlobalPassStep, GlobalWaitStep, GlobalMergeStep, GlobalCopyRestStep, TileUniqueStep,
     ChainStep, CopyOutStep
     DEF Step
<1>3. CASE UNCHANGED vars
  <2>1. /\ flags' = flags /\ pc' = pc /\ cur' = cur /\ bind' = bind /\ group' = group
        /\ waits' = waits /\ merge' = merge /\ eventID' = eventID
        /\ tile' = tile /\ hasInf' = hasInf /\ UNCHANGED call
    BY <1>3 DEF vars, sorting, packing
  <2>2. /\ input' = input /\ aivNum' = aivNum /\ stale' = stale
    BY <2>1 DEF call
  <2> QED
    BY <2>1, <2>2
    DEF UniqueInv, ControlOK, PhaseOK, SortingOK, GatheringOK, PackingOK, LevelOK, FlagOK,
        Active, Leads, Position, Runs, GroupEnd, Offset, Cores, blockNum, total
<1> QED  BY <1>1, <1>2, <1>3 DEF Next, Work, Returned

-----------------------------------------------------------------------------
(* No races *)

\* A core that sorts its block reads and writes nothing else.
LEMMA SortingAccess ==
  ASSUME UniqueInv, NEW b \in Cores, pc[b] \in Sorting
  PROVE  \A x \in Reads(b) \cup Writes(b) : x[2] \in Block(b)
<1>1. Called /\ SortingOK
  BY DEF UniqueInv, ControlOK, Called
<1>2. Offset(b) \in Nat /\ Offset(b + 1) \in Nat /\ Block(b) = Offset(b)..(Offset(b + 1) - 1)
  <2>1. b \in 0..blockNum /\ b + 1 \in b..blockNum
    BY <1>1, CallFacts
  <2>2. Block(b) = Span(b, b + 1)
    BY <1>1, BlockSpan
  <2> QED  BY <1>1, <2>1, <2>2, OffsetGrows DEF Span
<1>3. merge[b] = NoMerge \/ Inside(merge[b], Offset(b), Offset(b + 1))
  BY <1>1 DEF SortingOK
<1>4. MergeReads(merge[b]) \subseteq Block(b) /\ MergeWrites(merge[b]) \subseteq Block(b)
  <2>1. CASE merge[b] = NoMerge
    BY <2>1, NoMergeRanges
  <2>2. CASE Inside(merge[b], Offset(b), Offset(b + 1))
    BY <1>2, <2>2, MergeRanges
  <2> QED  BY <1>3, <2>1, <2>2
<1>5. pc[b] # "unique" /\ pc[b] # "copy"
  BY DEF Sorting
<1> QED  BY <1>4, <1>5 DEF Reads, Writes, CopiesBack

\* A core that merges reads and writes the blocks of its group.
LEMMA GatheringAccess ==
  ASSUME UniqueInv, NEW b \in Cores, pc[b] \in Gathering
  PROVE  \A x \in Reads(b) \cup Writes(b) :
           pc[b] = "global" /\ merge[b] # NoMerge /\ x[2] \in Span(b, GroupEnd(b))
<1>1. Called /\ LevelOK(b)
  BY GatheringFacts
<1>2. CASE pc[b] # "global" \/ merge[b] = NoMerge
  <2>1. Reads(b) = {} /\ Writes(b) = {}
    BY <1>2, NoMergeRanges DEF Reads, Writes, CopiesBack, Gathering
  <2> QED  BY <2>1
<1>3. CASE pc[b] = "global" /\ merge[b] # NoMerge
  <2>1. Offset(b) \in Nat /\ Offset(GroupEnd(b)) \in Nat
    <3>1. b \in 0..blockNum /\ GroupEnd(b) \in b..blockNum
      BY <1>1, <1>3, GroupEndBound, CallFacts
    <3> QED  BY <1>1, <3>1, OffsetGrows
  <2>2. Inside(merge[b], Offset(b), Offset(GroupEnd(b)))
    BY <1>1, <1>3 DEF LevelOK
  <2>3. MergeReads(merge[b]) \subseteq Span(b, GroupEnd(b))
        /\ MergeWrites(merge[b]) \subseteq Span(b, GroupEnd(b))
    BY <2>1, <2>2, MergeRanges DEF Span
  <2> QED  BY <1>3, <2>3 DEF Reads, Writes, CopiesBack
<1> QED  BY <1>2, <1>3

\* The groups of two cores that merge at the same time lie apart, on whatever levels
\* the two are.
LEMMA GroupsApart ==
  ASSUME UniqueInv, NEW b \in Cores, NEW c \in Cores, b < c,
         pc[b] = "global", merge[b] # NoMerge, pc[c] = "global", merge[c] # NoMerge
  PROVE  Span(b, GroupEnd(b)) \cap Span(c, GroupEnd(c)) = {}
<1>1. pc[b] \in Gathering /\ pc[c] \in Gathering
  BY DEF Gathering
<1>2. Called /\ LevelOK(b) /\ LevelOK(c) /\ waits[b] \in 1..4 /\ bind[b] \in Nat \ {0}
  BY <1>1, GatheringFacts
<1>3. blockNum \in Nat \ {0} /\ Cores = 0..(blockNum - 1)
  BY <1>2, CallFacts
<1>4. ASSUME NEW d \in Cores, pc[d] = "global", LevelOK(d), merge[d] # NoMerge
      PROVE  Active(d)
  <2>1. PICK w : w = bind[d]
    OBVIOUS
  <2>2. w \in Nat /\ (w = 1 \/ w = 4 \/ w = 16 \/ w = 64)
    BY <1>4, <2>1, OnLevel
  <2>3. d % (4 * w) = 0
    BY <1>4, <2>1 DEF LevelOK, Leads, Position
  <2>4. d \in Nat
    BY <1>3
  <2>5. d % w = 0
    BY <2>2, <2>3, <2>4, Positions
  <2> QED  BY <2>1, <2>5 DEF Active
<1>5. Active(b) /\ Active(c)
  BY <1>2, <1>4
<1>6. ~(c < b + waits[b] * bind[b])
  BY <1>2, <1>5 DEF LevelOK
<1>7. waits[b] = Runs(b)
  BY <1>2 DEF LevelOK
<1>8. PICK y \in Nat : y = waits[b] * bind[b]
  BY <1>2
<1>9. PICK g \in b..blockNum : g = GroupEnd(b) /\ g <= b + y
  BY <1>7, <1>8, GroupEndBound
<1>10. b \in 0..blockNum /\ c \in g..blockNum
  BY <1>3, <1>6, <1>8, <1>9
<1>11. GroupEnd(c) \in c..blockNum
  BY GroupEndBound
<1> QED  BY <1>2, <1>9, <1>10, <1>11, SpansApart

\* A core that gathers reads only blocks whose duplicates are dropped.
LEMMA PackingAccess ==
  ASSUME UniqueInv, NEW b \in Cores, NEW c \in Cores, b # c,
         pc[b] \in Packing, pc[c] \in Packing
  PROVE  Writes(b) \cap (Reads(c) \cup Writes(c)) = {}
<1>1. Called /\ PackingOK
  BY DEF UniqueInv, ControlOK, Called
<1>2. blockNum \in Nat \ {0} /\ Cores = 0..(blockNum - 1)
  BY <1>1, CallFacts
<1>3. CASE pc[b] # "unique"
  <2>1. Writes(b) = {}
    BY <1>3 DEF Writes, CopiesBack, Packing
  <2> QED  BY <2>1
<1>4. CASE pc[b] = "unique"
  <2>1. \A x \in Writes(b) : x[2] \in Block(b)
    BY <1>4 DEF Writes, CopiesBack
  <2>2. \A x \in Writes(c) : x[2] \in Block(c)
    BY DEF Writes, CopiesBack, Packing
  <2>3. ASSUME NEW x \in Reads(c) PROVE \E i \in Cores : i # b /\ x[2] \in Block(i)
    <3>1. pc[c] = "copy" /\ x[2] \in UNION {Block(i) : i \in 0..c}
      BY DEF Reads, CopiesBack, Packing
    <3>2. PICK i \in 0..c : x[2] \in Block(i)
      BY <3>1
    <3>3. ~(b < c)
      BY <1>1, <1>4, <3>1 DEF PackingOK, Packing, Written
    <3>4. i \in Cores /\ i # b
      BY <1>2, <3>3
    <3> QED  BY <3>2, <3>4
  <2>4. \A i \in Cores : i # b => Block(b) \cap Block(i) = {}
    BY <1>1, BlocksApart
  <2> QED  BY <2>1, <2>2, <2>3, <2>4
<1> QED  BY <1>3, <1>4

\* In each phase the cores work on parts of the workspace of their own.
LEMMA InvRaceFree ==
  ASSUME UniqueInv PROVE RaceFree
<1> SUFFICES ASSUME NEW b \in Cores, NEW c \in Cores, b # c
             PROVE  Writes(b) \cap (Reads(c) \cup Writes(c)) = {}
  BY DEF RaceFree
<1>1. Called
  BY DEF UniqueInv, ControlOK, Called
<1>2. blockNum \in Nat \ {0} /\ Cores = 0..(blockNum - 1)
  BY <1>1, CallFacts
<1>3. CASE pc[b] \in Sorting
  <2>1. pc[c] \in Sorting
    BY <1>3, OnePhase
  <2>2. (\A x \in Writes(b) : x[2] \in Block(b))
        /\ \A x \in Reads(c) \cup Writes(c) : x[2] \in Block(c)
    BY <1>3, <2>1, SortingAccess
  <2>3. Block(b) \cap Block(c) = {}
    BY <1>1, BlocksApart
  <2> QED  BY <2>2, <2>3
<1>4. CASE pc[b] \in Gathering
  <2> SUFFICES ASSUME NEW x \in Writes(b), x \in Reads(c) \cup Writes(c) PROVE FALSE
    OBVIOUS
  <2>1. pc[c] \in Gathering
    BY <1>4, OnePhase
  <2>2. pc[b] = "global" /\ merge[b] # NoMerge /\ x[2] \in Span(b, GroupEnd(b))
    BY <1>4, GatheringAccess
  <2>3. pc[c] = "global" /\ merge[c] # NoMerge /\ x[2] \in Span(c, GroupEnd(c))
    BY <2>1, GatheringAccess
  <2>4. b < c \/ c < b
    BY <1>2
  <2>5. Span(b, GroupEnd(b)) \cap Span(c, GroupEnd(c)) = {}
    <3>1. CASE b < c
      BY <2>2, <2>3, <3>1, GroupsApart
    <3>2. CASE c < b
      <4>1. Span(c, GroupEnd(c)) \cap Span(b, GroupEnd(b)) = {}
        BY <2>2, <2>3, <3>2, GroupsApart
      <4> QED  BY <4>1
    <3> QED  BY <2>4, <3>1, <3>2
  <2> QED  BY <2>2, <2>3, <2>5
<1>5. CASE pc[b] \in Packing
  <2>1. pc[c] \in Packing
    BY <1>5, OnePhase
  <2> QED  BY <1>5, <2>1, PackingAccess
<1>6. pc[b] \in Sorting \/ pc[b] \in Gathering \/ pc[b] \in Packing
  BY DEF UniqueInv, PhaseOK
<1> QED  BY <1>3, <1>4, <1>5, <1>6

-----------------------------------------------------------------------------

\* The barriers keep the cores in one phase, every merge stays inside its block or
\* group, and a core that merges has been told by the leaders of all runs of its
\* group that they are done.
THEOREM UniqueInvariant == Spec => []UniqueInv
<1>1. Init => UniqueInv
  BY InitInv
<1>2. UniqueInv /\ [Next]_vars => UniqueInv'
  BY NextInv
<1> QED  BY <1>1, <1>2, PTL DEF Spec

\* The control state of every core is one the code can be in: its next step, the
\* buffer, level, run and event it has come to, and a merge of at most four queues.
THEOREM ControlTypes == Spec => []ControlOK
<1>1. UniqueInv => ControlOK
  BY DEF UniqueInv
<1> QED  BY <1>1, UniqueInvariant, PTL

\* No core writes an element of the workspace that another core is reading or
\* writing, for every tensor, every number of cores, every tile length and whatever
\* the order in which the cores run.
THEOREM NoRaces == Spec => []RaceFree
<1>1. UniqueInv => RaceFree
  BY InvRaceFree
<1> QED  BY <1>1, UniqueInvariant, PTL

-----------------------------------------------------------------------------
(* Counting the members of a set of numbers *)

\* c[i] is the number of members of S that are at most i.
Counter(c, S, n) ==
  /\ c \in [0..n -> Nat] /\ c[0] = 0 /\ c[n] = Cardinality(S)
  /\ \A i \in 1..n : c[i] = Cardinality({l \in S : l <= i})
  /\ \A i \in 1..n : c[i] = c[i - 1] + (IF i \in S THEN 1 ELSE 0)
  /\ \A i \in 0..n, j \in 0..n : i <= j => c[i] <= c[j]

\* Each member counts one.
LEMMA CountUp ==
  ASSUME NEW n \in Nat, NEW S, S \subseteq 1..n
  PROVE  \E c : Counter(c, S, n)
<1> DEFINE g == [i \in 1..n |-> IF i \in S THEN 0 ELSE 1]
           c == [i \in 0..n |-> Num(g, 1, i + 1, 0)]
<1>1. ASSUME NEW i \in 0..n PROVE Num(g, 1, i + 1, 0) = Cardinality({l \in S : l <= i})
  <2>1. \A e \in 1..n : g[e] <= 0 <=> e \in S
    OBVIOUS
  <2>2. \A e : e \in S => e \in 1..n
    OBVIOUS
  <2>3. \A e \in 1..n : e \in 1..((i + 1) - 1) <=> e <= i
    OBVIOUS
  <2>4. \A e : e \in 1..((i + 1) - 1) => e \in 1..n
    OBVIOUS
  <2> HIDE DEF g
  <2>5. {e \in 1..((i + 1) - 1) : g[e] <= 0} = {l \in S : l <= i}
    BY <2>1, <2>2, <2>3, <2>4, Zenon
  <2> QED  BY <2>5 DEF Num
<1>2. ASSUME NEW i \in 1..n PROVE g[i] <= 0 <=> i \in S
  OBVIOUS
<1> HIDE DEF g
<1>3. c \in [0..n -> Nat]
  <2> SUFFICES ASSUME NEW i \in 0..n PROVE Num(g, 1, i + 1, 0) \in Nat
    OBVIOUS
  <2>1. 1 \in Int /\ i + 1 \in Int /\ 1 <= i + 1
    OBVIOUS
  <2> QED  BY <2>1, NumBound
<1>4. c[0] = 0
  <2>1. Num(g, 1, 1, 0) = 0
    BY NumNone
  <2> QED  BY <2>1
<1>5. c[n] = Cardinality(S)
  <2>1. \A l : l \in S => l <= n
    OBVIOUS
  <2>2. {l \in S : l <= n} = S
    BY <2>1, Zenon
  <2>3. n \in 0..n
    OBVIOUS
  <2>4. c[n] = Num(g, 1, n + 1, 0)
    BY <2>3
  <2> QED  BY <1>1, <2>2, <2>3, <2>4
<1>6. ASSUME NEW i \in 1..n PROVE c[i] = c[i - 1] + (IF i \in S THEN 1 ELSE 0)
  <2>1. 1 \in Int /\ i \in Int /\ 1 <= i
    OBVIOUS
  <2>2. Num(g, 1, i + 1, 0) = Num(g, 1, i, 0) + (IF g[i] <= 0 THEN 1 ELSE 0)
    BY <2>1, NumNext
  <2>3. c[i] = Num(g, 1, i + 1, 0) /\ c[i - 1] = Num(g, 1, i, 0)
    <3>1. i \in 0..n /\ i - 1 \in 0..n /\ (i - 1) + 1 = i
      OBVIOUS
    <3> QED  BY <3>1
  <2> QED  BY <1>2, <2>2, <2>3
<1>7. ASSUME NEW i \in 0..n, NEW j \in 0..n, i <= j PROVE c[i] <= c[j]
  <2>1. /\ 1 \in Int /\ i + 1 \in Int /\ j + 1 \in Int /\ 1 <= i + 1 /\ i + 1 <= j + 1
    BY <1>7
  <2>2. Num(g, 1, j + 1, 0) = Num(g, 1, i + 1, 0) + Num(g, i + 1, j + 1, 0)
    BY <2>1, NumJoin
  <2>3. Num(g, i + 1, j + 1, 0) \in Nat
    BY <2>1, NumBound
  <2>4. c[i] \in Nat /\ c[j] \in Nat
    BY <1>3
  <2> QED  BY <2>2, <2>3, <2>4
<1>8. \A i \in 1..n : c[i] = Cardinality({l \in S : l <= i})
  BY <1>1
<1> HIDE DEF c
<1> QED  BY <1>3, <1>4, <1>5, <1>6, <1>7, <1>8 DEF Counter

\* The j-th smallest member is a member, and as many are not greater.
LEMMA NthFacts ==
  ASSUME NEW n \in Nat, NEW S, S \subseteq 1..n, NEW c, Counter(c, S, n),
         NEW j \in 1..Cardinality(S)
  PROVE  Nth(S, j) \in S /\ c[Nth(S, j)] = j
<1>1. /\ c \in [0..n -> Nat] /\ c[0] = 0 /\ c[n] = Cardinality(S)
      /\ \A i \in 1..n : c[i] = Cardinality({l \in S : l <= i})
      /\ \A i \in 1..n : c[i] = c[i - 1] + (IF i \in S THEN 1 ELSE 0)
  BY DEF Counter
<1>2. Cardinality(S) \in Nat /\ j \in Nat /\ j <= Cardinality(S) /\ j >= 1
  BY <1>1
<1> DEFINE A == {i \in 0..n : c[i] >= j}
<1>3. A \subseteq Nat /\ n \in A
  BY <1>1, <1>2
<1>4. PICK i \in A : \A k \in A : i <= k
  <2> HIDE DEF A
  <2> QED  BY <1>3, NatMin
<1>5. i \in 1..n
  BY <1>1, <1>2, <1>4
<1>6. i - 1 \in 0..n /\ i - 1 \notin A
  BY <1>4, <1>5
<1>7. c[i - 1] \in Nat /\ c[i] \in Nat /\ c[i - 1] < j /\ c[i] >= j
  BY <1>1, <1>2, <1>4, <1>5, <1>6
<1>8. c[i] = c[i - 1] + (IF i \in S THEN 1 ELSE 0)
  BY <1>1, <1>5
<1>9. i \in S /\ c[i] = j
  BY <1>2, <1>7, <1>8
<1>10. Cardinality({l \in S : l <= i}) = j
  BY <1>1, <1>5, <1>9
<1>11. Nth(S, j) \in S /\ Cardinality({l \in S : l <= Nth(S, j)}) = j
  <2> DEFINE P(x) == Cardinality({l \in S : l <= x}) = j
  <2>1. \E x \in S : P(x)
    BY <1>9, <1>10
  <2>2. Nth(S, j) = CHOOSE x \in S : P(x)
    BY DEF Nth
  <2> HIDE DEF P
  <2>3. Nth(S, j) \in S /\ P(Nth(S, j))
    BY <2>1, <2>2
  <2> QED  BY <2>3 DEF P
<1>12. PICK x \in S : x = Nth(S, j)
  BY <1>11
<1>13. x \in 1..n /\ c[x] = j
  BY <1>1, <1>11, <1>12
<1> QED  BY <1>12, <1>13

-----------------------------------------------------------------------------
(* Increasing sequences *)

\* The sequence s lists the members of V from the smallest on.
Enumerates(s, V) ==
  /\ s \in Seq(Keys)
  /\ \A i \in 1..Len(s), j \in 1..Len(s) : i < j => s[i] < s[j]
  /\ \A j \in 1..Len(s) : s[j] \in V
  /\ \A v \in V : \E j \in 1..Len(s) : s[j] = v

\* The first k of s and then u.
Joined(s, u, k, w) ==
  /\ w \in Seq(Keys) /\ Len(w) = k + Len(u)
  /\ \A i \in 1..k : w[i] = s[i]
  /\ \A i \in 1..Len(u) : w[k + i] = u[i]

\* A listing of small members and one of great ones; a member they share is listed once.
LEMMA EnumeratesBoth ==
  ASSUME Inf \in Nat, NEW s, NEW V, NEW u, NEW W, Enumerates(s, V), Enumerates(u, W),
         \A a \in V, c \in W : a <= c,
         NEW k \in Nat,
         k = IF Len(s) > 0 /\ Len(u) > 0 /\ s[Len(s)] = u[1] THEN Len(s) - 1 ELSE Len(s),
         NEW w, Joined(s, u, k, w)
  PROVE  Enumerates(w, V \cup W)
<1>1. /\ s \in Seq(Keys)
      /\ \A i \in 1..Len(s), j \in 1..Len(s) : i < j => s[i] < s[j]
      /\ \A j \in 1..Len(s) : s[j] \in V
      /\ \A v \in V : \E j \in 1..Len(s) : s[j] = v
  BY DEF Enumerates
<1>2. /\ u \in Seq(Keys)
      /\ \A i \in 1..Len(u), j \in 1..Len(u) : i < j => u[i] < u[j]
      /\ \A j \in 1..Len(u) : u[j] \in W
      /\ \A v \in W : \E j \in 1..Len(u) : u[j] = v
  BY DEF Enumerates
<1>3. /\ w \in Seq(Keys) /\ Len(w) = k + Len(u)
      /\ \A i \in 1..k : w[i] = s[i]
      /\ \A i \in 1..Len(u) : w[k + i] = u[i]
  BY DEF Joined
<1>4. PICK n \in Nat, l \in Nat : n = Len(s) /\ l = Len(u)
  BY <1>1, <1>2
<1>5. Keys \subseteq Nat
  BY DEF Keys
<1>6. k = IF n > 0 /\ l > 0 /\ s[n] = u[1] THEN n - 1 ELSE n
  BY <1>4
<1>7. k <= n
  BY <1>4, <1>6
<1>8. \A i \in 1..n : s[i] \in Nat
  <2>1. \A i \in 1..n : s[i] \in Keys
    BY <1>1, <1>4
  <2> QED  BY <1>5, <2>1
<1>9. \A i \in 1..l : u[i] \in Nat
  <2>1. \A i \in 1..l : u[i] \in Keys
    BY <1>2, <1>4
  <2> QED  BY <1>5, <2>1
<1>10. ASSUME NEW i \in 1..k, NEW j \in 1..l PROVE s[i] < u[j]
  <2>1. i \in 1..n /\ n \in 1..n /\ 1 \in 1..l
    BY <1>4, <1>7
  <2>2. s[i] \in Nat /\ s[n] \in Nat /\ u[1] \in Nat /\ u[j] \in Nat
    BY <1>8, <1>9, <2>1
  <2>3. s[i] <= u[j] /\ s[n] <= u[1]
    BY <1>1, <1>2, <1>4, <2>1
  <2>4. u[1] <= u[j]
    BY <1>2, <1>4, <2>1, <2>2
  <2>5. CASE i = n
    <3>1. s[n] # u[1]
      BY <1>4, <1>6, <2>1, <2>5
    <3> QED  BY <2>2, <2>3, <2>4, <2>5, <3>1
  <2>6. CASE i # n
    <3>1. s[i] < s[n]
      BY <1>1, <1>4, <2>1, <2>6
    <3> QED  BY <2>2, <2>3, <2>4, <3>1
  <2> QED  BY <2>5, <2>6
<1>11. ASSUME NEW i \in 1..Len(w), NEW j \in 1..Len(w), i < j PROVE w[i] < w[j]
  <2>1. i \in 1..(k + l) /\ j \in 1..(k + l)
    BY <1>3, <1>4
  <2>2. i \in 1..k \/ \E p \in 1..l : i = k + p
    <3>1. ~(i \in 1..k) => i - k \in 1..l /\ i = k + (i - k)
      BY <2>1
    <3> QED  BY <3>1
  <2>3. j \in 1..k \/ \E p \in 1..l : j = k + p
    <3>1. ~(j \in 1..k) => j - k \in 1..l /\ j = k + (j - k)
      BY <2>1
    <3> QED  BY <3>1
  <2>4. CASE j \in 1..k
    <3>1. i \in 1..k /\ i \in 1..n /\ j \in 1..n
      BY <1>4, <1>7, <1>11, <2>1, <2>4
    <3>2. s[i] < s[j]
      BY <1>1, <1>4, <1>11, <3>1
    <3> QED  BY <1>3, <2>4, <3>1, <3>2
  <2>5. ASSUME NEW q \in 1..l, j = k + q PROVE w[i] < w[j]
    <3>1. w[j] = u[q]
      BY <1>3, <1>4, <2>5
    <3>2. CASE i \in 1..k
      <4>1. w[i] = s[i] /\ s[i] < u[q]
        BY <1>3, <1>10, <3>2
      <4> QED  BY <3>1, <4>1
    <3>3. ASSUME NEW p \in 1..l, i = k + p PROVE w[i] < w[j]
      <4>1. w[i] = u[p]
        BY <1>3, <1>4, <3>3
      <4>2. p < q
        BY <1>11, <2>5, <3>3
      <4>3. u[p] < u[q]
        BY <1>2, <1>4, <4>2
      <4> QED  BY <3>1, <4>1, <4>3
    <3> QED  BY <2>2, <3>2, <3>3
  <2> QED  BY <2>3, <2>4, <2>5
<1>12. ASSUME NEW j \in 1..Len(w) PROVE w[j] \in V \cup W
  <2>1. j \in 1..(k + l)
    BY <1>3, <1>4
  <2>2. j \in 1..k \/ \E p \in 1..l : j = k + p
    <3>1. ~(j \in 1..k) => j - k \in 1..l /\ j = k + (j - k)
      BY <2>1
    <3> QED  BY <3>1
  <2>3. CASE j \in 1..k
    <3>1. w[j] = s[j] /\ j \in 1..n
      BY <1>3, <1>7, <2>3
    <3> QED  BY <1>1, <1>4, <3>1
  <2>4. ASSUME NEW p \in 1..l, j = k + p PROVE w[j] \in W
    <3>1. w[j] = u[p]
      BY <1>3, <1>4, <2>4
    <3> QED  BY <1>2, <1>4, <3>1
  <2> QED  BY <2>2, <2>3, <2>4
<1>13. ASSUME NEW p \in 1..l PROVE k + p \in 1..Len(w) /\ w[k + p] = u[p]
  BY <1>3, <1>4
<1>14. ASSUME NEW v \in V PROVE \E j \in 1..Len(w) : w[j] = v
  <2>1. PICK j \in 1..n : s[j] = v
    BY <1>1, <1>4
  <2>2. CASE j <= k
    <3>1. j \in 1..k /\ j \in 1..Len(w)
      BY <1>3, <1>4, <2>2
    <3> QED  BY <1>3, <2>1, <3>1
  <2>3. CASE k < j
    <3>1. j = n /\ k = n - 1 /\ l > 0 /\ s[n] = u[1]
      BY <1>4, <1>6, <2>3
    <3>2. 1 \in 1..l
      BY <3>1
    <3> QED  BY <1>13, <2>1, <3>1, <3>2
  <2> QED  BY <2>2, <2>3
<1>15. ASSUME NEW v \in W PROVE \E j \in 1..Len(w) : w[j] = v
  <2>1. PICK p \in 1..l : u[p] = v
    BY <1>2, <1>4
  <2> QED  BY <1>13, <2>1
<1> QED  BY <1>3, <1>11, <1>12, <1>14, <1>15 DEF Enumerates

-----------------------------------------------------------------------------
(* The distinct keys of a tile *)

\* A sequence of keys that does not decrease.
Ordered(x) ==
  /\ x \in Seq(Keys)
  /\ \A i \in 1..Len(x), j \in 1..Len(x) : i <= j => x[i] <= x[j]

\* The finite keys of x.
Finite(x) == {x[i] : i \in 1..Len(x)} \ {Inf}

\* The places in x, n keys long, of the last of each finite key.
LastPlaces(x, n) ==
  {i \in 1..n : x[i] # Inf /\ (i = n \/ x[i] # x[i + 1])}

\* ConsecutiveUnique keeps the last of each finite key.
LEMMA KeptPlaces ==
  ASSUME Inf \in Nat, NEW x, Ordered(x), NEW n \in Nat, n = Len(x)
  PROVE  Distinct(x) = [j \in 1..Cardinality(LastPlaces(x, n)) |-> x[Nth(LastPlaces(x, n), j)]]
<1> DEFINE next == [i \in DOMAIN x |-> IF i = Len(x) THEN Inf ELSE x[i + 1]]
           kept == {i \in DOMAIN x : x[i] # next[i]}
<1>1. x \in Seq(Keys) /\ DOMAIN x = 1..n
  BY DEF Ordered
<1>2. \A i \in 1..n : x[i] \in 1..Inf
  BY <1>1 DEF Keys
<1>3. ASSUME NEW i \in 1..n PROVE x[i] # next[i] <=> x[i] # Inf /\ (i = n \/ x[i] # x[i + 1])
  <2>1. next[i] = IF i = n THEN Inf ELSE x[i + 1]
    BY <1>1
  <2>2. ASSUME i # n PROVE x[i] # x[i + 1] => x[i] # Inf
    <3>1. i + 1 \in 1..n
      BY <2>2
    <3>2. x[i] <= x[i + 1] /\ x[i] \in 1..Inf /\ x[i + 1] \in 1..Inf
      BY <1>2, <3>1 DEF Ordered
    <3> QED  BY <3>2
  <2> QED  BY <2>1, <2>2
<1>4. kept = LastPlaces(x, n)
  <2> HIDE DEF next
  <2> QED  BY <1>1, <1>3 DEF LastPlaces
<1>5. Distinct(x) = [j \in 1..Cardinality(kept) |-> x[Nth(kept, j)]]
  BY DEF Distinct
<1> QED  BY <1>4, <1>5

\* Behind each finite key is the last of its kind.
LEMMA LastPlace ==
  ASSUME Inf \in Nat, NEW x, Ordered(x), NEW n \in Nat, n = Len(x), NEW i \in 1..n, x[i] # Inf
  PROVE  \E k \in LastPlaces(x, n) : i <= k /\ x[k] = x[i]
<1>1. x \in Seq(Keys) /\ \A e \in 1..n : x[e] \in Keys
  BY DEF Ordered
<1> DEFINE A == {d \in Nat : n - d \in i..n /\ x[n - d] = x[i]}
<1>2. A \subseteq Nat /\ n - i \in A
  <2>1. n - i \in Nat /\ n - (n - i) = i
    OBVIOUS
  <2> QED  BY <2>1
<1>3. PICK d \in A : \A e \in A : d <= e
  <2> HIDE DEF A
  <2> QED  BY <1>2, NatMin
<1>4. PICK k \in i..n : k = n - d /\ x[k] = x[i]
  BY <1>3
<1>5. ASSUME k # n PROVE x[k] # x[k + 1]
  <2>1. d - 1 \in Nat /\ n - (d - 1) = k + 1 /\ k + 1 \in i..n
    BY <1>3, <1>4, <1>5
  <2>2. d - 1 \notin A
    <3>1. d \in Nat
      BY <1>3
    <3>2. d - 1 \in A => d <= d - 1
      <4> HIDE DEF A
      <4> QED  BY <1>3
    <3> QED  BY <3>1, <3>2
  <2>3. x[k + 1] # x[i]
    BY <2>1, <2>2
  <2> QED  BY <1>4, <2>3
<1>6. k \in LastPlaces(x, n)
  BY <1>4, <1>5 DEF LastPlaces
<1> QED  BY <1>4, <1>6

\* What ConsecutiveUnique makes of a sorted tile x.
DistinctOf(x, n, u) ==
  /\ Enumerates(u, Finite(x)) /\ Len(u) <= n
  /\ n > 0 /\ x[n] = Inf => Len(u) < n

\* Which is every finite key once, in increasing order.
LEMMA DistinctFacts ==
  ASSUME Inf \in Nat, NEW x, Ordered(x), NEW n \in Nat, n = Len(x)
  PROVE  DistinctOf(x, n, Distinct(x))
<1>1. x \in Seq(Keys) /\ \A i \in 1..n : x[i] \in Keys
  BY DEF Ordered
<1>2. \A i \in 1..n : x[i] \in Nat
  BY <1>1 DEF Keys
<1>3. \A i \in 1..n, j \in 1..n : i <= j => x[i] <= x[j]
  BY DEF Ordered
<1>4. PICK K : K = LastPlaces(x, n)
  OBVIOUS
<1>5. /\ K \subseteq 1..n
      /\ \A i \in K : x[i] # Inf /\ (i = n \/ x[i] # x[i + 1])
  BY <1>4 DEF LastPlaces
<1>6. PICK c : Counter(c, K, n)
  BY <1>5, CountUp
<1>7. PICK q \in Nat : q = Cardinality(K) /\ c[n] = q
  <2>1. c \in [0..n -> Nat] /\ c[n] = Cardinality(K) /\ n \in 0..n
    BY <1>6 DEF Counter
  <2> QED  BY <2>1
<1>8. PICK u : u = [j \in 1..q |-> x[Nth(K, j)]]
  OBVIOUS
<1>9. Distinct(x) = u
  BY <1>4, <1>7, <1>8, KeptPlaces
<1>10. ASSUME NEW j \in 1..q PROVE Nth(K, j) \in K /\ c[Nth(K, j)] = j
  <2>1. j \in 1..Cardinality(K)
    BY <1>7
  <2> QED  BY <1>5, <1>6, <2>1, NthFacts
<1>11. /\ c \in [0..n -> Nat]
       /\ \A i \in 1..n : c[i] = c[i - 1] + (IF i \in K THEN 1 ELSE 0)
       /\ \A i \in 0..n, j \in 0..n : i <= j => c[i] <= c[j]
       /\ c[0] = 0
  BY <1>6 DEF Counter
\* An earlier place counts less.
<1>12. ASSUME NEW i \in 1..n, NEW j \in K, i < j PROVE c[i] < c[j]
  <2>1. j \in 1..n /\ j - 1 \in 0..n /\ i \in 0..n /\ i <= j - 1
    BY <1>5, <1>12
  <2>2. c[j] = c[j - 1] + 1 /\ c[i] <= c[j - 1]
    BY <1>11, <2>1
  <2>3. c[i] \in Nat /\ c[j - 1] \in Nat
    BY <1>11, <2>1
  <2> QED  BY <2>2, <2>3
<1>13. ASSUME NEW i \in K, NEW j \in K, c[i] < c[j] PROVE i < j /\ x[i] < x[j]
  <2>1. i \in 1..n /\ j \in 1..n /\ i \in 0..n /\ j \in 0..n
    BY <1>5
  <2>2. c[i] \in Nat /\ c[j] \in Nat
    BY <1>11, <2>1
  <2>3. i < j
    <3>1. j <= i => c[j] <= c[i]
      BY <1>11, <2>1
    <3> QED  BY <1>13, <2>1, <2>2, <3>1
  <2>4. i + 1 \in 1..n /\ i # n /\ i + 1 <= j
    BY <2>1, <2>3
  <2>5. x[i] # x[i + 1] /\ x[i] <= x[i + 1] /\ x[i + 1] <= x[j]
    BY <1>3, <1>5, <2>1, <2>4
  <2>6. x[i] \in Nat /\ x[i + 1] \in Nat /\ x[j] \in Nat
    BY <1>2, <2>1, <2>4
  <2> QED  BY <2>3, <2>5, <2>6
<1>14. u \in Seq(Keys) /\ Len(u) = q
  <2>1. \A j \in 1..q : x[Nth(K, j)] \in Keys
    BY <1>1, <1>5, <1>10
  <2>2. u \in [1..q -> Keys]
    BY <1>8, <2>1
  <2> QED  BY <2>2, IsSequence
<1>15. ASSUME NEW i \in 1..q, NEW j \in 1..q, i < j PROVE u[i] < u[j]
  <2>1. PICK a \in K, b \in K : a = Nth(K, i) /\ b = Nth(K, j) /\ c[a] = i /\ c[b] = j
    BY <1>10
  <2>2. x[a] < x[b]
    BY <1>13, <1>15, <2>1
  <2> QED  BY <1>8, <2>1, <2>2
<1>16. ASSUME NEW j \in 1..q PROVE u[j] \in Finite(x)
  <2>1. PICK a \in K : a = Nth(K, j)
    BY <1>10
  <2>2. u[j] = x[a] /\ a \in 1..n /\ x[a] # Inf
    BY <1>5, <1>8, <2>1
  <2> QED  BY <2>2 DEF Finite
<1>17. ASSUME NEW v \in Finite(x) PROVE \E j \in 1..q : u[j] = v
  <2>1. PICK i \in 1..n : x[i] = v /\ v # Inf
    BY DEF Finite
  <2>2. PICK k \in K : x[k] = v
    BY <1>4, <2>1, LastPlace
  <2>3. k \in 1..n /\ k \in 0..n /\ n \in 0..n /\ k - 1 \in 0..n /\ k <= n
    BY <1>5, <2>2
  <2>4. c[k] = c[k - 1] + 1 /\ c[k] <= c[n] /\ c[k] \in Nat /\ c[k - 1] \in Nat
    BY <1>11, <2>2, <2>3
  <2>5. PICK j \in 1..q : j = c[k]
    BY <1>7, <2>4
  <2>6. PICK a \in K : a = Nth(K, j) /\ c[a] = j
    BY <1>10
  <2>7. a = k
    <3>1. a \in 1..n
      BY <1>5, <2>6
    <3>2. a < k => c[a] < c[k]
      BY <1>12, <2>2, <3>1
    <3>3. k < a => c[k] < c[a]
      BY <1>12, <2>3, <2>6
    <3> QED  BY <2>3, <2>4, <2>5, <2>6, <3>1, <3>2, <3>3
  <2> QED  BY <1>8, <2>2, <2>6, <2>7
<1>18. Enumerates(u, Finite(x))
  BY <1>14, <1>15, <1>16, <1>17 DEF Enumerates
<1>19. q <= n
  <2>1. IsFiniteSet(1..n) /\ Cardinality(1..n) = n
    <3>1. 1 \in Int /\ n \in Int
      OBVIOUS
    <3>2. IsFiniteSet(1..n) /\ Cardinality(1..n) = IF 1 > n THEN 0 ELSE n - 1 + 1
      BY <3>1, FS_Interval
    <3> QED  BY <3>2
  <2>2. Cardinality(K) <= Cardinality(1..n)
    BY <1>5, <2>1, FS_Subset
  <2> QED  BY <1>7, <2>1, <2>2
<1>20. ASSUME n > 0, x[n] = Inf PROVE q < n
  <2>1. K \subseteq 1..(n - 1)
    <3>1. n \notin K
      BY <1>5, <1>20
    <3> QED  BY <1>5, <3>1
  <2>2. n - 1 \in Nat
    BY <1>20
  <2>3. IsFiniteSet(1..(n - 1)) /\ Cardinality(1..(n - 1)) = n - 1
    <3>1. 1 \in Int /\ n - 1 \in Int
      BY <2>2
    <3>2. IsFiniteSet(1..(n - 1)) /\ Cardinality(1..(n - 1)) = IF 1 > n - 1 THEN 0 ELSE (n - 1) - 1 + 1
      BY <3>1, FS_Interval
    <3> QED  BY <2>2, <3>2
  <2>4. Cardinality(K) <= Cardinality(1..(n - 1))
    BY <2>1, <2>3, FS_Subset
  <2> QED  BY <1>7, <2>2, <2>3, <2>4
<1> QED  BY <1>9, <1>14, <1>18, <1>19, <1>20 DEF DistinctOf

-----------------------------------------------------------------------------
(* The sorted tensor and its values *)

\* x is the sorted tensor, n keys and the padding, T keys in all; V are its values.
Arranged(x, V, n, T) ==
  /\ Ordered(x) /\ Len(x) = T /\ T \in Nat /\ n \in 1..T /\ V \subseteq Keys
  /\ \A p \in 1..T : x[p] # Inf => x[p] \in V
  /\ \A p \in 1..n : x[p] \in V
  /\ \A v \in V : v # Inf => \E p \in 1..T : x[p] = v
  /\ x[n] = Inf <=> Inf \in V

\* What is kept of the keys behind key lo up to key hi: the finite ones, and infinity
\* where it is added.
KeptOf(x, lo, hi, inf) ==
  ({x[p] : p \in (lo + 1)..hi} \ {Inf}) \cup (IF inf THEN {Inf} ELSE {})

\* The sequence s lists it.  Infinity is added to the last part only.
KeepsPart(s, x, V, T, lo, hi, inf) ==
  /\ lo \in Nat /\ hi \in Nat /\ lo < hi /\ hi <= T
  /\ inf \in BOOLEAN /\ (inf => Inf \in V /\ hi = T)
  /\ Enumerates(s, KeptOf(x, lo, hi, inf))

\* The keys of a sorted tensor are numbers in order.
LEMMA ArrangedKeys ==
  ASSUME Inf \in Nat, NEW x, NEW V, NEW n, NEW T, Arranged(x, V, n, T)
  PROVE  /\ T \in Nat /\ n \in 1..T /\ V \subseteq Nat /\ V \subseteq Keys
         /\ \A p \in 1..T : x[p] \in Nat /\ x[p] \in Keys /\ x[p] <= Inf /\ 1 <= x[p]
         /\ \A p \in 1..T, q \in 1..T : p <= q => x[p] <= x[q]
         /\ \A v \in V : v <= Inf
<1>1. /\ Ordered(x) /\ Len(x) = T /\ T \in Nat /\ n \in 1..T /\ V \subseteq Keys
  BY DEF Arranged
<1>2. \A k \in Keys : k \in Nat /\ k <= Inf /\ 1 <= k
  BY DEF Keys
<1>3. /\ \A p \in 1..T : x[p] \in Keys
      /\ \A p \in 1..T, q \in 1..T : p <= q => x[p] <= x[q]
  BY <1>1 DEF Ordered
<1> QED  BY <1>1, <1>2, <1>3

\* A listing is a sequence of numbers that increases.
LEMMA Increases ==
  ASSUME Inf \in Nat, NEW s, NEW V, Enumerates(s, V)
  PROVE  \E n \in Nat :
           /\ n = Len(s)
           /\ \A j \in 1..n : s[j] \in Nat /\ s[j] \in Keys /\ s[j] <= Inf /\ s[j] \in V
           /\ \A i \in 1..n, j \in 1..n : i < j => s[i] < s[j]
           /\ \A i \in 1..n, j \in 1..n : i <= j <=> s[i] <= s[j]
           /\ \A v \in V : \E j \in 1..n : s[j] = v
<1>1. /\ s \in Seq(Keys)
      /\ \A i \in 1..Len(s), j \in 1..Len(s) : i < j => s[i] < s[j]
      /\ \A j \in 1..Len(s) : s[j] \in V
      /\ \A v \in V : \E j \in 1..Len(s) : s[j] = v
  BY DEF Enumerates
<1>2. PICK n \in Nat : n = Len(s)
  BY <1>1
<1>3. \A k \in Keys : k \in Nat /\ k <= Inf
  BY DEF Keys
<1>4. \A j \in 1..n : s[j] \in Keys
  BY <1>1, <1>2
<1>5. \A j \in 1..n : s[j] \in Nat /\ s[j] <= Inf
  BY <1>3, <1>4
<1>6. ASSUME NEW i \in 1..n, NEW j \in 1..n PROVE i <= j <=> s[i] <= s[j]
  <2>1. s[i] \in Nat /\ s[j] \in Nat
    BY <1>5
  <2>2. i < j => s[i] < s[j]
    BY <1>1, <1>2
  <2>3. j < i => s[j] < s[i]
    BY <1>1, <1>2
  <2> QED  BY <2>1, <2>2, <2>3
<1> QED  BY <1>1, <1>2, <1>4, <1>5, <1>6

\* What is known of a part.
PartKept(s, x, V, n, T, lo, hi, inf) ==
  /\ \A j \in 1..Len(s) : s[j] \in V
  /\ Len(s) > 0 => s[1] = x[lo + 1]
  /\ x[lo + 1] # Inf => Len(s) > 0
  /\ \A p \in (lo + 1)..hi : x[p] # Inf => \E i \in 1..Len(s) : s[i] = x[p]
  /\ inf => \E i \in 1..Len(s) : s[i] = Inf
  /\ \A j \in 1..Len(s) : (s[j] = Inf /\ inf) \/ \E p \in (lo + 1)..hi : s[j] = x[p]
  /\ \A v \in V, j \in 1..Len(s) : x[lo + 1] <= v /\ v <= s[j] => \E i \in 1..Len(s) : s[i] = v

\* It begins with the first key of the part and leaves no value out.
LEMMA PartFacts ==
  ASSUME Inf \in Nat, NEW x, NEW V, NEW n, NEW T, Arranged(x, V, n, T),
         NEW s, NEW lo, NEW hi, NEW inf, KeepsPart(s, x, V, T, lo, hi, inf)
  PROVE  PartKept(s, x, V, n, T, lo, hi, inf)
<1>1. /\ T \in Nat /\ n \in 1..T /\ V \subseteq Nat
      /\ \A p \in 1..T : x[p] \in Nat /\ x[p] <= Inf
      /\ \A p \in 1..T, q \in 1..T : p <= q => x[p] <= x[q]
      /\ \A v \in V : v <= Inf
  BY ArrangedKeys
<1>2. /\ \A p \in 1..T : x[p] # Inf => x[p] \in V
      /\ \A v \in V : v # Inf => \E p \in 1..T : x[p] = v
  BY DEF Arranged
<1>3. /\ lo \in Nat /\ hi \in Nat /\ lo < hi /\ hi <= T
      /\ inf \in BOOLEAN /\ (inf => Inf \in V /\ hi = T)
      /\ Enumerates(s, KeptOf(x, lo, hi, inf))
  BY DEF KeepsPart
<1>4. PICK K : K = KeptOf(x, lo, hi, inf)
  OBVIOUS
<1>5. /\ \A p \in (lo + 1)..hi : x[p] # Inf => x[p] \in K
      /\ inf => Inf \in K
      /\ \A v \in K : (v = Inf /\ inf) \/ \E p \in (lo + 1)..hi : v = x[p] /\ v # Inf
  BY <1>4 DEF KeptOf
<1>6. PICK l \in Nat :
           /\ l = Len(s)
           /\ \A j \in 1..l : s[j] \in Nat /\ s[j] <= Inf /\ s[j] \in K
           /\ \A i \in 1..l, j \in 1..l : i <= j <=> s[i] <= s[j]
           /\ \A v \in K : \E j \in 1..l : s[j] = v
  BY <1>3, <1>4, Increases
<1>7. PICK k \in 1..T : k = lo + 1 /\ k <= hi
  BY <1>1, <1>3
<1>8. \A p \in k..hi : p \in 1..T
  BY <1>1, <1>3
<1>9. ASSUME NEW j \in 1..l PROVE s[j] \in V
  BY <1>2, <1>3, <1>5, <1>6, <1>7, <1>8
<1>10. ASSUME NEW j \in 1..l PROVE (s[j] = Inf /\ inf) \/ \E p \in k..hi : s[j] = x[p] /\ s[j] # Inf
  BY <1>5, <1>6, <1>7
<1>11. ASSUME l > 0 PROVE s[1] = x[k]
  <2>1. 1 \in 1..l
    BY <1>11
  <2>2. x[k] <= s[1]
    <3>1. CASE s[1] = Inf
      BY <1>1, <1>7, <3>1
    <3>2. ASSUME NEW p \in k..hi, s[1] = x[p] PROVE x[k] <= s[1]
      BY <1>1, <1>7, <1>8, <3>2
    <3> QED  BY <1>10, <2>1, <3>1, <3>2
  <2>3. CASE x[k] = Inf
    <3>1. s[1] <= Inf /\ s[1] \in Nat
      BY <1>6, <2>1
    <3> QED  BY <2>2, <2>3, <3>1
  <2>4. CASE x[k] # Inf
    <3>1. k \in (lo + 1)..hi
      BY <1>3, <1>7
    <3>2. x[k] \in K
      BY <1>5, <2>4, <3>1
    <3>3. PICK j \in 1..l : s[j] = x[k]
      BY <1>6, <3>2
    <3>4. s[1] <= s[j]
      BY <1>6, <2>1
    <3>5. s[1] \in Nat /\ x[k] \in Nat
      BY <1>1, <1>6, <1>7, <2>1
    <3> QED  BY <2>2, <3>3, <3>4, <3>5
  <2> QED  BY <2>3, <2>4
<1>12. ASSUME NEW p \in k..hi, x[p] # Inf PROVE \E i \in 1..l : s[i] = x[p]
  <2>1. x[p] \in K
    BY <1>5, <1>7, <1>12
  <2> QED  BY <1>6, <2>1
<1>13. x[k] # Inf => l > 0
  <2>1. k \in k..hi
    BY <1>3, <1>7
  <2> QED  BY <1>12, <2>1
<1>14. inf => \E i \in 1..l : s[i] = Inf
  BY <1>5, <1>6
<1>15. ASSUME NEW v \in V, NEW j \in 1..l, x[k] <= v, v <= s[j] PROVE \E i \in 1..l : s[i] = v
  <2>0. v \in Nat /\ s[j] \in Nat /\ v <= Inf /\ s[j] <= Inf
    BY <1>1, <1>6
  <2>1. CASE v = Inf
    <3>1. s[j] = v
      BY <1>15, <2>0, <2>1
    <3> QED  BY <3>1
  <2>2. CASE v # Inf
    <3>1. PICK p \in 1..T : x[p] = v
      BY <1>2, <2>2
    <3>2. CASE p < k
      <4>1. x[p] <= x[k] /\ x[k] \in Nat
        BY <1>1, <1>7, <3>2
      <4>2. x[k] = v /\ k \in k..hi
        BY <1>3, <1>7, <1>15, <2>0, <3>1, <4>1
      <4> QED  BY <1>12, <2>2, <4>2
    <3>3. CASE p \in k..hi
      BY <1>12, <2>2, <3>1, <3>3
    <3>4. CASE hi < p
      <4>1. ~inf
        BY <1>3, <3>4
      <4>2. PICK q \in k..hi : s[j] = x[q]
        BY <1>10, <4>1
      <4>3. x[q] <= x[p]
        BY <1>1, <1>3, <1>7, <1>8, <3>4
      <4>4. s[j] = v
        BY <1>15, <2>0, <3>1, <4>2, <4>3
      <4> QED  BY <4>4
    <3>5. p < k \/ p \in k..hi \/ hi < p
      BY <1>3, <1>7
    <3> QED  BY <3>2, <3>3, <3>4, <3>5
  <2> QED  BY <2>1, <2>2
<1> QED  BY <1>6, <1>7, <1>9, <1>10, <1>11, <1>12, <1>13, <1>14, <1>15 DEF PartKept

\* The values are listed by w, and the one behind the first r begins a part.
RankedPart(w, x, V, n, T, s, lo, hi, inf, r) ==
  /\ Arranged(x, V, n, T) /\ Enumerates(w, V) /\ KeepsPart(s, x, V, T, lo, hi, inf)
  /\ r \in Nat /\ r + 1 <= Len(w) /\ w[r + 1] = x[lo + 1]

\* Behind its first r, the sequence w goes on with s.
Continues(w, r, s) ==
  \A j \in 1..Len(s) : r + j \in 1..Len(w) /\ w[r + j] = s[j]

\* The values of the tensor from the one with which a part begins are the keys kept.
LEMMA PartRank ==
  ASSUME Inf \in Nat, NEW w, NEW x, NEW V, NEW n, NEW T, NEW s, NEW lo, NEW hi, NEW inf, NEW r,
         RankedPart(w, x, V, n, T, s, lo, hi, inf, r)
  PROVE  Continues(w, r, s)
<1>0. /\ Arranged(x, V, n, T) /\ Enumerates(w, V) /\ KeepsPart(s, x, V, T, lo, hi, inf)
      /\ r \in Nat /\ r + 1 <= Len(w) /\ w[r + 1] = x[lo + 1]
  BY DEF RankedPart
<1>1. PartKept(s, x, V, n, T, lo, hi, inf)
  BY <1>0, PartFacts
<1>2. PICK l \in Nat :
           /\ l = Len(s)
           /\ \A j \in 1..l : s[j] \in Nat
           /\ \A i \in 1..l, j \in 1..l : i <= j <=> s[i] <= s[j]
  <2>1. Enumerates(s, KeptOf(x, lo, hi, inf))
    BY <1>0 DEF KeepsPart
  <2>2. PICK l \in Nat :
           /\ l = Len(s)
           /\ \A j \in 1..l : s[j] \in Nat
           /\ \A i \in 1..l, j \in 1..l : i <= j <=> s[i] <= s[j]
    BY <2>1, Increases
  <2> QED  BY <2>2
<1>3. PICK m \in Nat :
           /\ m = Len(w)
           /\ \A j \in 1..m : w[j] \in Nat /\ w[j] \in V
           /\ \A i \in 1..m, j \in 1..m : i <= j <=> w[i] <= w[j]
           /\ \A v \in V : \E j \in 1..m : w[j] = v
  <2>1. Enumerates(w, V)
    BY <1>0
  <2> QED  BY <2>1, Increases
<1>4. PICK a : a = x[lo + 1]
  OBVIOUS
<1>5. /\ \A j \in 1..l : s[j] \in V
      /\ l > 0 => s[1] = a
      /\ \A v \in V, j \in 1..l : a <= v /\ v <= s[j] => \E i \in 1..l : s[i] = v
  BY <1>1, <1>2, <1>4 DEF PartKept
<1> DEFINE Good == {j \in Nat : j + 1 <= l => r + (j + 1) \in 1..m /\ w[r + (j + 1)] = s[j + 1]}
<1>6. 0 \in Good
  BY <1>0, <1>3, <1>4, <1>5
<1>7. ASSUME NEW j \in Nat, j \in Good PROVE j + 1 \in Good
  <2> SUFFICES ASSUME j + 2 <= l PROVE r + (j + 2) \in 1..m /\ w[r + (j + 2)] = s[j + 2]
    OBVIOUS
  <2>1. j + 1 \in 1..l /\ j + 2 \in 1..l /\ 1 \in 1..l /\ 1 <= j + 1 /\ ~(j + 2 <= j + 1)
    OBVIOUS
  <2>2. PICK b \in 1..m : b = r + (j + 1) /\ w[b] = s[j + 1]
    BY <1>0, <1>7, <2>1
  <2>3. s[j + 2] \in V
    BY <1>5, <2>1
  <2>4. PICK k \in 1..m : w[k] = s[j + 2]
    BY <1>3, <2>3
  <2>5. /\ s[j + 1] \in Nat /\ s[j + 2] \in Nat /\ s[1] \in Nat
        /\ ~(s[j + 2] <= s[j + 1]) /\ s[1] <= s[j + 1]
    BY <1>2, <2>1
  <2>6. ~(k <= b)
    BY <1>3, <2>2, <2>4, <2>5
  <2>7. PICK c \in 1..m : c = r + (j + 2) /\ c <= k /\ b <= c /\ ~(c <= b)
    BY <1>0, <1>3, <2>2, <2>6
  <2>8. w[c] \in Nat /\ w[c] \in V /\ w[c] <= w[k] /\ ~(w[c] <= w[b])
    BY <1>3, <2>7
  <2>9. a <= w[c] /\ w[c] <= s[j + 2]
    BY <1>5, <2>1, <2>2, <2>4, <2>5, <2>8
  <2>10. PICK i \in 1..l : s[i] = w[c]
    BY <1>5, <2>1, <2>8, <2>9
  <2>11. i <= j + 2 /\ ~(i <= j + 1)
    BY <1>2, <2>1, <2>2, <2>8, <2>9, <2>10
  <2>12. i = j + 2
    BY <2>11
  <2> QED  BY <2>7, <2>10, <2>12
<1>8. Nat \subseteq Good
  <2> HIDE DEF Good
  <2> QED  BY <1>6, <1>7, NatInd
<1>9. ASSUME NEW j \in 1..l PROVE r + j \in 1..m /\ w[r + j] = s[j]
  <2>1. PICK i \in Nat : j = i + 1
    <3>1. j - 1 \in Nat /\ j = (j - 1) + 1
      OBVIOUS
    <3> QED  BY <3>1
  <2>2. i \in Good
    BY <1>8
  <2> QED  BY <2>1, <2>2
<1> QED  BY <1>2, <1>3, <1>9 DEF Continues

\* The part goes up to key hi of the tensor, d values of it are not in the next part.
NextPart(w, x, V, n, T, s, lo, hi, r, d) ==
  /\ RankedPart(w, x, V, n, T, s, lo, hi, FALSE, r) /\ hi < n
  /\ d = Len(s) - (IF Len(s) > 0 /\ x[hi + 1] = s[Len(s)] THEN 1 ELSE 0)

\* The next part begins so much later.
NextFound(w, x, hi, r, d) == d \in Nat /\ (r + d) + 1 <= Len(w) /\ w[(r + d) + 1] = x[hi + 1]

\* How many values come before the next part.
LEMMA NextRank ==
  ASSUME Inf \in Nat, NEW w, NEW x, NEW V, NEW n, NEW T, NEW s, NEW lo, NEW hi, NEW r, NEW d,
         NextPart(w, x, V, n, T, s, lo, hi, r, d)
  PROVE  NextFound(w, x, hi, r, d)
<1> SUFFICES ASSUME RankedPart(w, x, V, n, T, s, lo, hi, FALSE, r), hi < n,
                    d = Len(s) - (IF Len(s) > 0 /\ x[hi + 1] = s[Len(s)] THEN 1 ELSE 0)
             PROVE  d \in Nat /\ (r + d) + 1 <= Len(w) /\ w[(r + d) + 1] = x[hi + 1]
  BY DEF NextPart, NextFound
<1>0. /\ Arranged(x, V, n, T) /\ Enumerates(w, V) /\ KeepsPart(s, x, V, T, lo, hi, FALSE)
      /\ r \in Nat /\ r + 1 <= Len(w) /\ w[r + 1] = x[lo + 1]
  BY DEF RankedPart
<1>1. PartKept(s, x, V, n, T, lo, hi, FALSE)
  BY <1>0, PartFacts
<1>2. PICK l \in Nat :
           /\ l = Len(s)
           /\ \A j \in 1..l : s[j] \in Nat
           /\ \A i \in 1..l, j \in 1..l : i <= j <=> s[i] <= s[j]
  <2>1. Enumerates(s, KeptOf(x, lo, hi, FALSE))
    BY <1>0 DEF KeepsPart
  <2>2. PICK l \in Nat :
           /\ l = Len(s)
           /\ \A j \in 1..l : s[j] \in Nat
           /\ \A i \in 1..l, j \in 1..l : i <= j <=> s[i] <= s[j]
    BY <2>1, Increases
  <2> QED  BY <2>2
<1>3. PICK m \in Nat :
           /\ m = Len(w)
           /\ \A j \in 1..m : w[j] \in Nat /\ w[j] \in V
           /\ \A i \in 1..m, j \in 1..m : i <= j <=> w[i] <= w[j]
           /\ \A v \in V : \E j \in 1..m : w[j] = v
  <2>1. Enumerates(w, V)
    BY <1>0
  <2> QED  BY <2>1, Increases
<1>4. /\ T \in Nat /\ n \in 1..T /\ V \subseteq Nat
      /\ \A p \in 1..T : x[p] \in Nat /\ x[p] <= Inf
      /\ \A p \in 1..T, q \in 1..T : p <= q => x[p] <= x[q]
      /\ \A v \in V : v <= Inf
  BY <1>0, ArrangedKeys
<1>5. /\ \A p \in 1..n : x[p] \in V
      /\ \A v \in V : v # Inf => \E p \in 1..T : x[p] = v
  BY <1>0 DEF Arranged
<1>6. lo \in Nat /\ hi \in Nat /\ lo < hi /\ hi <= T
  BY <1>0 DEF KeepsPart
<1>7. PICK k \in 1..T, e \in 1..n : k = lo + 1 /\ e = hi + 1 /\ k <= hi
  BY <1>4, <1>6
<1>8. e \in 1..T /\ x[e] \in V /\ x[k] <= x[e] /\ x[e] \in Nat /\ x[k] \in Nat
  BY <1>4, <1>5, <1>6, <1>7
<1>9. /\ l > 0 => s[1] = x[k]
      /\ x[k] # Inf => l > 0
      /\ \A p \in k..hi : x[p] # Inf => \E i \in 1..l : s[i] = x[p]
      /\ \A j \in 1..l : \E p \in k..hi : s[j] = x[p]
  BY <1>1, <1>2, <1>7 DEF PartKept
<1>10. \A j \in 1..l : r + j \in 1..m /\ w[r + j] = s[j]
  <2>1. \A j \in 1..Len(s) : r + j \in 1..Len(w) /\ w[r + j] = s[j]
    <3>1. Continues(w, r, s)
      BY PartRank
    <3> QED  BY <3>1 DEF Continues
  <2> QED  BY <1>2, <1>3, <2>1
<1>11. d = l - (IF l > 0 /\ x[e] = s[l] THEN 1 ELSE 0)
  BY <1>2, <1>7
<1>12. CASE l = 0
  <2>1. x[k] = Inf /\ x[e] <= Inf
    BY <1>4, <1>8, <1>9, <1>12
  <2>2. x[e] = x[k] /\ d = 0
    BY <1>8, <1>11, <1>12, <2>1
  <2>3. (r + d) + 1 = r + 1
    BY <1>0, <2>2
  <2> QED  BY <1>0, <1>7, <2>2, <2>3
<1>13. CASE l > 0 /\ x[e] = s[l]
  <2>1. d = l - 1 /\ l \in 1..l
    BY <1>11, <1>13
  <2>2. (r + d) + 1 = r + l /\ d \in Nat
    BY <1>0, <1>13, <2>1
  <2>3. r + l \in 1..m /\ w[r + l] = s[l]
    BY <1>10, <2>1
  <2> QED  BY <1>3, <1>7, <1>13, <2>2, <2>3
<1>14. CASE l > 0 /\ x[e] # s[l]
  <2>1. l \in 1..l /\ 1 \in 1..l /\ d = l
    BY <1>11, <1>14
  <2>2. PICK b \in 1..m : b = r + l /\ w[b] = s[l]
    BY <1>10, <2>1
  <2>3. s[l] <= x[e]
    <3>1. PICK p \in k..hi : s[l] = x[p]
      BY <1>9, <2>1
    <3>2. p \in 1..T /\ p <= e
      BY <1>4, <1>6, <1>7
    <3> QED  BY <1>4, <1>8, <3>1, <3>2
  <2>4. s[l] \in Nat /\ s[l] < x[e] /\ s[1] <= s[l] /\ s[1] \in Nat
    BY <1>2, <1>8, <1>14, <2>1, <2>3
  <2>5. PICK g \in 1..m : w[g] = x[e]
    BY <1>3, <1>8
  <2>6. ~(g <= b)
    BY <1>3, <2>2, <2>4, <2>5
  <2>7. PICK c \in 1..m : c = b + 1 /\ c <= g
    BY <1>3, <2>6
  <2>8. w[c] \in Nat /\ w[c] \in V /\ w[c] <= x[e] /\ ~(w[c] <= s[l])
    BY <1>3, <2>2, <2>5, <2>7
  <2>9. ASSUME w[c] < x[e] PROVE FALSE
    <3>1. w[c] # Inf
      BY <1>4, <1>8, <2>8, <2>9
    <3>2. PICK p \in 1..T : x[p] = w[c]
      BY <1>5, <2>8, <3>1
    <3>3. p < e
      <4>1. e <= p => x[e] <= x[p]
        BY <1>4, <1>8
      <4> QED  BY <1>8, <2>8, <2>9, <3>2, <4>1
    <3>4. k < p
      <4>1. p <= k => x[p] <= x[k]
        BY <1>4
      <4> QED  BY <1>9, <1>8, <1>14, <2>4, <2>8, <3>2, <4>1
    <3>5. p \in k..hi
      BY <1>6, <1>7, <3>3, <3>4
    <3>6. PICK i \in 1..l : s[i] = w[c]
      BY <1>9, <3>1, <3>2, <3>5
    <3>7. s[i] <= s[l]
      BY <1>2, <2>1
    <3> QED  BY <2>8, <3>6, <3>7
  <2>10. w[c] = x[e]
    BY <1>8, <2>8, <2>9
  <2>11. (r + d) + 1 = c
    BY <1>0, <2>1, <2>2, <2>7
  <2> QED  BY <1>3, <1>7, <2>1, <2>7, <2>10, <2>11
<1> QED  BY <1>12, <1>13, <1>14

\* The last part ends with the last value.
LEMMA LastRank ==
  ASSUME Inf \in Nat, NEW w, NEW x, NEW V, NEW n, NEW T, NEW s, NEW lo, NEW hi, NEW inf, NEW r,
         RankedPart(w, x, V, n, T, s, lo, hi, inf, r), lo < n, hi = T, inf <=> Inf \in V
  PROVE  r + Len(s) = Len(w)
<1>0. /\ Arranged(x, V, n, T) /\ Enumerates(w, V) /\ KeepsPart(s, x, V, T, lo, hi, inf)
      /\ r \in Nat /\ r + 1 <= Len(w) /\ w[r + 1] = x[lo + 1]
  BY DEF RankedPart
<1>1. PartKept(s, x, V, n, T, lo, hi, inf)
  BY <1>0, PartFacts
<1>2. PICK l \in Nat :
           /\ l = Len(s)
           /\ \A j \in 1..l : s[j] \in Nat
           /\ \A i \in 1..l, j \in 1..l : i <= j <=> s[i] <= s[j]
  <2>1. Enumerates(s, KeptOf(x, lo, hi, inf))
    BY <1>0 DEF KeepsPart
  <2>2. PICK l \in Nat :
           /\ l = Len(s)
           /\ \A j \in 1..l : s[j] \in Nat
           /\ \A i \in 1..l, j \in 1..l : i <= j <=> s[i] <= s[j]
    BY <2>1, Increases
  <2> QED  BY <2>2
<1>3. PICK m \in Nat :
           /\ m = Len(w)
           /\ \A j \in 1..m : w[j] \in Nat /\ w[j] \in V
           /\ \A i \in 1..m, j \in 1..m : i <= j <=> w[i] <= w[j]
  <2>1. Enumerates(w, V)
    BY <1>0
  <2> QED  BY <2>1, Increases
<1>4. /\ T \in Nat /\ n \in 1..T /\ V \subseteq Nat
      /\ \A p \in 1..T : x[p] \in Nat /\ x[p] <= Inf
      /\ \A p \in 1..T, q \in 1..T : p <= q => x[p] <= x[q]
  BY <1>0, ArrangedKeys
<1>5. /\ \A p \in 1..n : x[p] \in V
      /\ \A v \in V : v # Inf => \E p \in 1..T : x[p] = v
  BY <1>0 DEF Arranged
<1>6. lo \in Nat /\ hi \in Nat /\ lo < hi /\ inf \in BOOLEAN
  BY <1>0 DEF KeepsPart
<1>7. PICK k \in 1..T : k = lo + 1 /\ k \in 1..n
  BY <1>4, <1>6
<1>8. /\ l > 0 => s[1] = x[k]
      /\ x[k] # Inf => l > 0
      /\ \A p \in k..T : x[p] # Inf => \E i \in 1..l : s[i] = x[p]
      /\ inf => \E i \in 1..l : s[i] = Inf
  BY <1>1, <1>2, <1>7 DEF PartKept
<1>9. l > 0
  <2>1. CASE inf
    <3>1. PICK i \in 1..l : s[i] = Inf
      BY <1>8, <2>1
    <3> QED  BY <3>1
  <2>2. CASE ~inf
    <3>1. x[k] \in V
      BY <1>5, <1>7
    <3> QED  BY <1>8, <2>2, <3>1
  <2> QED  BY <1>6, <2>1, <2>2
<1>10. l \in 1..l /\ 1 \in 1..l
  BY <1>9
<1>11. PICK b \in 1..m : b = r + l /\ w[b] = s[l]
  <2>1. \A j \in 1..Len(s) : r + j \in 1..Len(w) /\ w[r + j] = s[j]
    BY PartRank DEF Continues
  <2> QED  BY <1>2, <1>3, <1>10, <2>1
<1>12. m \in 1..m
  BY <1>3, <1>11
<1>13. PICK v \in V : v = w[m] /\ v \in Nat
  BY <1>3, <1>12
<1>14. s[l] \in Nat /\ s[1] \in Nat /\ s[1] <= s[l] /\ \A i \in 1..l : s[i] <= s[l]
  BY <1>2, <1>10
<1>15. ASSUME s[l] < v PROVE FALSE
  <2>1. CASE v = Inf
    <3>1. PICK i \in 1..l : s[i] = Inf
      BY <1>8, <2>1
    <3> QED  BY <1>13, <1>14, <1>15, <2>1, <3>1
  <2>2. CASE v # Inf
    <3>1. PICK p \in 1..T : x[p] = v
      BY <1>5, <2>2
    <3>2. k < p
      <4>1. p <= k => x[p] <= x[k]
        BY <1>4
      <4> QED  BY <1>8, <1>9, <1>13, <1>14, <1>15, <3>1, <4>1
    <3>3. p \in k..T
      BY <3>2
    <3>4. PICK i \in 1..l : s[i] = x[p]
      BY <1>8, <2>2, <3>1, <3>3
    <3> QED  BY <1>13, <1>14, <1>15, <3>1, <3>4
  <2> QED  BY <2>1, <2>2
<1>16. w[m] <= w[b]
  BY <1>11, <1>13, <1>14, <1>15
<1>17. m <= b
  BY <1>3, <1>12, <1>16
<1> QED  BY <1>0, <1>2, <1>3, <1>11, <1>17
=============================================================================
