------------------------------ MODULE UniqueV2 ------------------------------
(***************************************************************************)
(* The kernel UniqueV2: the sorted distinct values of a tensor, computed   *)
(* by all cores of the device together                                     *)
(* (kernels/unique_v2/op_kernel/unique_v2.h).                              *)
(*                                                                         *)
(* Every core runs the same program on its own block: it sorts its tiles,  *)
(* merges them, takes part in a tree of merges over all blocks, drops the  *)
(* duplicates of its block and copies what is left to where it belongs in  *)
(* the output.  The cores share two workspace buffers and synchronise by   *)
(* barriers (SyncAll) and by flags, one per core and event (IBSet,         *)
(* IBWait).  An action is what a core does between two of these, or one    *)
(* round of a merge.                                                       *)
(*                                                                         *)
(* A buffer is addressed in floats.  Sorting keeps pairs, a key and the    *)
(* index it came from; the distinct keys are then packed in front of the   *)
(* block without indexes.  The code negates the keys and sorts downwards;  *)
(* the model leaves the sign away.                                         *)
(*                                                                         *)
(* Left out: the Cast of integers to the floats that are sorted (a key is  *)
(* a value after it; beyond 2^24 different integers may become one key),   *)
(* and the size of the workspace, which the host computes: the buffers and *)
(* counts lie apart and are as long as the kernel addresses them.          *)
(***************************************************************************)
EXTENDS UniqueTiling, FiniteSetsExt, SequencesExt, TLC

CONSTANTS
  BufferLen,   \* BUFFER_LEN: queues -> keys of each taken in one merge round
  Inf,         \* infinity, also the padding; greater than every other key
  Calls,       \* bound: the tensors the kernel is called with, each with the
               \* number of cores of the device
  Stale        \* bound: what memory the kernel never wrote may hold

Keys == 1..Inf
Index == 0     \* the other half of a pair, never read as a key

ASSUME UniqueAssumption ==
  /\ ByteRange <= 256   \* of a uint8_t
  /\ BufferLen \in [2..4 -> Nat \ {0}]
  /\ Inf \in Nat \ {0}
  /\ Calls \subseteq Seq(Keys) \X (2..(ByteRange - 1))
  /\ \A c \in Calls : Len(c[1]) > 1
  /\ Stale \subseteq Keys \cup {Index}

VARIABLES
  input,     \* the tensor
  aivNum,    \* the number of cores
  stale,     \* what is found in memory nobody wrote
  buf,       \* the two buffers of the workspace
  flags,     \* the flags set and not yet waited for: <<core, event>>
  counts,    \* blockUniqueCntGlobal
  dst,       \* the output
  dstCnt,    \* uniqueCnt, the length of the output
  pc,        \* what each core does next
  cur,       \* the buffer each core takes for sortedGlobal1
  bind,      \* bindTile, then bindBlock: parts in a run of the merge
  group,     \* the group of runs BlockSort has come to
  waits,     \* the run GlobalSort waits for
  merge,     \* the merge a core has under way
  eventID,
  tile,      \* the tile TileUnique has come to
  hasInf,    \* hasInfFlag
  uniq,      \* blockUniqueCnt
  lastVal    \* lastTileUniqueVal

call == <<input, aivNum, stale>>
output == <<dst, dstCnt>>
sorting == <<cur, bind, group, waits, merge, eventID>>
packing == <<tile, hasInf, uniq, lastVal, counts>>
vars == <<call, buf, flags, output, pc, sorting, packing>>

total == Len(input)
blockNum == BlockNum(total, aivNum)
Cores == 0..(blockNum - 1)
Offset(b) == GetGlobalOffset(total, aivNum, b)
tileNum(b) == BlockTileNum(total, aivNum, b)
padded == TileNum(total) * TileLength

Unwritten == 0

\* What the cores do next, and with which parts of the workspace.
ControlOK ==
  /\ <<input, aivNum>> \in Calls /\ stale \in Stale
  /\ flags \subseteq Cores \X (0..7)
  /\ pc \in [Cores -> {"tiles", "block", "sync1", "global", "sync2",
                       "unique", "chain", "copy", "done"}]
  /\ cur \in [Cores -> 1..2]
  /\ bind \in [Cores -> Nat \ {0}]
  /\ group \in [Cores -> Nat]
  /\ waits \in [Cores -> 1..4]
  /\ \A b \in Cores : /\ Len(merge[b].rest) = Len(merge[b].head)
                      /\ Len(merge[b].rest) <= 4
  /\ eventID \in [Cores -> 0..7]
  /\ tile \in [Cores -> Nat]
  /\ hasInf \in [Cores -> BOOLEAN]

\* What is in memory, and how much of it is counted.
MemoryOK ==
  /\ buf \in [1..2 -> [1..(2 * padded) -> Keys \cup {Index}]]
  /\ counts \in [Cores -> 0..padded]
  /\ dst \in [1..padded -> Keys \cup {Unwritten}]
  /\ dstCnt \in 0..padded
  /\ uniq \in [Cores -> 0..padded]
  /\ lastVal \in [Cores -> Keys \cup {Index}]

UniqueTypeOK == ControlOK /\ MemoryOK

NoMerge == [head |-> <<>>, rest |-> <<>>, out |-> 0]

\* lastTileUniqueVal has no initialiser.
Init ==
  /\ \E c \in Calls : input = c[1] /\ aivNum = c[2]
  /\ stale \in Stale
  /\ buf = [i \in 1..2 |-> [k \in 1..(2 * padded) |-> Index]]
  /\ flags = {}
  /\ counts = [b \in Cores |-> 0]
  /\ dst = [k \in 1..padded |-> Unwritten]
  /\ dstCnt = 0
  /\ pc = [b \in Cores |-> "tiles"]
  /\ cur = [b \in Cores |-> 1]
  /\ bind = [b \in Cores |-> 1]
  /\ group = [b \in Cores |-> 0]
  /\ waits = [b \in Cores |-> 1]
  /\ merge = [b \in Cores |-> NoMerge]
  /\ eventID = [b \in Cores |-> 0]
  /\ tile = [b \in Cores |-> 0]
  /\ hasInf = [b \in Cores |-> FALSE]
  /\ uniq = [b \in Cores |-> 0]
  /\ lastVal = [b \in Cores |-> stale]

-----------------------------------------------------------------------------
(* Memory *)

\* A memory is the sequence of its floats; position k of the code is k + 1 of
\* the sequence.  The floats s written from position k on:
WriteAt(m, k, s) == SubSeq(m, 1, k) \o s \o SubSeq(m, k + Len(s) + 1, Len(m))

Pairs(s) ==
  [i \in 1..(2 * Len(s)) |-> IF i % 2 = 1 THEN s[(i + 1) \div 2] ELSE Index]

\* The keys of `len' pairs from element `from' on.
KeysAt(m, from, len) == [i \in 1..len |-> m[2 * (from + i - 1) + 1]]

\* A single float of buffer c.  The buffers follow each other, so the float
\* before the second is the last of the first.
ReadAt(c, k) ==
  IF k >= 0 THEN buf[c][k + 1]
            ELSE IF c = 2 THEN buf[1][2 * padded + k + 1] ELSE stale

\* The i-th key of the sorted sequence is the least that i keys of s do not exceed.
Ascending(s) ==
  [i \in 1..Len(s) |->
     Min({x \in ToSet(s) : i <= Cardinality({j \in DOMAIN s : s[j] <= x})})]

-----------------------------------------------------------------------------
(* Sorting the tiles *)

\* The last tile of the last block is filled with infinity before the tail.  The
\* input is what the Cast of an integer tensor leaves.
CopyIn(b, t) ==
  LET whole == t # tileNum(b) - 1 \/ b # blockNum - 1 \/ TailLength(total) = 0
      castLen == IF whole THEN TileLength ELSE TailLength(total)
  IN [k \in 1..TileLength |->
        IF k <= castLen THEN input[Offset(b) + t * TileLength + k] ELSE Inf]

\* CopyIn, Elem32Sort and TileSort of each tile.
SortTiles(b) ==
  LET tiles == [t \in 1..tileNum(b) |-> Ascending(CopyIn(b, t - 1))]
  IN /\ pc[b] = "tiles"
     /\ buf' = [buf EXCEPT ![1] = WriteAt(@, 2 * Offset(b), Pairs(FlattenSeq(tiles)))]
     /\ pc' = [pc EXCEPT ![b] = IF blockNum = 1 THEN "unique"
                                ELSE IF tileNum(b) > 1 THEN "block" ELSE "sync1"]
     /\ UNCHANGED <<call, flags, output, sorting, packing>>

-----------------------------------------------------------------------------
(* Merging, MrgSortGM: the queues of a merge are runs of the current buffer, *)
(* the result goes to the other one.                                         *)

Other(c) == 3 - c

\* What the instruction MrgSort may take from each of its chunks: it stops
\* when the first of them is exhausted, having taken no key that is greater
\* than one it left.  Which of two equal keys it takes first is open.
Taken(chunks) ==
  {k \in [DOMAIN chunks -> 0..BufferLen[Len(chunks)]] :
     \E e \in DOMAIN chunks :
       LET last == chunks[e][Len(chunks[e])]
       IN /\ k[e] = Len(chunks[e])
          /\ \A i \in DOMAIN chunks \ {e} :
               /\ k[i] < Len(chunks[i])
               /\ \A j \in 1..Len(chunks[i]) :
                    /\ chunks[i][j] < last => j <= k[i]
                    /\ chunks[i][j] > last => j > k[i]}

\* The sum of the lengths of up to four queues, that of a missing one being 0.
SumOf(lengths) ==
  LET length(i) == IF i \in DOMAIN lengths THEN lengths[i] ELSE 0
  IN length(1) + length(2) + length(3) + length(4)

\* "Switch empty to tail": a queue that ran empty is dropped.  There is at most
\* one, since the merge is suspended when a queue is exhausted.
DropEmpty(m) ==
  LET empty == CHOOSE i \in DOMAIN m.rest : m.rest[i] = 0
  IN IF \E i \in DOMAIN m.rest : m.rest[i] = 0
     THEN [m EXCEPT !.head = RemoveAt(@, empty), !.rest = RemoveAt(@, empty)]
     ELSE m

MergeRound(b) ==
  LET m == merge[b]
      queues == DOMAIN m.rest
      chunks == [i \in queues |->
                   KeysAt(buf[cur[b]], m.head[i],
                          Lesser(m.rest[i], BufferLen[Len(m.rest)]))]
  IN /\ Len(m.rest) > 1
     /\ \E k \in Taken(chunks) :
          LET sorted == Ascending(FlattenSeq([i \in queues |-> SubSeq(chunks[i], 1, k[i])]))
          IN /\ buf' = [buf EXCEPT ![Other(cur[b])] = WriteAt(@, 2 * m.out, Pairs(sorted))]
             /\ merge' = [merge EXCEPT ![b] =
                  DropEmpty([head |-> [i \in queues |-> m.head[i] + k[i]],
                             rest |-> [i \in queues |-> m.rest[i] - k[i]],
                             out |-> m.out + SumOf(k)])]
     /\ UNCHANGED <<call, flags, output, pc, cur, bind, group, waits, eventID, packing>>

\* The rest of the last queue is copied.
CopyRest(b) ==
  LET m == merge[b]
      rest == KeysAt(buf[cur[b]], m.head[1], m.rest[1])
  IN /\ Len(m.rest) = 1
     /\ buf' = [buf EXCEPT ![Other(cur[b])] = WriteAt(@, 2 * m.out, Pairs(rest))]
     /\ merge' = [merge EXCEPT ![b] = NoMerge]

-----------------------------------------------------------------------------
(* BlockSortV2: the tiles of a block, four runs at a time *)

Switched(b) == cur' = [cur EXCEPT ![b] = Other(@)]
Widened(b) == bind' = [bind EXCEPT ![b] = 4 * @]

BlockGroup(b) ==
  LET first == group[b]
      queues == 1..QueueNum(tileNum(b), bind[b], first)
      base == Offset(b) + first * TileLength
  IN /\ pc[b] = "block" /\ merge[b] = NoMerge
     /\ bind[b] < tileNum(b) /\ first < tileNum(b)
     /\ merge' = [merge EXCEPT ![b] =
          [head |-> [i \in queues |-> base + bind[b] * (i - 1) * TileLength],
           rest |-> [i \in queues |->
                       QueueParts(tileNum(b), bind[b], first, i) * TileLength],
           out |-> base]]
     /\ group' = [group EXCEPT ![b] = first + 4 * bind[b]]
     /\ UNCHANGED <<call, buf, flags, output, pc, cur, bind, waits, eventID, packing>>

BlockCopyRest(b) ==
  /\ pc[b] = "block"
  /\ CopyRest(b)
  /\ UNCHANGED <<call, flags, output, pc, cur, bind, group, waits, eventID, packing>>

BlockLevel(b) ==
  /\ pc[b] = "block" /\ merge[b] = NoMerge
  /\ group[b] >= tileNum(b) /\ bind[b] < tileNum(b)
  /\ Switched(b)
  /\ Widened(b)
  /\ group' = [group EXCEPT ![b] = 0]
  /\ UNCHANGED <<call, buf, flags, output, pc, waits, merge, eventID, packing>>

\* Mutant: the block stays in the buffer the last merge wrote.
BlockDoneNoCopy(b) ==
  /\ pc[b] = "block" /\ merge[b] = NoMerge
  /\ bind[b] >= tileNum(b)
  /\ cur' = [cur EXCEPT ![b] = 1]
  /\ bind' = [bind EXCEPT ![b] = 1]
  /\ pc' = [pc EXCEPT ![b] = "sync1"]
  /\ UNCHANGED <<call, buf, flags, output, group, waits, merge, eventID, packing>>

\* The block is brought back to the first buffer.
BlockDone(b) ==
  LET block == KeysAt(buf[2], Offset(b), tileNum(b) * TileLength)
  IN /\ pc[b] = "block" /\ merge[b] = NoMerge
     /\ bind[b] >= tileNum(b)
     /\ IF cur[b] = 2 THEN buf' = [buf EXCEPT ![1] = WriteAt(@, 2 * Offset(b), Pairs(block))]
                      ELSE UNCHANGED buf
     /\ cur' = [cur EXCEPT ![b] = 1]
     /\ bind' = [bind EXCEPT ![b] = 1]
     /\ pc' = [pc EXCEPT ![b] = "sync1"]
     /\ UNCHANGED <<call, flags, output, group, waits, merge, eventID, packing>>

-----------------------------------------------------------------------------
(* SyncAll: no core goes on before all have arrived. *)

Barrier(from, to) ==
  /\ \A b \in Cores : pc[b] = from
  /\ pc' = [b \in Cores |-> to]
  /\ UNCHANGED <<call, buf, flags, output, sorting, packing>>

SyncAll == Barrier("sync1", "global") \/ Barrier("sync2", "unique")

-----------------------------------------------------------------------------
(* GlobalSortV2: the blocks, four runs at a time.  On each level the first   *)
(* core of a group merges, when the first cores of the other runs have set   *)
(* their flags.                                                              *)

Position(b) == b % (4 * bind[b])
Leads(b) == Position(b) = 0
Follows(b) == Position(b) \in {bind[b], 2 * bind[b], 3 * bind[b]}
Runs(b) == QueueNum(blockNum, bind[b], b)

NextLevel(b) ==
  /\ Switched(b)
  /\ Widened(b)
  /\ waits' = [waits EXCEPT ![b] = 1]
  /\ eventID' = [eventID EXCEPT ![b] = @ + 1]
  /\ pc' = [pc EXCEPT ![b] = IF 4 * bind[b] >= blockNum THEN "sync2" ELSE "global"]

\* Mutant: the flag is forgotten.
GlobalSignalNothing(b) ==
  /\ pc[b] = "global" /\ Follows(b)
  /\ NextLevel(b)
  /\ UNCHANGED <<call, buf, flags, output, group, merge, packing>>

GlobalSignal(b) ==
  /\ pc[b] = "global" /\ Follows(b)
  /\ flags' = flags \cup {<<b, eventID[b]>>}
  /\ NextLevel(b)
  /\ UNCHANGED <<call, buf, output, group, merge, packing>>

\* A core inside a run has nothing to do.
GlobalPass(b) ==
  /\ pc[b] = "global" /\ ~Leads(b) /\ ~Follows(b)
  /\ NextLevel(b)
  /\ UNCHANGED <<call, buf, flags, output, group, merge, packing>>

\* Mutant: the leader goes on whether or not the flag is set.
GlobalWaitNot(b) ==
  /\ pc[b] = "global" /\ Leads(b) /\ waits[b] < Runs(b)
  /\ flags' = flags \ {<<b + bind[b] * waits[b], eventID[b]>>}
  /\ waits' = [waits EXCEPT ![b] = @ + 1]
  /\ UNCHANGED <<call, buf, output, pc, cur, bind, group, merge, eventID, packing>>

GlobalWait(b) ==
  LET flag == <<b + bind[b] * waits[b], eventID[b]>>
  IN /\ pc[b] = "global" /\ Leads(b) /\ waits[b] < Runs(b)
     /\ flag \in flags
     /\ flags' = flags \ {flag}
     /\ waits' = [waits EXCEPT ![b] = @ + 1]
     /\ UNCHANGED <<call, buf, output, pc, cur, bind, group, merge, eventID, packing>>

\* The first element of run i of the group b leads, and the end of the last run.
RunStart(b, i) == Offset(b + bind[b] * (i - 1))
RunEnd(b, i) ==
  Offset(b + bind[b] * (i - 1) + QueueParts(blockNum, bind[b], b, i))

GlobalMerge(b) ==
  LET queues == 1..Runs(b)
  IN /\ pc[b] = "global" /\ Leads(b)
     /\ waits[b] = Runs(b) /\ merge[b] = NoMerge
     /\ merge' = [merge EXCEPT ![b] =
          [head |-> [i \in queues |-> RunStart(b, i)],
           rest |-> [i \in queues |-> RunEnd(b, i) - RunStart(b, i)],
           out |-> Offset(b)]]
     /\ UNCHANGED <<call, buf, flags, output, pc, cur, bind, group, waits, eventID, packing>>

GlobalCopyRest(b) ==
  /\ pc[b] = "global"
  /\ CopyRest(b)
  /\ NextLevel(b)
  /\ UNCHANGED <<call, flags, output, group, packing>>

-----------------------------------------------------------------------------
(* Dropping the duplicates of a block, TileUnique *)

\* The j-th smallest member of a set of numbers.
Nth(S, j) == CHOOSE i \in S : Cardinality({l \in S : l <= i}) = j

\* ConsecutiveUnique: a key stays if the next one differs; the last key is
\* compared with infinity, which removes the padding.
Distinct(keys) ==
  LET next == [i \in DOMAIN keys |-> IF i = Len(keys) THEN Inf ELSE keys[i + 1]]
      kept == {i \in DOMAIN keys : keys[i] # next[i]}
  IN [j \in 1..Cardinality(kept) |-> keys[Nth(kept, j)]]

\* A block without any key that is not infinite writes nothing and keeps what
\* it found in lastTileUniqueVal.
TileUnique(b) ==
  LET inf == IF tile[b] = 0
               THEN b = blockNum - 1 /\ ReadAt(cur[b], 2 * (total - 1)) = Inf
               ELSE hasInf[b]
      last == tile[b] = tileNum(b) - 1
      own == Distinct(KeysAt(buf[cur[b]], Offset(b) + tile[b] * TileLength, TileLength))
      keys == IF last /\ inf THEN Append(own, Inf) ELSE own
      again == keys # <<>> /\ tile[b] # 0 /\ lastVal[b] = keys[1]
      cnt == uniq[b] + Len(keys) - (IF again THEN 1 ELSE 0)
  IN /\ pc[b] = "unique"
     /\ hasInf' = [hasInf EXCEPT ![b] = inf]
     /\ uniq' = [uniq EXCEPT ![b] = cnt]
     /\ buf' = [buf EXCEPT ![cur[b]] = WriteAt(@, 2 * Offset(b) + cnt - Len(keys), keys)]
     /\ lastVal' = [lastVal EXCEPT ![b] = IF keys = <<>> THEN @ ELSE keys[Len(keys)]]
     /\ counts' = IF last THEN [counts EXCEPT ![b] = cnt] ELSE counts
     /\ tile' = [tile EXCEPT ![b] = @ + 1]
     /\ pc' = [pc EXCEPT ![b] =
                 IF ~last THEN @ ELSE IF blockNum > 1 THEN "chain" ELSE "copy"]
     /\ UNCHANGED <<call, flags, output, sorting>>

-----------------------------------------------------------------------------
(* Gathering the blocks *)

\* Mutant: a core tells the next one without having waited itself.
ChainUnordered(b) ==
  /\ pc[b] = "chain"
  /\ b # 0 => pc[b - 1] # "tiles"
  /\ flags' = (flags \ {<<b - 1, eventID[b]>>}) \cup {<<b, eventID[b]>>}
  /\ pc' = [pc EXCEPT ![b] = "copy"]
  /\ UNCHANGED <<call, buf, output, sorting, packing>>

\* A core waits for the one before it and then sets its own flag.
Chain(b) ==
  /\ pc[b] = "chain"
  /\ b # 0 => <<b - 1, eventID[b]>> \in flags
  /\ flags' = (flags \ {<<b - 1, eventID[b]>>}) \cup {<<b, eventID[b]>>}
  /\ pc' = [pc EXCEPT ![b] = "copy"]
  /\ UNCHANGED <<call, buf, output, sorting, packing>>

\* Mutant: a key on the boundary of two blocks is counted in both.
SameAcrossNever(b, i) == FALSE

\* Mutant: every block is taken to end with the first key of the next.
SameAcrossAlways(b, i) == TRUE

\* Block i ends with the key that block i + 1 begins with.
SameAcross(b, i) ==
  ReadAt(cur[b], 2 * Offset(i + 1)) = ReadAt(cur[b], 2 * Offset(i) + counts[i] - 1)

\* lastAccUniqueCnt, the number of distinct keys of the blocks before b.
Before(b) ==
  LET acc[i \in 0..b] ==
        IF i = 0 THEN 0
        ELSE acc[i - 1] + counts[i - 1] - (IF SameAcross(b, i - 1) THEN 1 ELSE 0)
  IN acc[b]

CopyOut(b) ==
  LET keys == [j \in 1..counts[b] |-> ReadAt(cur[b], 2 * Offset(b) + j - 1)]
  IN /\ pc[b] = "copy"
     /\ dst' = WriteAt(dst, Before(b), keys)
     /\ dstCnt' = IF b = blockNum - 1 THEN Before(b) + counts[b] ELSE dstCnt
     /\ pc' = [pc EXCEPT ![b] = "done"]
     /\ UNCHANGED <<call, buf, flags, sorting, packing>>

-----------------------------------------------------------------------------

Step(b) ==
  \/ SortTiles(b)
  \/ BlockGroup(b) \/ BlockCopyRest(b) \/ BlockLevel(b) \/ BlockDone(b)
  \/ MergeRound(b)
  \/ GlobalSignal(b) \/ GlobalPass(b) \/ GlobalWait(b)
  \/ GlobalMerge(b) \/ GlobalCopyRest(b)
  \/ TileUnique(b)
  \/ Chain(b) \/ CopyOut(b)

Finished == \A b \in Cores : pc[b] = "done"

\* The kernel has returned on every core.
Returned == Finished /\ UNCHANGED vars

Work == SyncAll \/ \E b \in Cores : Step(b)

Next == Work \/ Returned

\* The device goes on as long as one of its cores can.
Spec == Init /\ [][Next]_vars /\ WF_vars(Work)

-----------------------------------------------------------------------------
(* Properties *)

Block(b) == Offset(b)..(Offset(b) + tileNum(b) * TileLength - 1)
MergeReads(m) == UNION {m.head[i]..(m.head[i] + m.rest[i] - 1) : i \in DOMAIN m.head}
MergeWrites(m) == m.out..(m.out + SumOf(m.rest) - 1)

\* No block has more tiles than the counters of BlockSort hold.
BlocksFit ==
  \A c \in Calls : \A b \in 0..(BlockNum(Len(c[1]), c[2]) - 1) :
    BlockTileNum(Len(c[1]), c[2], b) <= ByteRange

\* How many keys of s are not infinite.
FiniteKeys(s) == Cardinality({i \in DOMAIN s : s[i] # Inf})

\* The last block has a single tile or begins with a finite key, and so does the first
\* block unless it is the only one.
Ordinary(s, aiv) ==
  LET n == Len(s)
      last == BlockNum(n, aiv) - 1
  IN /\ last = 0 \/ FiniteKeys(s) > 0
     /\ BlockTileNum(n, aiv, last) = 1 \/ FiniteKeys(s) > GetGlobalOffset(n, aiv, last)

\* Infinite elements fill no block of several tiles, nor all of several blocks.
OrdinaryCalls == \A c \in Calls : Ordinary(c[1], c[2])

\* The core is about to bring its block back to the first buffer.
CopiesBack(b) ==
  pc[b] = "block" /\ merge[b] = NoMerge /\ bind[b] >= tileNum(b) /\ cur[b] = 2

\* The elements of the workspace each core is about to read, and to write.
Reads(b) ==
  IF CopiesBack(b) THEN {2} \X Block(b)
  ELSE IF pc[b] \in {"block", "global"} THEN {cur[b]} \X MergeReads(merge[b])
  ELSE IF pc[b] = "copy" THEN {cur[b]} \X UNION {Block(i) : i \in 0..b}
  ELSE {}
Writes(b) ==
  IF pc[b] = "tiles" \/ CopiesBack(b) THEN {1} \X Block(b)
  ELSE IF pc[b] \in {"block", "global"} THEN {Other(cur[b])} \X MergeWrites(merge[b])
  ELSE IF pc[b] = "unique" THEN {cur[b]} \X Block(b)
  ELSE {}

\* No core writes what another is reading or writing at the same time: the
\* flags and barriers order all accesses to the shared workspace.
RaceFree ==
  \A b, c \in Cores : b # c => Writes(b) \cap (Reads(c) \cup Writes(c)) = {}

\* When the cores begin to drop duplicates, the buffer all of them look at
\* holds the elements of the tensor and the padding, sorted across the blocks.
SortedTogether ==
  (\A b \in Cores : pc[b] = "unique" /\ tile[b] = 0) =>
    /\ \A b \in Cores : cur[b] = cur[0]
    /\ KeysAt(buf[cur[0]], 0, padded) =
         Ascending(input \o [i \in 1..(padded - total) |-> Inf])

\* The output is the sorted tensor without its duplicates, infinity once if
\* the tensor has it, however the tensor was cut and the cores were scheduled.
ResultExact ==
  Finished =>
    /\ {dst[k] : k \in 1..dstCnt} = ToSet(input)
    /\ \A k \in 1..(dstCnt - 1) : dst[k] < dst[k + 1]

\* What is said of npu_unique in its documentation, for the tensors whose
\* infinite elements fill whole blocks.
SortsAndDeduplicates == ResultExact

\* Two cores that write the same place of the output write the same key there.
OutputAgrees ==
  [][\A k \in DOMAIN dst : dst[k] # Unwritten => dst'[k] = dst[k]]_vars

\* The kernel returns on every core.
Terminates == <>Finished
=============================================================================
