---------------------------- MODULE UniqueTiling ----------------------------
(***************************************************************************)
(* How the operator UniqueV2 divides its input over the cores of the       *)
(* device: the tiling the host computes (kernels/unique_v2/op_host) and    *)
(* what each core derives from it (kernels/unique_v2/op_kernel).           *)
(*                                                                         *)
(* The input is cut into tiles, the last one padded, and the tiles into    *)
(* blocks, one per core: the first blocks are short, those that remain     *)
(* have one tile more.                                                     *)
(***************************************************************************)
EXTENDS Integers, Sequences

CONSTANTS
  TileLength,   \* elements of a tile, 8192 in the code
  ByteRange     \* the values a uint8_t holds, 256 in the code

ASSUME TilingAssumption ==
  /\ TileLength \in Nat \ {0}
  /\ ByteRange \in Nat \ {0}

\* Throughout, n is the number of elements and aiv the number of cores.

TileNum(n) == (n + TileLength - 1) \div TileLength
TailLength(n) == n % TileLength
BlockNum(n, aiv) == IF TileNum(n) >= aiv THEN aiv ELSE TileNum(n)
ShortBlockTileNum(n, aiv) == TileNum(n) \div BlockNum(n, aiv)
ShortBlockNum(n, aiv) == BlockNum(n, aiv) - (TileNum(n) % BlockNum(n, aiv))

\* The tiles of block b.
BlockTileNum(n, aiv, b) ==
  IF ShortBlockNum(n, aiv) > b THEN ShortBlockTileNum(n, aiv)
                               ELSE ShortBlockTileNum(n, aiv) + 1

Lesser(i, j) == IF i > j THEN j ELSE i

\* The first element of block b.
GetGlobalOffset(n, aiv, b) ==
  ( ShortBlockTileNum(n, aiv) * Lesser(ShortBlockNum(n, aiv), b)
    + (ShortBlockTileNum(n, aiv) + 1) *
        (IF ShortBlockNum(n, aiv) >= b THEN 0 ELSE b - ShortBlockNum(n, aiv))
  ) * TileLength

-----------------------------------------------------------------------------
(* Merging runs of `bind' parts, four runs at a time: the group that begins *)
(* at part `first' of `total' has QueueNum runs, all of `bind' parts but    *)
(* the last.                                                                *)

GroupSize(total, bind, first) == Lesser(total - first, 4 * bind)
QueueNum(total, bind, first) == (GroupSize(total, bind, first) + bind - 1) \div bind

\* A uint8_t, both where it is computed and where it is replaced: of runs of
\* ByteRange parts, a last one that is whole counts as none, a shorter one is right.
LastQueue(total, bind, first) ==
  LET parts == (GroupSize(total, bind, first) % bind) % ByteRange
  IN IF parts = 0 THEN bind % ByteRange ELSE parts

QueueParts(total, bind, first, i) ==
  IF i < QueueNum(total, bind, first) THEN bind ELSE LastQueue(total, bind, first)
=============================================================================
