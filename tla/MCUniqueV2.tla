----------------------------- MODULE MCUniqueV2 -----------------------------
\* Small devices and tensors for UniqueV2.
EXTENDS UniqueV2

MCBufferLen == (2 :> 2) @@ (3 :> 2) @@ (4 :> 1)

\* Every tensor of up to five elements.
Short == UNION {[1..n -> {1, 2, Inf}] : n \in 2..5}

\* Longer tensors: trees of two levels, blocks of several tiles, keys that run
\* over several blocks and blocks of nothing but infinity.
Long ==
  { [i \in 1..9 |-> 1 + (((7 * i) % 5) % 3)],
    [i \in 1..9 |-> IF i < 7 THEN Inf ELSE 1],
    [i \in 1..10 |-> IF i = 5 THEN 1 ELSE 2],
    [i \in 1..11 |-> IF i = 6 THEN Inf ELSE 1 + (i % 2)],
    [i \in 1..12 |-> IF i > 6 THEN 1 ELSE 2] }
Wide == { [i \in 1..9 |-> IF i < 3 THEN Inf ELSE i],
          [i \in 1..17 |-> 1 + ((7 * i) % 17)] }

All == (Short \X {2, 5}) \cup (Long \X {5}) \cup (Wide \X {2})

MCCalls == {c \in All : Ordinary(c[1], c[2])}

\* The counters of BlockSort hold the tiles of every block.
ASSUME CallsFit == BlocksFit

\* The calls left out.
InfiniteCalls == {c \in Short \X {2, 5} : FiniteKeys(c[1]) > 0 /\ ~Ordinary(c[1], c[2])}
=============================================================================
