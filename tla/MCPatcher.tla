----------------------------- MODULE MCPatcher -----------------------------
(***************************************************************************)
(* Small instances of Patcher.  Two ordinary classes that exclude each     *)
(* other and one bootstrap class, over two slots:                          *)
(*   compat  (bootstrap)  one wrapper on slot s1, may be skipped           *)
(*   msda    two patches: a wrapper on s1 with an alias on s2, and a       *)
(*           replacement of s2 that may fail; its patches() may raise      *)
(*   deform  one wrapper on s1, excludes msda                              *)
(* and the direct patches hook (a wrapper on s1 with an alias on s2) and   *)
(* loop (a LegacyPatch that wraps the training loop on s2).                *)
(***************************************************************************)
EXTENDS PatcherRefinement

CONSTANTS compat, msda, deform, wrapC, wrapM, replM, wrapD, hook, loop, s1, s2

MCAtoms == {wrapC, wrapM, replM, wrapD, hook, loop}
MCSlots == {s1, s2}
MCNames == Classes \cup MCAtoms

MCNameOf == [a \in MCAtoms |-> a]
MCChildren == [c \in Classes |->
  CASE c = compat -> <<wrapC>>
    [] c = msda   -> <<wrapM, replM>>
    [] c = deform -> <<wrapD>>]
MCConflicts == [c \in Classes |-> IF c = deform THEN {msda} \cap Classes ELSE {}]
MCMainSlot == [a \in MCAtoms |-> IF a \in {replM, loop} THEN s2 ELSE s1]
MCAliases == [a \in MCAtoms |-> IF a \in {wrapM, hook} THEN {s2} ELSE {}]
MCFaults == [a \in MCAtoms |->
  CASE a \in {wrapC, loop} -> {"skipped"}
    [] a = replM -> {"failed"}
    [] a = wrapM -> {"raised"}
    [] OTHER     -> {}]

NoAliasFaults == [MCFaults EXCEPT ![wrapM] = {}]

Lenient == [e \in Events |-> "log"]
Strict  == [e \in Events |-> IF e = "failed" THEN "exception" ELSE "log"]
Fatal   == [e \in Events |-> IF e = "failed" THEN "exit" ELSE "log"]
Picky   == [e \in Events |-> IF e = "skipped" THEN "exception" ELSE "log"]
ApplyRaises == [e \in Events |-> IF e = "applied" THEN "exception" ELSE "log"]

LenientOnly == {Lenient}
StrictOnly == {Strict}
EveryPolicy == {Lenient, Strict, Fatal, Picky, ApplyRaises}

MCObjects == (1..MaxBatches) \X (1..MaxChildren)
OneLoop == <<loop>>
=============================================================================
