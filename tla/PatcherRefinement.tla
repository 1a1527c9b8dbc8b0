------------------------- MODULE PatcherRefinement -------------------------
(***************************************************************************)
(* Patcher implements ApplyContract.                                       *)
(***************************************************************************)
EXTENDS Patcher

\* print_info() happens between calls; collecting is the end of the early part.
Phase ==
  CASE pc = "exited"                  -> "dead"
    [] pc \in {"idle", "info"}        -> IF applied THEN "final" ELSE "open"
    [] pc = "check"                   -> "checking"
    [] pc \in {"bootstrap", "collect"} -> "early"
    [] pc = "run"                     -> "main"

\* What the loop over the collection has behind it.
Settled == IF pc = "run" THEN collected \ todo ELSE {}

\* The layers without the objects and positions they are kept with.
AtomsOn == [s \in Slots |-> [k \in DOMAIN attr[s] |-> attr[s][k].atom]]

Contract ==
  INSTANCE ApplyContract
  WITH plan <- entries, out <- blacklist, phase <- Phase, settled <- Settled,
       attr <- AtomsOn

\* The patcher with its caches, flags and logger keeps the promises of apply():
\* no call with a conflict touches a target, the collection that is applied is
\* that of the timeline as it stands, in order and once each, and what fails
\* or is passed over on the way changes none of this.
MeetsContract == Contract!Spec
=============================================================================
