--------------------------- MODULE ApplyContract ---------------------------
(***************************************************************************)
(* What Patcher.apply() promises to those who write and call patches       *)
(* (mx_driving/patcher/patcher.py), without the caches, the patch objects, *)
(* the flags and the logger it is made of:                                 *)
(*  - targets change only inside a call that found no conflict, and for    *)
(*    one enabled patch at a time;                                         *)
(*  - first come patches of the bootstrap classes, then the patches of the *)
(*    whole timeline, each of them once and in order;                      *)
(*  - a call that returns has settled all of them and is final; one that   *)
(*    gives up rolls nothing back and leaves the patcher open for another. *)
(***************************************************************************)
EXTENDS Integers, Sequences

CONSTANTS Atoms, Slots, NameOf, Children, Bootstrap, Conflicts, MainSlot,
          Aliases, Wrappers   \* as in Patcher

VARIABLES
  plan,     \* the timeline
  out,      \* the names disable() was given
  phase,    \* "open", "checking", "early", "main", "final" or "dead"
  settled,  \* the patches the main part of the call has been through
  attr      \* slot -> the atoms on it, the outermost last

vars == <<plan, out, phase, settled, attr>>

Enabled == {i \in DOMAIN plan : plan[i].kind = "class" => plan[i].item \notin out}
EnabledClasses == {i \in Enabled : plan[i].kind = "class"}
PatchesAt(i) ==
  {i} \X (1..(IF plan[i].kind = "class" THEN Len(Children[plan[i].item]) ELSE 1))
Atom(p) ==
  IF plan[p[1]].kind = "class" THEN Children[plan[p[1]].item][p[2]]
                               ELSE plan[p[1]].item
Wanted == UNION {PatchesAt(i) : i \in Enabled}
Early == UNION {PatchesAt(i) : i \in {j \in EnabledClasses : plan[j].item \in Bootstrap}}

Clash == \E i, j \in EnabledClasses : plan[j].item \in Conflicts[plan[i].item]

Precedes(p, q) == p[1] < q[1] \/ (p[1] = q[1] /\ p[2] < q[2])

Init ==
  /\ plan = <<>> /\ out = {}
  /\ phase = "open" /\ settled = {}
  /\ attr = [s \in Slots |-> <<>>]

\* What was asked for stays asked for.
Extended ==
  Len(plan) <= Len(plan') /\ \A i \in DOMAIN plan : plan'[i] = plan[i]

\* The caller may go on building the plan when it is final; nothing follows.
Plan ==
  /\ phase \in {"open", "final"}
  /\ Extended
  /\ out \subseteq out'
  /\ UNCHANGED <<phase, settled, attr>>

\* The loop patches of with_profiling() and brake_at() join the plan.
Begin ==
  /\ phase = "open" /\ phase' = "checking"
  /\ Extended
  /\ UNCHANGED <<out, settled, attr>>

Refuse ==
  /\ phase = "checking" /\ Clash
  /\ phase' = "open"
  /\ UNCHANGED <<plan, out, settled, attr>>

Admit ==
  /\ phase = "checking" /\ ~Clash
  /\ phase' = "early"
  /\ UNCHANGED <<plan, out, settled, attr>>

\* One attempt at patch p, which may write some of its slots or none.
Stacked(as, a) == IF a \in Wrappers THEN Append(as, a) ELSE <<a>>
Touch(p) ==
  \E hit \in SUBSET ({MainSlot[Atom(p)]} \cup Aliases[Atom(p)]) :
    /\ NameOf[Atom(p)] \in out => hit = {}
    /\ attr' = [s \in Slots |-> IF s \in hit THEN Stacked(attr[s], Atom(p)) ELSE attr[s]]

ApplyEarly(p) ==
  /\ phase = "early"
  /\ Touch(p)
  /\ phase' \in {"early", "open", "dead"}
  /\ UNCHANGED <<plan, out, settled>>

EarlyDone ==
  /\ phase = "early" /\ phase' = "main"
  /\ UNCHANGED <<plan, out, settled, attr>>

Settle(p) ==
  /\ phase = "main"
  /\ \A q \in Wanted \ settled : q = p \/ Precedes(p, q)
  /\ Touch(p)
  /\ \/ phase' = "main" /\ settled' = settled \cup {p}
     \/ phase' \in {"open", "dead"} /\ settled' = {}
  /\ UNCHANGED <<plan, out>>

\* patches() of a class raises while the classes are being collected.
GiveUp ==
  /\ phase = "early" /\ phase' = "open"
  /\ UNCHANGED <<plan, out, settled, attr>>

Complete ==
  /\ phase = "main" /\ settled = Wanted
  /\ phase' = "final" /\ settled' = {}
  /\ UNCHANGED <<plan, out, attr>>

Next ==
  \/ Plan \/ Begin \/ Refuse \/ Admit
  \/ \E p \in Early : ApplyEarly(p)
  \/ EarlyDone
  \/ \E p \in Wanted \ settled : Settle(p)
  \/ GiveUp \/ Complete

Spec == Init /\ [][Next]_vars
=============================================================================
