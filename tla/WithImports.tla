---------------------------- MODULE WithImports ----------------------------
(***************************************************************************)
(* The lazy imports of a replacement function (with_imports in             *)
(* mx_driving/patcher/patch.py).  The first call of the decorated function *)
(* imports what it needs, builds a copy of the function over the imported  *)
(* names, puts the decorators given as expressions around it and keeps the *)
(* result in a cell for the calls to come.                                 *)
(*                                                                         *)
(* Nothing protects the flag and the cell: every thread that finds the     *)
(* flag unset resolves the function itself, in the same cell.  An import   *)
(* and a decorator run other code, so a thread may be overtaken at each of *)
(* them.                                                                   *)
(***************************************************************************)
EXTENDS Naturals, Sequences

CONSTANTS
  Threads,     \* threads that call the decorated function
  Modules,     \* modules its import specs name
  Names,       \* names in its global namespace
  Imports,     \* pure_imports: [module, names], names empty for a whole module
  ModuleName,  \* module -> the name a whole-module spec binds
  Exports,     \* module -> the names it has
  Ready,       \* modules that can be imported from the start
  Unstable,    \* modules whose body may raise something else than ImportError
  Decorators,  \* decorators to apply: the imported names each of them uses
  Flaky,       \* those, by position, that may raise
  Stubs,       \* those from a module that skip_import() replaced: a stub that
               \* is called with the function returns None
  Nothing      \* None

ASSUME WithImportsAssumption ==
  /\ Imports \in Seq([module : Modules, names : Seq(Names)])
  /\ ModuleName \in [Modules -> Names]
  /\ Exports \in [Modules -> SUBSET Names]
  /\ Ready \subseteq Modules
  /\ Unstable \subseteq Modules
  /\ Decorators \in Seq(SUBSET Names)
  /\ Flaky \subseteq DOMAIN Decorators
  /\ Stubs \subseteq DOMAIN Decorators
  /\ Nothing \notin [bound : SUBSET Names, decs : Seq(DOMAIN Decorators)]

VARIABLES
  resolved,    \* resolved[0]
  cell,        \* resolved_func[0]: a function, or Nothing
  available,   \* modules that can be imported now
  pc,          \* thread -> where its call is
  at,          \* thread -> position in the loop it is in
  bound,       \* thread -> the names added to its new_globals
  held,        \* thread -> the function it has read from the cell
  overlapped   \* history: a thread began to resolve while another did

local == <<at, bound, held>>
vars == <<resolved, cell, available, pc, local, overlapped>>

\* A function by what it was made of: the names bound in its globals, and the
\* decorators around it, the innermost first.
Functions == [bound : SUBSET Names, decs : Seq(DOMAIN Decorators)]

\* One of them was a stub: what is around it was given None.
LeftNone(f) == \E i \in DOMAIN f.decs : f.decs[i] \in Stubs

Resolving == {t \in Threads : pc[t] \in {"import", "decorate", "store"}}

WithImportsTypeOK ==
  /\ resolved \in BOOLEAN
  /\ cell \in Functions \cup {Nothing}
  /\ available \subseteq Modules
  /\ pc \in [Threads -> {"out", "check", "import", "decorate", "store", "invoke"}]
  /\ at \in [Threads -> Nat \ {0}]
  /\ bound \in [Threads -> SUBSET Names]
  /\ held \in [Threads -> Functions \cup {Nothing}]
  /\ overlapped \in BOOLEAN

Init ==
  /\ resolved = FALSE
  /\ cell = Nothing
  /\ available = Ready
  /\ pc = [t \in Threads |-> "out"]
  /\ at = [t \in Threads |-> 1]
  /\ bound = [t \in Threads |-> {}]
  /\ held = [t \in Threads |-> Nothing]
  /\ overlapped = FALSE

-----------------------------------------------------------------------------

Goto(t, l) == pc' = [pc EXCEPT ![t] = l]
SetAt(t, i) == at' = [at EXCEPT ![t] = i]

Call(t) ==
  /\ pc[t] = "out"
  /\ Goto(t, "check")
  /\ UNCHANGED <<resolved, cell, available, local, overlapped>>

\* A module becomes importable, as one does that needs apply() first.
BecomesAvailable(m) ==
  /\ m \notin available
  /\ available' = available \cup {m}
  /\ UNCHANGED <<resolved, cell, pc, local, overlapped>>

\* Also the whole of Check if the flag were never looked at (a mutant).
BeginResolving(t) ==
  /\ pc[t] = "check"
  /\ Goto(t, "import") /\ SetAt(t, 1)
  /\ bound' = [bound EXCEPT ![t] = {}]
  /\ overlapped' = (overlapped \/ Resolving # {})
  /\ UNCHANGED <<resolved, cell, available, held>>

UseResolved(t) ==
  /\ pc[t] = "check"
  /\ Goto(t, "invoke")
  /\ UNCHANGED <<resolved, cell, available, local, overlapped>>

\* Mutant: the flag is set by the thread that begins to resolve.
CheckAndMark(t) ==
  /\ pc[t] = "check"
  /\ resolved' = TRUE
  /\ IF resolved
       THEN Goto(t, "invoke") /\ UNCHANGED <<at, bound, overlapped>>
       ELSE /\ Goto(t, "import") /\ SetAt(t, 1)
            /\ bound' = [bound EXCEPT ![t] = {}]
            /\ overlapped' = (overlapped \/ Resolving # {})
  /\ UNCHANGED <<cell, available, held>>

Check(t) == IF resolved THEN UseResolved(t) ELSE BeginResolving(t)

\* Mutant: a whole module is bound under its dotted path.
BindsPath(spec) ==
  IF spec.names = <<>>
    THEN {spec.module}
    ELSE {spec.names[i] : i \in DOMAIN spec.names} \cap Exports[spec.module]

\* The names one import spec adds; one that the module lacks is passed over.
Binds(spec) ==
  IF spec.names = <<>>
    THEN {ModuleName[spec.module]}
    ELSE {spec.names[i] : i \in DOMAIN spec.names} \cap Exports[spec.module]

\* A missing module is logged and passed over.
ImportSpec(t) ==
  /\ pc[t] = "import" /\ at[t] \in DOMAIN Imports
  /\ LET spec == Imports[at[t]]
     IN bound' = IF spec.module \in available
                   THEN [bound EXCEPT ![t] = @ \cup Binds(spec)] ELSE bound
  /\ SetAt(t, at[t] + 1)
  /\ UNCHANGED <<resolved, cell, available, pc, held, overlapped>>

\* The exception leaves the call, with the flag unset.
ImportRaises(t) ==
  /\ pc[t] = "import" /\ at[t] \in DOMAIN Imports
  /\ Imports[at[t]].module \in available \cap Unstable
  /\ Goto(t, "out")
  /\ UNCHANGED <<resolved, cell, available, local, overlapped>>

\* A bare copy of the function takes the place of whatever the cell holds.
Build(t) ==
  /\ pc[t] = "import" /\ at[t] \notin DOMAIN Imports
  /\ cell' = [bound |-> bound[t], decs |-> <<>>]
  /\ Goto(t, "decorate") /\ SetAt(t, 1)
  /\ UNCHANGED <<resolved, available, bound, held, overlapped>>

\* The expression is evaluated in this thread's namespace and called with what
\* the cell holds.
ReadCell(t) ==
  /\ pc[t] = "decorate" /\ at[t] \in DOMAIN Decorators
  /\ Decorators[at[t]] \subseteq bound[t]
  /\ held' = [held EXCEPT ![t] = cell]
  /\ Goto(t, "store")
  /\ UNCHANGED <<resolved, cell, available, at, bound, overlapped>>

\* The decorator returns and the cell is written.
StoreCell(t) ==
  /\ pc[t] = "store"
  /\ cell' = [held[t] EXCEPT !.decs = Append(@, at[t])]
  /\ Goto(t, "decorate") /\ SetAt(t, at[t] + 1)
  /\ UNCHANGED <<resolved, available, bound, held, overlapped>>

\* Mutant: the loop does not go on after a failure.
StayAtDecorator(t) ==
  /\ pc[t] = "store" /\ at[t] \in Flaky
  /\ Goto(t, "decorate")
  /\ UNCHANGED <<resolved, cell, available, local, overlapped>>

\* A decorator may not accept the None that a stub has returned.
MayRaise(t) == at[t] \in Flaky \/ (LeftNone(held[t]) /\ at[t] \notin Stubs)

\* Any exception of the expression or of the decorator is logged.
DecoratorFails(t) ==
  /\ \/ /\ pc[t] = "decorate" /\ at[t] \in DOMAIN Decorators
        /\ ~(Decorators[at[t]] \subseteq bound[t])
     \/ pc[t] = "store" /\ MayRaise(t)
  /\ Goto(t, "decorate") /\ SetAt(t, at[t] + 1)
  /\ UNCHANGED <<resolved, cell, available, bound, held, overlapped>>

\* Mutant: the flag is set before the first decorator.
MarkEarly(t) ==
  \/ /\ pc[t] = "decorate" /\ at[t] = 1 /\ ~resolved
     /\ resolved' = TRUE
     /\ UNCHANGED <<cell, available, pc, local, overlapped>>
  \/ /\ pc[t] = "decorate" /\ at[t] \notin DOMAIN Decorators
     /\ Goto(t, "invoke")
     /\ UNCHANGED <<resolved, cell, available, local, overlapped>>

MarkResolved(t) ==
  /\ pc[t] = "decorate" /\ at[t] \notin DOMAIN Decorators
  /\ resolved' = TRUE
  /\ Goto(t, "invoke")
  /\ UNCHANGED <<cell, available, local, overlapped>>

\* The function in the cell is read and called.
Invoke(t) ==
  /\ pc[t] = "invoke"
  /\ Goto(t, "out")
  /\ UNCHANGED <<resolved, cell, available, local, overlapped>>

Proceed(t) ==
  \/ Check(t)
  \/ ImportSpec(t) \/ ImportRaises(t) \/ Build(t)
  \/ ReadCell(t) \/ StoreCell(t) \/ DecoratorFails(t)
  \/ MarkResolved(t) \/ Invoke(t)

Next ==
  \/ \E t \in Threads : Call(t) \/ Proceed(t)
  \/ \E m \in Modules : BecomesAvailable(m)

\* A thread inside a call is scheduled again and again; nobody has to call.
Spec == Init /\ [][Next]_vars /\ \A t \in Threads : WF_vars(Proceed(t))

-----------------------------------------------------------------------------
(* Properties *)

\* Whatever the threads do to the cell, a call never finds it as it was before
\* the first resolution.
NeverCallsNothing == \A t \in Threads : pc[t] = "invoke" => cell # Nothing

\* When no two resolutions overlapped, calls run a function with every
\* decorator that could be evaluated and did not raise, in the order given and
\* each once, even after attempts that an import cut short; only what follows a
\* stub may be missing.
ExactWhenAlone ==
  resolved /\ ~overlapped =>
    /\ \A i, j \in DOMAIN cell.decs : i < j => cell.decs[i] < cell.decs[j]
    /\ \A d \in DOMAIN Decorators \ Flaky :
         Decorators[d] \subseteq cell.bound =>
           \E i \in DOMAIN cell.decs :
             cell.decs[i] = d \/ (cell.decs[i] \in Stubs /\ cell.decs[i] < d)

\* Once a resolution is complete and none is under way, no other ever begins:
\* later calls import nothing and all run the same function.
ClosedOnceSettled ==
  [][resolved /\ Resolving = {} => Resolving' = {} /\ cell' = cell]_vars

\* Every call runs the function or raises, however threads overtake each other.
CallsReturn == \A t \in Threads : pc[t] = "check" ~> pc[t] = "out"
=============================================================================
