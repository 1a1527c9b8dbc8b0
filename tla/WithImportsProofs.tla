------------------------- MODULE WithImportsProofs -------------------------
(***************************************************************************)
(* Proofs about WithImports, for any number of threads, import specs and   *)
(* decorators.                                                             *)
(***************************************************************************)
EXTENDS WithImports, TLAPS

\* The cell holds a function from Build on, and a thread that is about to store
\* has read one.
CellFilled ==
  /\ resolved => cell # Nothing
  /\ \A t \in Threads :
       /\ pc[t] \in {"decorate", "store", "invoke"} => cell # Nothing
       /\ pc[t] = "store" => held[t] # Nothing /\ at[t] \in DOMAIN Decorators

CellInv == WithImportsTypeOK /\ CellFilled

\* What the loop over the decorators has made of f when it reaches n.
Decorated(f, n) ==
  /\ \A i \in DOMAIN f.decs : f.decs[i] < n
  /\ \A i, j \in DOMAIN f.decs : i < j => f.decs[i] < f.decs[j]
  /\ \A d \in DOMAIN Decorators \ Flaky :
       d < n /\ Decorators[d] \subseteq f.bound =>
         \E i \in DOMAIN f.decs :
           f.decs[i] = d \/ (f.decs[i] \in Stubs /\ f.decs[i] < d)

\* A resolution that is alone has the cell to itself, and the last one to
\* complete closes the door.
AloneInv ==
  ~overlapped =>
    /\ \A t, u \in Resolving : t = u
    /\ resolved => Resolving = {}
    /\ resolved => Decorated(cell, Len(Decorators) + 1)
    /\ \A t \in Threads :
         /\ pc[t] \in {"decorate", "store"} =>
              cell.bound = bound[t] /\ Decorated(cell, at[t])
         /\ pc[t] = "store" => held[t] = cell

-----------------------------------------------------------------------------
(* The cell *)

\* Every name an import spec binds is a name.
LEMMA BindsNames ==
  ASSUME NEW i \in DOMAIN Imports
  PROVE  Binds(Imports[i]) \subseteq Names
<1> DEFINE Specs == [module : Modules, names : Seq(Names)]
<1>0. Imports \in Seq(Specs) /\ ModuleName \in [Modules -> Names]
  BY WithImportsAssumption
<1> HIDE DEF Specs
<1>1. Imports[i] \in Specs /\ ModuleName \in [Modules -> Names]
  BY <1>0
<1> USE DEF Specs
<1>2. Imports[i].module \in Modules /\ Imports[i].names \in Seq(Names)
  BY <1>1
<1>3. CASE Imports[i].names = <<>>
  <2>1. ModuleName[Imports[i].module] \in Names
    BY <1>1, <1>2
  <2> QED BY <2>1, <1>3 DEF Binds
<1>4. CASE Imports[i].names # <<>>
  <2>1. \A k \in DOMAIN Imports[i].names : Imports[i].names[k] \in Names
    BY <1>2
  <2> QED BY <2>1, <1>4 DEF Binds
<1> QED
  BY <1>3, <1>4

\* None is not a function.
LEMMA FunctionsAreSomething == Nothing \notin Functions
BY WithImportsAssumption DEF Functions

\* f with decorator n around it.
Around(f, n) == [f EXCEPT !.decs = Append(@, n)]

\* It is a function over the same names, with one more decorator.
LEMMA AroundFunction ==
  ASSUME NEW f \in Functions, NEW n \in DOMAIN Decorators
  PROVE  /\ Around(f, n) \in Functions
         /\ Around(f, n).bound = f.bound
         /\ Around(f, n).decs = Append(f.decs, n)
<1>1. f.decs \in Seq(DOMAIN Decorators) /\ f.bound \in SUBSET Names
  BY DEF Functions
<1>2. Append(f.decs, n) \in Seq(DOMAIN Decorators)
  BY <1>1
<1>3. Around(f, n) = [bound |-> f.bound, decs |-> Append(f.decs, n)]
  BY <1>1 DEF Around, Functions
<1> QED
  BY <1>1, <1>2, <1>3 DEF Functions

\* Every step of the program keeps the types and never empties the cell.
LEMMA CellStep ==
  ASSUME CellInv, [Next]_vars
  PROVE  CellInv'
<1> USE DEF CellInv, CellFilled, WithImportsTypeOK, local
<1>1. CASE UNCHANGED vars
  BY <1>1 DEF vars
<1>2. ASSUME NEW m \in Modules, BecomesAvailable(m) PROVE CellInv'
  BY <1>2 DEF BecomesAvailable
<1>3. ASSUME NEW t \in Threads,
             Call(t) \/ (resolved /\ UseResolved(t)) \/ Invoke(t) \/ ImportRaises(t)
      PROVE  CellInv'
  BY <1>3 DEF Call, UseResolved, Invoke, ImportRaises, Goto
<1>4. ASSUME NEW t \in Threads, BeginResolving(t) PROVE CellInv'
  BY <1>4 DEF BeginResolving, Goto, SetAt
<1>5. ASSUME NEW t \in Threads, ImportSpec(t) PROVE CellInv'
  BY <1>5, BindsNames DEF ImportSpec, SetAt
<1>6. ASSUME NEW t \in Threads, Build(t) PROVE CellInv'
  <2>1. cell' \in Functions
    BY <1>6 DEF Build, Functions
  <2> QED
    BY <1>6, <2>1, FunctionsAreSomething DEF Build, Goto, SetAt
<1>7. ASSUME NEW t \in Threads, ReadCell(t) PROVE CellInv'
  BY <1>7 DEF ReadCell, Goto
<1>8. ASSUME NEW t \in Threads, StoreCell(t) PROVE CellInv'
  <2>1. held[t] \in Functions /\ at[t] \in DOMAIN Decorators
    BY <1>8 DEF StoreCell
  <2>2. cell' \in Functions
    BY <1>8, <2>1, AroundFunction DEF StoreCell, Around
  <2>3. at[t] + 1 \in Nat \ {0}
    OBVIOUS
  <2>4. WithImportsTypeOK'
    BY <1>8, <2>2, <2>3 DEF StoreCell, Goto, SetAt
  <2>5. CellFilled'
    BY <1>8, <2>2, FunctionsAreSomething DEF StoreCell, Goto, SetAt
  <2> QED
    BY <2>4, <2>5
<1>9. ASSUME NEW t \in Threads, DecoratorFails(t) PROVE CellInv'
  BY <1>9 DEF DecoratorFails, Goto, SetAt
<1>10. ASSUME NEW t \in Threads, MarkResolved(t) PROVE CellInv'
  BY <1>10 DEF MarkResolved, Goto
<1> QED
  BY <1>1, <1>2, <1>3, <1>4, <1>5, <1>6, <1>7, <1>8, <1>9, <1>10
  DEF Next, Proceed, Check

\* CellInv holds in every state, from that of a process that has not called the
\* function on.
LEMMA CellAlways == Spec => []CellInv
<1>1. Ready \subseteq Modules
  BY WithImportsAssumption
<1>2. Init => WithImportsTypeOK
  <2> SUFFICES ASSUME Init PROVE WithImportsTypeOK
    OBVIOUS
  <2>1. /\ resolved \in BOOLEAN /\ overlapped \in BOOLEAN
        /\ cell \in Functions \cup {Nothing} /\ available \subseteq Modules
    BY <1>1 DEF Init
  <2>2. pc \in [Threads -> {"out", "check", "import", "decorate", "store", "invoke"}]
    BY DEF Init
  <2>3. at \in [Threads -> Nat \ {0}] /\ bound \in [Threads -> SUBSET Names]
    BY DEF Init
  <2>4. held \in [Threads -> Functions \cup {Nothing}]
    BY DEF Init
  <2> QED
    BY <2>1, <2>2, <2>3, <2>4 DEF WithImportsTypeOK
<1>3. Init => CellFilled
  BY DEF Init, CellFilled
<1>4. Init => CellInv
  BY <1>2, <1>3 DEF CellInv
<1> QED
  BY <1>4, CellStep, PTL DEF Spec

\* The types hold for any number of threads.
THEOREM TypesKept == Spec => []WithImportsTypeOK
<1>1. CellInv => WithImportsTypeOK
  BY DEF CellInv
<1> QED
  BY <1>1, CellAlways, PTL

\* A call that gets as far as running the function finds one, for any number of
\* threads that resolve at the same time.
THEOREM CallsSomething == Spec => []NeverCallsNothing
<1>1. CellInv => NeverCallsNothing
  BY DEF CellInv, CellFilled, NeverCallsNothing
<1> QED
  BY <1>1, CellAlways, PTL

-----------------------------------------------------------------------------
(* Resolutions that do not overlap *)

\* Passing over a decorator that fails, for want of a name or because a stub
\* before it has returned None.
LEMMA DecoratedSkip ==
  ASSUME NEW f \in Functions, NEW n \in Nat, Decorated(f, n),
         n \in DOMAIN Decorators \ Flaky =>
           ~(Decorators[n] \subseteq f.bound) \/ LeftNone(f)
  PROVE  Decorated(f, n + 1)
<1>1. \A i \in DOMAIN f.decs : f.decs[i] \in Nat
  BY WithImportsAssumption DEF Functions
<1>2. DOMAIN Decorators \subseteq Nat
  BY WithImportsAssumption
<1>3. LeftNone(f) => \E i \in DOMAIN f.decs : f.decs[i] \in Stubs /\ f.decs[i] < n
  BY DEF LeftNone, Decorated
<1> QED
  BY <1>1, <1>2, <1>3 DEF Decorated

\* Putting decorator n around f.
LEMMA DecoratedAppend ==
  ASSUME NEW f \in Functions, NEW n \in DOMAIN Decorators, Decorated(f, n)
  PROVE  Decorated(Around(f, n), n + 1)
<1> DEFINE g == Around(f, n)
<1>1. f.decs \in Seq(DOMAIN Decorators) /\ DOMAIN Decorators \subseteq Nat
  BY WithImportsAssumption DEF Functions
<1>2. g.decs = Append(f.decs, n) /\ g.bound = f.bound
  BY AroundFunction
<1> HIDE DEF g
<1>3. /\ DOMAIN g.decs = 1..(Len(f.decs) + 1)
      /\ g.decs[Len(f.decs) + 1] = n
      /\ \A i \in DOMAIN f.decs :
           i \in DOMAIN g.decs /\ i \in 1..Len(f.decs) /\ g.decs[i] = f.decs[i]
      /\ \A i \in DOMAIN g.decs : i = Len(f.decs) + 1 \/ i \in DOMAIN f.decs
  BY <1>1, <1>2
<1>4. \A i \in DOMAIN f.decs : f.decs[i] \in Nat /\ f.decs[i] < n
  BY <1>1 DEF Decorated
<1>5. \A i \in DOMAIN g.decs : g.decs[i] < n + 1
  BY <1>1, <1>3, <1>4
<1>6. \A i, j \in DOMAIN g.decs : i < j => g.decs[i] < g.decs[j]
  BY <1>1, <1>3, <1>4 DEF Decorated
<1>7. ASSUME NEW d \in DOMAIN Decorators \ Flaky, d < n + 1,
             Decorators[d] \subseteq g.bound
      PROVE  \E i \in DOMAIN g.decs :
               g.decs[i] = d \/ (g.decs[i] \in Stubs /\ g.decs[i] < d)
  <2>1. CASE d = n
    <3>1. Len(f.decs) + 1 \in DOMAIN g.decs
      BY <1>1, <1>3
    <3> QED BY <3>1, <2>1, <1>3
  <2>2. CASE d < n
    BY <2>2, <1>2, <1>3, <1>7 DEF Decorated
  <2> QED
    BY <1>1, <1>7, <2>1, <2>2
<1> QED
  BY <1>5, <1>6, <1>7 DEF Decorated, g

\* A step that begins no overlap keeps what is known of a lone resolution.
LEMMA AloneStep ==
  ASSUME CellInv, CellInv', AloneInv, [Next]_vars
  PROVE  AloneInv'
<1> SUFFICES ASSUME ~overlapped' PROVE AloneInv'
  BY DEF AloneInv
<1> USE DEF AloneInv, CellInv, CellFilled, WithImportsTypeOK, local, Resolving
<1>1. CASE UNCHANGED vars
  BY <1>1 DEF vars, Decorated
<1>2. ASSUME NEW m \in Modules, BecomesAvailable(m) PROVE AloneInv'
  BY <1>2 DEF BecomesAvailable, Decorated
<1>3. ASSUME NEW t \in Threads, Call(t) \/ UseResolved(t) \/ Invoke(t) \/ ImportRaises(t)
      PROVE  AloneInv'
  <2>1. /\ UNCHANGED <<resolved, cell, overlapped, at, bound, held>>
        /\ pc' = [pc EXCEPT ![t] = pc'[t]]
        /\ pc'[t] \in {"check", "invoke", "out"}
    BY <1>3 DEF Call, UseResolved, Invoke, ImportRaises, Goto
  <2>2. \A u \in Threads : pc'[u] \in {"import", "decorate", "store"} => pc'[u] = pc[u]
    BY <2>1
  <2> QED
    BY <2>1, <2>2 DEF Decorated
<1>4. ASSUME NEW t \in Threads, ~resolved, BeginResolving(t) PROVE AloneInv'
  BY <1>4 DEF BeginResolving, Goto, SetAt, Decorated
<1>5. ASSUME NEW t \in Threads, ImportSpec(t) PROVE AloneInv'
  BY <1>5 DEF ImportSpec, SetAt, Decorated
<1>6. ASSUME NEW t \in Threads, Build(t) PROVE AloneInv'
  <2>1. cell' = [bound |-> bound[t], decs |-> <<>>] /\ bound' = bound
    BY <1>6 DEF Build
  <2>2. \A d \in DOMAIN Decorators : ~(d < 1)
    BY WithImportsAssumption
  <2>3. Decorated(cell', 1) /\ cell'.bound = bound'[t]
    BY <2>1, <2>2 DEF Decorated
  <2> QED
    BY <1>6, <2>3 DEF Build, Goto, SetAt
<1>7. ASSUME NEW t \in Threads, ReadCell(t) PROVE AloneInv'
  BY <1>7 DEF ReadCell, Goto, Decorated
<1>8. ASSUME NEW t \in Threads, StoreCell(t) PROVE AloneInv'
  <2>1. held[t] = cell /\ cell \in Functions /\ at[t] \in DOMAIN Decorators
    BY <1>8 DEF StoreCell
  <2>2. Decorated(cell', at[t] + 1) /\ cell'.bound = bound[t]
    BY <1>8, <2>1, DecoratedAppend, AroundFunction DEF StoreCell, Around
  <2> QED
    <3>1. \A u \in Threads : pc'[u] \in {"import", "decorate", "store"} => u = t
      BY <1>8 DEF StoreCell, Goto
    <3>2. ~resolved' /\ pc'[t] = "decorate" /\ at'[t] = at[t] + 1 /\ bound' = bound
      BY <1>8 DEF StoreCell, Goto, SetAt
    <3> QED
      BY <2>2, <3>1, <3>2
<1>9. ASSUME NEW t \in Threads, DecoratorFails(t) PROVE AloneInv'
  <2>1. cell \in Functions /\ at[t] \in Nat /\ Decorated(cell, at[t])
    BY <1>9 DEF DecoratorFails
  <2>2. at[t] \in DOMAIN Decorators \ Flaky =>
          ~(Decorators[at[t]] \subseteq cell.bound) \/ LeftNone(cell)
    BY <1>9 DEF DecoratorFails, MayRaise
  <2>3. Decorated(cell, at[t] + 1)
    BY <2>1, <2>2, DecoratedSkip
  <2> QED
    BY <1>9, <2>3 DEF DecoratorFails, Goto, SetAt
<1>10. ASSUME NEW t \in Threads, MarkResolved(t) PROVE AloneInv'
  <2>1. /\ cell \in Functions /\ Decorated(cell, at[t])
        /\ at[t] \in Nat \ {0} /\ at[t] \notin DOMAIN Decorators
    BY <1>10 DEF MarkResolved
  <2>2. /\ DOMAIN Decorators = 1..Len(Decorators) /\ Len(Decorators) \in Nat
    BY WithImportsAssumption
  <2>3. \A i \in DOMAIN cell.decs : cell.decs[i] \in DOMAIN Decorators
    BY <2>1 DEF Functions
  <2>4. /\ \A d \in DOMAIN Decorators : d < at[t] /\ d < Len(Decorators) + 1
        /\ \A i \in DOMAIN cell.decs : cell.decs[i] < Len(Decorators) + 1
    BY <2>1, <2>2, <2>3
  <2>5. Decorated(cell, Len(Decorators) + 1)
    BY <2>1, <2>4 DEF Decorated
  <2> QED
    BY <1>10, <2>5 DEF MarkResolved, Goto
<1> QED
  BY <1>1, <1>2, <1>3, <1>4, <1>5, <1>6, <1>7, <1>8, <1>9, <1>10
  DEF Next, Proceed, Check

\* As long as no two resolutions overlap, the function that is run carries
\* every decorator that works, once and in order.
THEOREM AloneExact == Spec => []ExactWhenAlone
<1>1. Init => AloneInv
  BY DEF Init, AloneInv, Resolving
<1>2. CellInv /\ AloneInv => ExactWhenAlone
  <2> SUFFICES ASSUME CellInv, AloneInv, resolved, ~overlapped
               PROVE  ExactWhenAlone
    BY DEF ExactWhenAlone
  <2>1. Decorated(cell, Len(Decorators) + 1)
    BY DEF AloneInv
  <2> QED
    BY <2>1, WithImportsAssumption DEF Decorated, ExactWhenAlone
<1> QED
  BY <1>1, <1>2, AloneStep, CellAlways, PTL DEF Spec

\* Once one resolution is complete and none is under way, no other begins and
\* the function in the cell is final.
THEOREM SettledIsFinal == Spec => ClosedOnceSettled
<1>1. ASSUME [Next]_vars, resolved, Resolving = {}
      PROVE  Resolving' = {} /\ cell' = cell
  <2> USE DEF Resolving, local
  <2>1. CASE UNCHANGED vars
    BY <1>1, <2>1 DEF vars
  <2>2. ASSUME NEW m \in Modules, BecomesAvailable(m)
        PROVE  Resolving' = {} /\ cell' = cell
    BY <1>1, <2>2 DEF BecomesAvailable
  <2>3. ASSUME NEW t \in Threads, Call(t) \/ UseResolved(t) \/ Invoke(t)
        PROVE  Resolving' = {} /\ cell' = cell
    <3>1. /\ cell' = cell
          /\ \E l \in {"check", "invoke", "out"} : pc' = [pc EXCEPT ![t] = l]
      BY <2>3 DEF Call, UseResolved, Invoke, Goto
    <3> QED
      BY <1>1, <3>1
  <2>4. ASSUME NEW t \in Threads,
               \/ ImportSpec(t) \/ ImportRaises(t) \/ Build(t) \/ ReadCell(t)
               \/ StoreCell(t) \/ DecoratorFails(t) \/ MarkResolved(t)
        PROVE  FALSE
    BY <1>1, <2>4 DEF ImportSpec, ImportRaises, Build, ReadCell, StoreCell,
                      DecoratorFails, MarkResolved
  <2> QED
    BY <1>1, <2>1, <2>2, <2>3, <2>4 DEF Next, Proceed, Check
<1> QED
  BY <1>1, PTL DEF Spec, ClosedOnceSettled
=============================================================================
