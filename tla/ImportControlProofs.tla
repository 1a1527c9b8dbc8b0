------------------------ MODULE ImportControlProofs ------------------------
(***************************************************************************)
(* Proofs about the import controls, for any tree of modules, any bodies   *)
(* that import each other, any of which may raise.                         *)
(***************************************************************************)
EXTENDS ImportControl, SequenceTheorems, TLAPS

\* What the calls under way rely on.  A module whose body runs is in
\* sys.modules and so is its package; a replacement, once it is registered,
\* stays, and so do the packages above it that its loop has passed.
FrameOK(f) ==
  /\ f.op = "import" => f.stage \in {"find", "exec"}
  /\ f.op = "replace" =>
       f.stage \in {"base", "parents"} /\ f.path \notin skipped /\ f.path \notin replaced
  /\ f.stage = "exec" => kind[f.path] = "real" /\ ParentKind(f.path) # "absent"
  /\ f.stage = "parents" =>
       /\ kind[f.path] = "replaced"
       /\ f.todo \subseteq Above[f.path]
       /\ \A a \in Above[f.path] \ f.todo : kind[a] # "absent"

\* f runs inside g: if its body raises, the module that leaves sys.modules is
\* none that g relies on.
Inside(f, g) ==
  /\ f.op = "import"
  /\ f.stage = "exec" =>
       /\ g.stage = "exec" => f.path # g.path /\ f.path # ParentOf[g.path]
       /\ g.stage = "parents" => f.path \notin Above[g.path] \ g.todo

StackInv ==
  \A i \in 1..Len(stack) :
    /\ FrameOK(stack[i])
    /\ \A j \in 1..Len(stack) : i < j => Inside(stack[i], stack[j])

\* The calls that wait for the innermost one.
Outer == {stack[i] : i \in 2..Len(stack)}

ImportInv == ImportTypeOK /\ StackInv /\ RealNotShadowed

-----------------------------------------------------------------------------
(* The tree of modules and the stack of calls *)

LEMMA TreeFacts ==
  ASSUME NEW p \in Paths
  PROVE  /\ Above[p] \subseteq Paths /\ p \notin Above[p]
         /\ ~TopLevel(p) => ParentOf[p] \in Paths /\ ParentOf[p] \in Above[p] /\ ParentOf[p] # p
         /\ \A q \in Above[p] : Above[q] \subseteq Above[p]
         /\ TopLevel(p) => Above[p] = {}
         /\ Root \notin Paths
<1>1. /\ Root \notin Paths
      /\ ParentOf \in [Paths -> Paths \cup {Root}]
      /\ Above \in [Paths -> SUBSET Paths]
      /\ Above[p] = IF ParentOf[p] = Root THEN {} ELSE Above[ParentOf[p]] \cup {ParentOf[p]}
      /\ p \notin Above[p] /\ \A q \in Above[p] : Above[q] \subseteq Above[p]
  BY ImportAssumption
<1> QED BY <1>1 DEF TopLevel

\* The innermost call returns.
LEMMA ReturnFrames ==
  ASSUME stack \in Seq(Frames), stack # <<>>, NEW r, Return(r)
  PROVE  /\ stack' \in Seq(Frames) /\ Len(stack) \in Nat /\ Len(stack') = Len(stack) - 1
         /\ \A i \in 1..Len(stack') : stack'[i] = stack[i + 1]
BY DEF Return

\* It goes on as f.
LEMMA BecomeFrames ==
  ASSUME stack \in Seq(Frames), stack # <<>>, NEW f \in Frames, Become(f)
  PROVE  /\ stack' \in Seq(Frames) /\ Len(stack) \in Nat \ {0} /\ Len(stack') = Len(stack)
         /\ stack'[1] = f
         /\ \A i \in 2..Len(stack) : stack'[i] = stack[i]
<1>1. Tail(stack) \in Seq(Frames) /\ Len(Tail(stack)) = Len(stack) - 1 /\ Len(stack) \in Nat \ {0}
      /\ \A i \in 1..Len(Tail(stack)) : Tail(stack)[i] = stack[i + 1]
  OBVIOUS
<1>2. stack' = <<f>> \o Tail(stack)
  BY DEF Become
<1>3. <<f>> \in Seq(Frames) /\ Len(<<f>>) = 1
  OBVIOUS
<1>4. /\ stack' \in Seq(Frames) /\ Len(stack') = 1 + Len(Tail(stack))
      /\ stack'[1] = f
      /\ \A i \in 2..Len(stack') : stack'[i] = Tail(stack)[i - 1]
  BY <1>1, <1>2, <1>3
<1> QED BY <1>1, <1>4

\* It imports q, and goes on as f when that has returned.
LEMMA CallFrames ==
  ASSUME stack \in Seq(Frames), stack # <<>>, NEW f \in Frames, NEW q \in Paths, CallImport(f, q)
  PROVE  /\ stack' \in Seq(Frames) /\ Len(stack) \in Nat \ {0} /\ Len(stack') = Len(stack) + 1
         /\ ImportFrame(q) \in Frames
         /\ stack'[1] = ImportFrame(q) /\ stack'[2] = f
         /\ \A i \in 3..Len(stack') : stack'[i] = stack[i - 1]
<1>1. Tail(stack) \in Seq(Frames) /\ Len(Tail(stack)) = Len(stack) - 1 /\ Len(stack) \in Nat \ {0}
      /\ \A i \in 1..Len(Tail(stack)) : Tail(stack)[i] = stack[i + 1]
  OBVIOUS
<1>2. ImportFrame(q) \in Frames
  BY DEF ImportFrame, Frames
<1> DEFINE g == ImportFrame(q)
           two == <<g, f>>
<1>3. stack' = two \o Tail(stack)
  BY DEF CallImport
<1> HIDE DEF g
<1>4. two \in Seq(Frames) /\ Len(two) = 2 /\ two[1] = g /\ two[2] = f
  BY <1>2 DEF g
<1> DEFINE t == Tail(stack)
<1> HIDE DEF two, t
<1>6. stack' = two \o t /\ t \in Seq(Frames) /\ two \in Seq(Frames) /\ Len(two) = 2
  BY <1>1, <1>3, <1>4 DEF t
<1>7. /\ two \o t \in Seq(Frames) /\ Len(two \o t) = Len(two) + Len(t)
      /\ \A i \in 1..Len(two) + Len(t) :
           (two \o t)[i] = IF i <= Len(two) THEN two[i] ELSE t[i - Len(two)]
  BY <1>6, ConcatProperties, Zenon
<1>5. /\ stack' \in Seq(Frames) /\ Len(stack') = 2 + Len(Tail(stack))
      /\ stack'[1] = g /\ stack'[2] = f
      /\ \A i \in 3..Len(stack') : stack'[i] = Tail(stack)[i - 2]
  BY <1>1, <1>4, <1>6, <1>7 DEF t
<1> QED BY <1>1, <1>2, <1>5 DEF g

LEMMA TopFacts ==
  ASSUME stack \in Seq(Frames), stack # <<>>
  PROVE  /\ Top = stack[1] /\ Top \in Frames /\ Len(stack) \in Nat \ {0}
         /\ \A i \in 1..Len(stack) : stack[i] \in Frames
         /\ Top.op \in {"import", "replace"} /\ Top.path \in Paths
         /\ Top.stage \in {"find", "exec", "base", "parents"} /\ Top.todo \subseteq Paths
<1>1. Top = stack[1] /\ Len(stack) \in Nat \ {0} /\ \A i \in 1..Len(stack) : stack[i] \in Frames
  BY DEF Top
<1>2. Top \in Frames
  BY <1>1
<1> QED BY <1>1, <1>2 DEF Frames

LEMMA FrameShapes ==
  ASSUME NEW f \in Frames, NEW q \in Paths
  PROVE  /\ [f EXCEPT !.todo = @ \ {q}] \in Frames
         /\ [f EXCEPT !.todo = @ \ {q}].op = f.op
         /\ [f EXCEPT !.todo = @ \ {q}].path = f.path
         /\ [f EXCEPT !.todo = @ \ {q}].stage = f.stage
         /\ [f EXCEPT !.todo = @ \ {q}].todo = f.todo \ {q}
         /\ f.op \in {"import", "replace"} /\ f.path \in Paths /\ f.todo \subseteq Paths
BY DEF Frames

LEMMA NextStage ==
  ASSUME NEW f \in Frames, NEW s \in {"exec", "parents"}, NEW t \in SUBSET Paths
  PROVE  /\ [f EXCEPT !.stage = s, !.todo = t] \in Frames
         /\ [f EXCEPT !.stage = s, !.todo = t].op = f.op
         /\ [f EXCEPT !.stage = s, !.todo = t].path = f.path
         /\ [f EXCEPT !.stage = s, !.todo = t].stage = s
         /\ [f EXCEPT !.stage = s, !.todo = t].todo = t
BY DEF Frames

-----------------------------------------------------------------------------
(* Steps that only add modules keep what the calls rely on *)

Grows == \A p \in Paths : kind[p] # "absent" => kind'[p] = kind[p]

LEMMA FrameKept ==
  ASSUME Grows, UNCHANGED <<skipped, replaced>>, NEW f \in Frames, FrameOK(f)
  PROVE  FrameOK(f)'
<1>1. f.path \in Paths
  BY DEF Frames
<1>2. f.stage = "exec" => kind'[f.path] = "real" /\ ParentKind(f.path)' # "absent"
  <2> SUFFICES ASSUME f.stage = "exec" PROVE kind'[f.path] = "real" /\ ParentKind(f.path)' # "absent"
    OBVIOUS
  <2>1. kind[f.path] = "real" /\ ParentKind(f.path) # "absent"
    BY DEF FrameOK
  <2>2. kind'[f.path] = "real"
    BY <1>1, <2>1 DEF Grows
  <2>3. CASE TopLevel(f.path)
    BY <2>2, <2>3 DEF ParentKind, TopLevel
  <2>4. CASE ~TopLevel(f.path)
    <3>1. ParentOf[f.path] \in Paths /\ kind[ParentOf[f.path]] # "absent"
      BY <1>1, <2>1, <2>4, TreeFacts DEF ParentKind
    <3>2. kind'[ParentOf[f.path]] # "absent"
      BY <3>1 DEF Grows
    <3> QED BY <2>2, <2>4, <3>2 DEF ParentKind, TopLevel
  <2> QED BY <2>3, <2>4
<1>3. f.stage = "parents" =>
        /\ kind'[f.path] = "replaced" /\ f.todo \subseteq Above[f.path]
        /\ \A a \in Above[f.path] \ f.todo : kind'[a] # "absent"
  BY <1>1, TreeFacts DEF FrameOK, Grows
<1> QED BY <1>2, <1>3 DEF FrameOK

LEMMA ReturnKeeps ==
  ASSUME ImportTypeOK, StackInv, stack # <<>>, NEW r, Return(r),
         \A g \in Outer : FrameOK(g)'
  PROVE  stack' \in Seq(Frames) /\ StackInv'
<1>1. /\ stack' \in Seq(Frames) /\ Len(stack) \in Nat /\ Len(stack') = Len(stack) - 1
      /\ \A i \in 1..Len(stack') : stack'[i] = stack[i + 1]
  BY ReturnFrames DEF ImportTypeOK
<1>2. ASSUME NEW i \in 1..Len(stack') PROVE stack'[i] \in Outer
  <2>1. i + 1 \in 2..Len(stack) /\ stack'[i] = stack[i + 1]
    BY <1>1
  <2> QED BY <2>1 DEF Outer
<1>3. ASSUME NEW i \in 1..Len(stack'), NEW j \in 1..Len(stack'), i < j
      PROVE  Inside(stack'[i], stack'[j])
  <2>1. i + 1 \in 1..Len(stack) /\ j + 1 \in 1..Len(stack) /\ i + 1 < j + 1
    BY <1>1, <1>3
  <2>2. Inside(stack[i + 1], stack[j + 1])
    BY <2>1 DEF StackInv
  <2>3. stack'[i] = stack[i + 1] /\ stack'[j] = stack[j + 1]
    BY <1>1
  <2> QED BY <2>2, <2>3
<1> QED BY <1>1, <1>2, <1>3 DEF StackInv, FrameOK, Inside, ParentKind, TopLevel

LEMMA BecomeKeeps ==
  ASSUME ImportTypeOK, StackInv, stack # <<>>, NEW f \in Frames, Become(f), FrameOK(f)',
         \A g \in Outer : FrameOK(g)' /\ Inside(f, g)
  PROVE  stack' \in Seq(Frames) /\ StackInv'
<1>1. /\ stack' \in Seq(Frames) /\ Len(stack) \in Nat \ {0} /\ Len(stack') = Len(stack)
      /\ stack'[1] = f
      /\ \A i \in 2..Len(stack) : stack'[i] = stack[i]
  BY BecomeFrames DEF ImportTypeOK
<1>3. ASSUME NEW i \in 1..Len(stack'), NEW j \in 1..Len(stack'), i < j
      PROVE  Inside(stack'[i], stack'[j])
  <2>1. j \in 2..Len(stack) /\ i \in 1..Len(stack)
    BY <1>1, <1>3
  <2>2. CASE i = 1
    BY <1>1, <2>1, <2>2 DEF Outer
  <2>3. CASE i # 1
    <3>1. i \in 2..Len(stack) /\ j \in 1..Len(stack)
      BY <2>1, <2>3, <1>1
    <3> QED BY <1>1, <1>3, <2>1, <3>1 DEF StackInv
  <2> QED BY <2>2, <2>3
<1>2. ASSUME NEW i \in 1..Len(stack') PROVE stack'[i] = f \/ stack'[i] \in Outer
  <2>1. i = 1 \/ i \in 2..Len(stack)
    BY <1>1
  <2> QED BY <1>1, <2>1 DEF Outer
<1> QED BY <1>1, <1>2, <1>3 DEF StackInv, FrameOK, Inside, ParentKind, TopLevel

\* An import begins inside f.
LEMMA CallKeeps ==
  ASSUME ImportTypeOK, StackInv, stack # <<>>, UNCHANGED <<kind, skipped, replaced>>,
         NEW f \in Frames, NEW q \in Paths, CallImport(f, q), FrameOK(f),
         \A g \in Outer : Inside(f, g)
  PROVE  stack' \in Seq(Frames) /\ StackInv'
<1>1. /\ stack' \in Seq(Frames) /\ Len(stack) \in Nat \ {0} /\ Len(stack') = Len(stack) + 1
      /\ ImportFrame(q) \in Frames
      /\ stack'[1] = ImportFrame(q) /\ stack'[2] = f
      /\ \A i \in 3..Len(stack') : stack'[i] = stack[i - 1]
  BY CallFrames DEF ImportTypeOK
<1>2. ASSUME NEW i \in 1..Len(stack') PROVE FrameOK(stack'[i])
  <2>1. CASE i = 1
    BY <1>1, <2>1 DEF FrameOK, ImportFrame
  <2>2. CASE i = 2
    BY <1>1, <2>2
  <2>3. CASE i # 1 /\ i # 2
    <3>1. i \in 3..Len(stack') /\ i - 1 \in 1..Len(stack)
      BY <1>1, <2>3
    <3> QED BY <1>1, <3>1 DEF StackInv
  <2> QED BY <2>1, <2>2, <2>3
<1>3. ASSUME NEW i \in 1..Len(stack'), NEW j \in 1..Len(stack'), i < j
      PROVE  Inside(stack'[i], stack'[j])
  <2>1. CASE i = 1
    BY <1>1, <2>1 DEF Inside, ImportFrame
  <2>2. CASE i = 2
    <3>1. j \in 3..Len(stack') /\ j - 1 \in 2..Len(stack)
      BY <1>1, <1>3, <2>2
    <3> QED BY <1>1, <2>2, <3>1 DEF Outer
  <2>3. CASE i # 1 /\ i # 2
    <3>1. /\ i \in 3..Len(stack') /\ i - 1 \in 1..Len(stack)
          /\ j \in 3..Len(stack') /\ j - 1 \in 1..Len(stack) /\ i - 1 < j - 1
      BY <1>1, <1>3, <2>3
    <3> QED BY <1>1, <3>1 DEF StackInv
  <2> QED BY <2>1, <2>2, <2>3
<1> QED BY <1>1, <1>2, <1>3 DEF StackInv, FrameOK, Inside, ParentKind, TopLevel

-----------------------------------------------------------------------------
(* What a step leaves in order when modules are only added *)

LEMMA OuterFacts ==
  ASSUME ImportTypeOK, StackInv, stack # <<>>
  PROVE  /\ FrameOK(Top)
         /\ \A g \in Outer : g \in Frames /\ FrameOK(g) /\ Inside(Top, g)
         /\ Top.op = "replace" => Outer = {}
<1>1. Top = stack[1] /\ Len(stack) \in Nat \ {0} /\ \A i \in 1..Len(stack) : stack[i] \in Frames
  BY TopFacts DEF ImportTypeOK
<1>2. FrameOK(Top)
  BY <1>1 DEF StackInv
<1>3. ASSUME NEW g \in Outer PROVE g \in Frames /\ FrameOK(g) /\ Inside(Top, g)
  <2>1. PICK i \in 2..Len(stack) : g = stack[i]
    BY DEF Outer
  <2>2. i \in 1..Len(stack) /\ 1 \in 1..Len(stack) /\ 1 < i
    BY <1>1
  <2> QED BY <1>1, <2>1, <2>2 DEF StackInv
<1>4. Top.op = "replace" => Outer = {}
  BY <1>3 DEF Inside
<1> QED BY <1>2, <1>3, <1>4

LEMMA OuterKept ==
  ASSUME ImportTypeOK, StackInv, stack # <<>>, Grows, UNCHANGED <<skipped, replaced>>
  PROVE  \A g \in Outer : FrameOK(g)'
BY OuterFacts, FrameKept

LEMMA GrowTypes ==
  ASSUME ImportTypeOK, Grows, kind' \in [Paths -> Kinds],
         UNCHANGED <<skipped, replaced>>, stack' \in Seq(Frames), ret' \in {"none", "ok", "fail"},
         linked' \subseteq linked \cup
           {p \in Paths : kind'[p] # "absent" /\ ParentKind(p)' \notin {"root", "absent"}}
  PROVE  ImportTypeOK'
<1>1. ASSUME NEW p \in linked
      PROVE  p \in Paths /\ kind'[p] # "absent" /\ ParentKind(p)' \notin {"root", "absent"}
  <2>1. p \in Paths /\ kind[p] # "absent" /\ ParentKind(p) \notin {"root", "absent"}
    BY DEF ImportTypeOK
  <2>2. ~TopLevel(p) /\ ParentOf[p] \in Paths /\ kind[ParentOf[p]] \notin {"root", "absent"}
    BY <2>1, TreeFacts DEF ParentKind
  <2>3. kind'[p] # "absent" /\ kind'[ParentOf[p]] \notin {"root", "absent"}
    BY <2>1, <2>2 DEF Grows
  <2> QED BY <2>1, <2>2, <2>3 DEF ParentKind, TopLevel
<1>2. linked' \subseteq {p \in Paths : kind'[p] # "absent" /\ ParentKind(p)' \notin {"root", "absent"}}
  BY <1>1
<1>3. /\ skipped' \subseteq {p \in Paths : kind'[p] = "stub"}
      /\ replaced' \subseteq {p \in Paths : kind'[p] = "replaced"}
  BY DEF ImportTypeOK, Grows
<1> QED BY <1>2, <1>3 DEF ImportTypeOK, ParentKind, TopLevel

LEMMA GrowShadows ==
  ASSUME RealNotShadowed, Grows, skipped \subseteq skipped',
         \A p \in OnDisk : kind'[p] = "stub" =>
           \/ kind[p] = "stub" \/ p \in skipped'
           \/ \E q \in Above[p] : kind[q] \in {"stub", "replaced", "bare"}
  PROVE  RealNotShadowed'
<1> SUFFICES ASSUME NEW p \in OnDisk, kind'[p] = "stub", p \notin skipped'
             PROVE  \E q \in Above[p] : kind'[q] \in {"stub", "replaced", "bare"}
  BY DEF RealNotShadowed
<1>1. PICK q \in Above[p] : kind[q] \in {"stub", "replaced", "bare"}
  BY DEF RealNotShadowed
<1>2. q \in Paths
  BY ImportAssumption
<1> QED BY <1>1, <1>2 DEF Grows

\* Nothing changes but the calls.
LEMMA OnlyCalls ==
  ASSUME ImportTypeOK, RealNotShadowed, UNCHANGED <<kind, linked, skipped, replaced>>,
         stack' \in Seq(Frames), ret' \in {"none", "ok", "fail"}
  PROVE  ImportTypeOK' /\ RealNotShadowed' /\ Grows
BY DEF ImportTypeOK, RealNotShadowed, Grows, ParentKind, TopLevel

\* One module enters sys.modules.
LEMMA OneMore ==
  ASSUME ImportTypeOK, NEW p \in Paths, Absent(p), NEW k \in Kinds, Register(p, k)
  PROVE  /\ kind' \in [Paths -> Kinds] /\ Grows /\ kind'[p] = k
         /\ \A q \in Paths : q # p => kind'[q] = kind[q]
         /\ ParentKind(p)' = ParentKind(p)
<1>1. kind' \in [Paths -> Kinds] /\ kind'[p] = k /\ \A q \in Paths : q # p => kind'[q] = kind[q]
  BY DEF Register, ImportTypeOK
<1>2. Grows
  BY <1>1 DEF Grows, Absent
<1>3. ParentKind(p)' = ParentKind(p)
  BY <1>1, TreeFacts DEF ParentKind, TopLevel
<1> QED BY <1>1, <1>2, <1>3

-----------------------------------------------------------------------------
(* Python's import machinery *)

\* The innermost call returns and has changed no module.
LEMMA QuietReturns ==
  ASSUME ImportInv, stack # <<>>, UNCHANGED <<kind, linked, skipped, replaced>>,
         NEW r \in {"ok", "fail"}, Return(r)
  PROVE  ImportInv'
<1>1. ImportTypeOK /\ StackInv /\ RealNotShadowed /\ Grows /\ ret' = r
  BY DEF ImportInv, Grows, Return
<1>2. stack' \in Seq(Frames) /\ StackInv'
  BY <1>1, ReturnKeeps, OuterKept
<1>3. ImportTypeOK' /\ RealNotShadowed'
  BY <1>1, <1>2, OnlyCalls
<1> QED BY <1>2, <1>3 DEF ImportInv

\* The innermost call imports q and waits for it, with less left to do.
LEMMA QuietCalls ==
  ASSUME ImportInv, stack # <<>>, UNCHANGED <<kind, linked, skipped, replaced>>,
         NEW f \in Frames, f.op = Top.op, f.path = Top.path, f.stage = Top.stage,
         Top.stage = "parents" => f = Top,
         NEW q \in Paths, CallImport(f, q)
  PROVE  ImportInv'
<1>1. ImportTypeOK /\ StackInv /\ RealNotShadowed /\ ret' = "none"
  BY DEF ImportInv, CallImport
<1>2. FrameOK(Top) /\ \A g \in Outer : Inside(Top, g)
  BY <1>1, OuterFacts
<1>3. FrameOK(f) /\ \A g \in Outer : Inside(f, g)
  BY <1>2 DEF FrameOK, Inside
<1>4. stack' \in Seq(Frames) /\ StackInv'
  BY <1>1, <1>3, CallKeeps
<1>5. ImportTypeOK' /\ RealNotShadowed'
  BY <1>1, <1>4, OnlyCalls
<1> QED BY <1>4, <1>5 DEF ImportInv

LEMMA FirstCalls ==
  ASSUME ImportInv, NEW p \in Paths, Import(p) \/ StartReplace(p)
  PROVE  ImportInv'
<1>1. ImportTypeOK /\ RealNotShadowed
  BY DEF ImportInv
<1>2. /\ UNCHANGED <<kind, linked, skipped, replaced>> /\ ret' = "none"
      /\ \E g \in {ImportFrame(p), ReplaceFrame(p)} :
           stack' = <<g>> /\ (g = ReplaceFrame(p) => StartReplace(p))
  <2>1. ImportFrame(p) # ReplaceFrame(p)
    BY DEF ImportFrame, ReplaceFrame
  <2> QED BY <2>1 DEF Import, StartReplace, BeginReplace, modules
<1>3. PICK g \in {ImportFrame(p), ReplaceFrame(p)} :
        stack' = <<g>> /\ (g = ReplaceFrame(p) => StartReplace(p))
  BY <1>2
<1>4. g \in Frames
  <2>1. ImportFrame(p) \in Frames
    BY DEF ImportFrame, Frames
  <2>2. BaseImports[p] \subseteq Paths
    BY ImportAssumption
  <2>3. ReplaceFrame(p) \in Frames
    BY <2>2 DEF ReplaceFrame, Frames
  <2> QED BY <2>1, <2>3
<1>5. FrameOK(g)
  <2>1. CASE g = ImportFrame(p)
    BY <2>1 DEF FrameOK, ImportFrame
  <2>2. CASE g = ReplaceFrame(p)
    <3>1. kind[p] = "absent"
      BY <1>3, <2>2 DEF StartReplace, Absent
    <3>2. p \notin skipped /\ p \notin replaced
      BY <1>1, <3>1 DEF ImportTypeOK
    <3> QED BY <2>2, <3>2 DEF FrameOK, ReplaceFrame
  <2> QED BY <2>1, <2>2
<1>6. FrameOK(g)'
  BY <1>2, <1>5 DEF FrameOK, ParentKind, TopLevel
<1>7. stack' \in Seq(Frames) /\ Len(stack') = 1 /\ stack'[1] = g
  BY <1>3, <1>4
<1>8. \A i \in 1..Len(stack') : i = 1 /\ stack'[i] = g
  BY <1>7
<1>9. StackInv'
  BY <1>6, <1>8 DEF StackInv, FrameOK, Inside, ParentKind, TopLevel
<1>10. ImportTypeOK' /\ RealNotShadowed'
  BY <1>1, <1>2, <1>7, OnlyCalls
<1> QED BY <1>9, <1>10 DEF ImportInv

\* A module below a stub is found as a stub.
LEMMA FindStubStep ==
  ASSUME ImportInv, FindStub
  PROVE  ImportInv'
<1>1. ImportTypeOK /\ StackInv /\ RealNotShadowed /\ stack # <<>>
  BY DEF ImportInv, FindStub, Finding, Running
<1>0. PICK p \in Paths : p = Top.path
  BY <1>1, TopFacts DEF ImportTypeOK
<1>2. p \in Paths /\ Absent(p) /\ ParentKind(p) = "stub" /\ Register(p, "stub") /\ Link(p)
      /\ Return("ok") /\ UNCHANGED <<skipped, replaced>>
  BY <1>0 DEF FindStub
<1>3. /\ kind' \in [Paths -> Kinds] /\ Grows /\ kind'[p] = "stub"
      /\ \A q \in Paths : q # p => kind'[q] = kind[q]
      /\ ParentKind(p)' = ParentKind(p)
  BY <1>1, <1>2, OneMore DEF Kinds
<1>4. stack' \in Seq(Frames) /\ StackInv' /\ ret' = "ok"
  BY <1>1, <1>2, <1>3, ReturnKeeps, OuterKept DEF Return
<1>5. linked' \subseteq linked \cup
        {q \in Paths : kind'[q] # "absent" /\ ParentKind(q)' \notin {"root", "absent"}}
  BY <1>2, <1>3 DEF Link
<1>6. ImportTypeOK'
  BY <1>1, <1>2, <1>3, <1>4, <1>5, GrowTypes
<1>7. ~TopLevel(p) /\ ParentOf[p] \in Above[p] /\ kind[ParentOf[p]] = "stub"
  BY <1>2, TreeFacts DEF ParentKind
<1>8. RealNotShadowed'
  <2>1. \A q \in OnDisk : kind'[q] = "stub" =>
          \/ kind[q] = "stub" \/ q \in skipped'
          \/ \E r \in Above[q] : kind[r] \in {"stub", "replaced", "bare"}
    <3> SUFFICES ASSUME NEW q \in OnDisk, kind'[q] = "stub", kind[q] # "stub"
                 PROVE  \E r \in Above[q] : kind[r] \in {"stub", "replaced", "bare"}
      OBVIOUS
    <3>1. q = p
      BY <1>3, ImportAssumption
    <3> QED BY <1>7, <3>1
  <2> QED BY <1>1, <1>2, <1>3, <2>1, GrowShadows
<1> QED BY <1>4, <1>6, <1>8 DEF ImportInv

\* A body begins to run; the module and its package are in sys.modules.
LEMMA LoadStep ==
  ASSUME ImportInv, Load
  PROVE  ImportInv'
<1>1. ImportTypeOK /\ StackInv /\ RealNotShadowed /\ stack # <<>>
  BY DEF ImportInv, Load, Finding, Running
<1>0. PICK p \in Paths : p = Top.path
  BY <1>1, TopFacts DEF ImportTypeOK
<1>3. Top.op = "import" /\ Top \in Frames /\ Located(p)
  BY <1>0, <1>1, TopFacts DEF Load, Finding, Running, ImportTypeOK
<1>4. PICK f \in Frames :
        /\ f = [Top EXCEPT !.stage = "exec", !.todo = BodyImports[p]]
        /\ f.op = "import" /\ f.stage = "exec" /\ f.path = p
  <2>1. BodyImports[p] \subseteq Paths
    BY <1>3, ImportAssumption DEF Located
  <2>2. PICK top \in Frames : top = Top
    BY <1>3
  <2>3. PICK t \in SUBSET Paths : t = BodyImports[p]
    BY <2>1
  <2>4. /\ [top EXCEPT !.stage = "exec", !.todo = t] \in Frames
        /\ [top EXCEPT !.stage = "exec", !.todo = t].op = top.op
        /\ [top EXCEPT !.stage = "exec", !.todo = t].path = top.path
        /\ [top EXCEPT !.stage = "exec", !.todo = t].stage = "exec"
    BY NextStage
  <2> QED BY <1>0, <1>3, <2>2, <2>3, <2>4
<1>2. Absent(p) /\ Located(p) /\ Register(p, "real") /\ UNCHANGED linked
      /\ Become(f) /\ UNCHANGED <<skipped, replaced>>
  BY <1>0, <1>4 DEF Load
<1>5. /\ kind' \in [Paths -> Kinds] /\ Grows /\ kind'[p] = "real"
      /\ \A q \in Paths : q # p => kind'[q] = kind[q]
      /\ ParentKind(p)' = ParentKind(p)
  BY <1>1, <1>2, OneMore DEF Kinds
<1>6. FrameOK(f)'
  <2>1. ParentKind(p)' # "absent"
    BY <1>2, <1>5 DEF Located
  <2> QED BY <1>4, <1>5, <2>1 DEF FrameOK, ParentKind, TopLevel
<1>7. ASSUME NEW g \in Outer PROVE Inside(f, g)
  <2>1. g \in Frames /\ FrameOK(g) /\ g.path \in Paths
    BY <1>1, OuterFacts DEF Frames
  <2>2. kind[p] = "absent"
    BY <1>2 DEF Absent
  <2>3. g.stage = "exec" => p # g.path /\ p # ParentOf[g.path]
    <3> SUFFICES ASSUME g.stage = "exec" PROVE p # g.path /\ p # ParentOf[g.path]
      OBVIOUS
    <3>1. kind[g.path] = "real" /\ ParentKind(g.path) # "absent"
      BY <2>1 DEF FrameOK
    <3>2. TopLevel(g.path) => p # ParentOf[g.path]
      BY <1>2, <2>1, TreeFacts DEF TopLevel
    <3> QED BY <2>2, <3>1, <3>2 DEF ParentKind
  <2>4. g.stage = "parents" => p \notin Above[g.path] \ g.todo
    BY <2>1, <2>2 DEF FrameOK
  <2> QED BY <1>4, <2>3, <2>4 DEF Inside
<1>8. stack' \in Seq(Frames) /\ StackInv'
  <2>1. \A g \in Outer : FrameOK(g)' /\ Inside(f, g)
    BY <1>1, <1>2, <1>5, <1>7, OuterKept
  <2> QED BY <1>1, <1>2, <1>4, <1>6, <2>1, BecomeKeeps
<1>9. ImportTypeOK'
  BY <1>1, <1>2, <1>5, <1>8, GrowTypes DEF Become
<1>10. RealNotShadowed'
  <2>1. \A q \in OnDisk : kind'[q] = "stub" => kind[q] = "stub"
    BY <1>5, ImportAssumption
  <2> QED BY <1>1, <1>2, <1>5, <2>1, GrowShadows
<1> QED BY <1>8, <1>9, <1>10 DEF ImportInv

\* A body has run; its module becomes an attribute of its package.
LEMMA BodyDoneStep ==
  ASSUME ImportInv, BodyDone
  PROVE  ImportInv'
<1>1. ImportTypeOK /\ StackInv /\ RealNotShadowed /\ stack # <<>>
  BY DEF ImportInv, BodyDone, Running
<1>0. PICK p \in Paths : p = Top.path
  BY <1>1, TopFacts DEF ImportTypeOK
<1>2. Link(p) /\ kind' = kind /\ Return("ok") /\ UNCHANGED <<skipped, replaced>>
      /\ Top.stage = "exec"
  BY <1>0 DEF BodyDone, Running
<1>3. Grows /\ kind' \in [Paths -> Kinds]
  BY <1>1, <1>2 DEF Grows, ImportTypeOK
<1>4. kind[p] = "real" /\ ParentKind(p) # "absent"
  BY <1>0, <1>1, <1>2, OuterFacts DEF FrameOK
<1>5. linked' \subseteq linked \cup
        {q \in Paths : kind'[q] # "absent" /\ ParentKind(q)' \notin {"root", "absent"}}
  <2>1. ~TopLevel(p) => ParentKind(p)' \notin {"root", "absent"}
    <3>1. ASSUME ~TopLevel(p) PROVE ParentKind(p) \in Kinds
      BY <1>1, <1>2, <3>1, TreeFacts DEF ParentKind, ImportTypeOK
    <3> QED BY <1>2, <1>4, <3>1 DEF ParentKind, TopLevel, Kinds
  <2>2. kind'[p] # "absent"
    BY <1>2, <1>4
  <2> QED BY <1>2, <2>1, <2>2 DEF Link
<1>6. stack' \in Seq(Frames) /\ StackInv' /\ ret' = "ok"
  BY <1>1, <1>2, <1>3, ReturnKeeps, OuterKept DEF Return
<1>7. ImportTypeOK'
  BY <1>1, <1>2, <1>3, <1>5, <1>6, GrowTypes
<1>8. RealNotShadowed'
  BY <1>1, <1>2 DEF RealNotShadowed
<1> QED BY <1>6, <1>7, <1>8 DEF ImportInv

\* A body raises: the only step by which a module leaves sys.modules.  None of
\* the calls that wait relies on that module.
LEMMA BodyRaisesStep ==
  ASSUME ImportInv, BodyRaises
  PROVE  ImportInv'
<1>1. ImportTypeOK /\ StackInv /\ RealNotShadowed /\ stack # <<>>
  BY DEF ImportInv, BodyRaises, Running
<1>0. PICK p \in Paths : p = Top.path
  BY <1>1, TopFacts DEF ImportTypeOK
<1>2. Top.stage = "exec" /\ Register(p, "absent") /\ linked' = Unlinked(p) /\ Return("fail")
      /\ UNCHANGED <<skipped, replaced>>
  BY <1>0 DEF BodyRaises, Running
<1>3. kind[p] = "real"
  BY <1>0, <1>1, <1>2, OuterFacts DEF FrameOK
<1>4. kind' \in [Paths -> Kinds] /\ kind'[p] = "absent" /\ \A q \in Paths : q # p => kind'[q] = kind[q]
  BY <1>1, <1>2 DEF Register, ImportTypeOK, Kinds
<1>5. ASSUME NEW g \in Outer PROVE FrameOK(g)'
  <2>1. g \in Frames /\ FrameOK(g) /\ g.path \in Paths /\ Inside(Top, g)
    BY <1>1, OuterFacts DEF Frames
  <2>2. g.stage = "exec" => kind'[g.path] = "real" /\ ParentKind(g.path)' # "absent"
    <3> SUFFICES ASSUME g.stage = "exec"
                 PROVE  kind'[g.path] = "real" /\ ParentKind(g.path)' # "absent"
      OBVIOUS
    <3>1. p # g.path /\ p # ParentOf[g.path] /\ kind[g.path] = "real" /\ ParentKind(g.path) # "absent"
      BY <1>0, <1>2, <2>1 DEF Inside, FrameOK
    <3>2. ~TopLevel(g.path) => kind'[ParentOf[g.path]] = kind[ParentOf[g.path]]
      BY <1>4, <2>1, <3>1, TreeFacts
    <3> QED BY <1>4, <2>1, <3>1, <3>2 DEF ParentKind, TopLevel
  <2>3. g.stage = "parents" =>
          /\ kind'[g.path] = "replaced" /\ g.todo \subseteq Above[g.path]
          /\ \A a \in Above[g.path] \ g.todo : kind'[a] # "absent"
    <3> SUFFICES ASSUME g.stage = "parents"
                 PROVE  /\ kind'[g.path] = "replaced" /\ g.todo \subseteq Above[g.path]
                        /\ \A a \in Above[g.path] \ g.todo : kind'[a] # "absent"
      OBVIOUS
    <3>1. /\ kind[g.path] = "replaced" /\ g.todo \subseteq Above[g.path]
          /\ p \notin Above[g.path] \ g.todo
          /\ \A a \in Above[g.path] \ g.todo : kind[a] # "absent"
      BY <1>0, <1>2, <2>1 DEF Inside, FrameOK
    <3>2. Above[g.path] \subseteq Paths /\ g.path # p
      BY <1>3, <2>1, <3>1, TreeFacts
    <3> QED BY <1>4, <2>1, <3>1, <3>2
  <2> QED BY <1>2, <2>1, <2>2, <2>3 DEF FrameOK
<1>6. stack' \in Seq(Frames) /\ StackInv'
  BY <1>1, <1>2, <1>5, ReturnKeeps
<1>7. ImportTypeOK'
  <2>1. ASSUME NEW q \in linked'
        PROVE  q \in Paths /\ kind'[q] # "absent" /\ ParentKind(q)' \notin {"root", "absent"}
    <3>1. q \in linked /\ q # p /\ q \notin ChildrenOf(p)
      BY <1>2 DEF Unlinked
    <3>2. q \in Paths /\ kind[q] # "absent" /\ ParentKind(q) \notin {"root", "absent"} /\ ~TopLevel(q)
      BY <1>1, <3>1 DEF ImportTypeOK, ParentKind
    <3>3. ParentOf[q] \in Paths /\ ParentOf[q] # p
      BY <3>1, <3>2, TreeFacts DEF ChildrenOf
    <3> QED BY <1>4, <3>1, <3>2, <3>3 DEF ParentKind, TopLevel
  <2>2. /\ skipped' \subseteq {q \in Paths : kind'[q] = "stub"}
        /\ replaced' \subseteq {q \in Paths : kind'[q] = "replaced"}
    BY <1>1, <1>2, <1>3, <1>4 DEF ImportTypeOK
  <2>3. ret' = "fail"
    BY <1>2 DEF Return
  <2> QED BY <1>4, <1>6, <2>1, <2>2, <2>3 DEF ImportTypeOK, ParentKind, TopLevel
<1>8. RealNotShadowed'
  <2> SUFFICES ASSUME NEW q \in OnDisk, kind'[q] = "stub", q \notin skipped'
               PROVE  \E r \in Above[q] : kind'[r] \in {"stub", "replaced", "bare"}
    BY DEF RealNotShadowed
  <2>1. q \in Paths /\ kind[q] = "stub" /\ q \notin skipped
    BY <1>2, <1>4, ImportAssumption
  <2>2. PICK r \in Above[q] : kind[r] \in {"stub", "replaced", "bare"}
    BY <1>1, <2>1 DEF RealNotShadowed
  <2>3. r \in Paths
    BY <2>1, TreeFacts
  <2> QED BY <1>3, <1>4, <2>2, <2>3
<1> QED BY <1>6, <1>7, <1>8 DEF ImportInv

-----------------------------------------------------------------------------
(* skip_import() *)

\* No call is under way and modules are only added.
LEMMA SkipStep ==
  ASSUME ImportInv, NEW p \in Paths, SkipImport(p)
  PROVE  ImportInv'
<1>1. ImportTypeOK /\ RealNotShadowed /\ stack = <<>> /\ Absent(p)
  BY DEF ImportInv, SkipImport
<1> DEFINE stubs == {p} \cup {q \in Above[p] : Absent(q) /\ ~Probed(q)}
<1>0. PICK new \in SUBSET Paths : new = stubs
  BY TreeFacts
<1>2. /\ kind' = [q \in Paths |-> IF q \in new THEN "stub" ELSE kind[q]]
      /\ linked' = linked \cup {q \in new : ParentKind(q)' \notin {"root", "absent"}}
      /\ skipped' = skipped \cup {p} /\ UNCHANGED <<replaced, stack, ret>>
  BY <1>0 DEF SkipImport
<1>3. \A q \in new : q \in Paths /\ kind[q] = "absent"
  BY <1>0, <1>1 DEF Absent
<1>4. p \in new /\ \A q \in new : q = p \/ ~Probed(q)
  BY <1>0
<1> HIDE DEF stubs
<1>5. /\ kind' \in [Paths -> Kinds] /\ Grows
      /\ \A q \in new : kind'[q] = "stub"
      /\ \A q \in Paths \ new : kind'[q] = kind[q]
  BY <1>1, <1>2, <1>3 DEF ImportTypeOK, Kinds, Grows
<1>6. ImportTypeOK'
  <2>1. ASSUME NEW q \in linked
        PROVE  q \in Paths /\ kind'[q] # "absent" /\ ParentKind(q)' \notin {"root", "absent"}
    <3>1. q \in Paths /\ kind[q] # "absent" /\ ParentKind(q) \notin {"root", "absent"}
      BY <1>1 DEF ImportTypeOK
    <3>2. ~TopLevel(q) /\ ParentOf[q] \in Paths /\ kind[ParentOf[q]] \notin {"root", "absent"}
      BY <3>1, TreeFacts DEF ParentKind
    <3> QED BY <1>5, <3>1, <3>2 DEF ParentKind, TopLevel, Grows
  <2>2. linked' \subseteq
          {q \in Paths : kind'[q] # "absent" /\ ParentKind(q)' \notin {"root", "absent"}}
    BY <1>2, <1>5, <2>1
  <2>3. /\ skipped' \subseteq {q \in Paths : kind'[q] = "stub"}
        /\ replaced' \subseteq {q \in Paths : kind'[q] = "replaced"}
    BY <1>1, <1>2, <1>4, <1>5 DEF ImportTypeOK, Grows
  <2> QED BY <1>1, <1>2, <1>5, <2>2, <2>3 DEF ImportTypeOK, ParentKind, TopLevel
<1>7. RealNotShadowed'
  <2>1. \A q \in OnDisk : kind'[q] = "stub" =>
          \/ kind[q] = "stub" \/ q \in skipped'
          \/ \E r \in Above[q] : kind[r] \in {"stub", "replaced", "bare"}
    <3> SUFFICES ASSUME NEW q \in OnDisk, kind'[q] = "stub", kind[q] # "stub", q \notin skipped'
                 PROVE  \E r \in Above[q] : kind[r] \in {"stub", "replaced", "bare"}
      OBVIOUS
    <3>1. q \in Paths
      BY ImportAssumption
    <3>2. q \in new /\ q # p
      BY <1>2, <1>5, <3>1
    <3>3. PICK r \in Above[q] : kind[r] \notin {"absent", "real", "package"}
      BY <1>4, <3>2 DEF Probed
    <3>4. kind[r] \in Kinds
      BY <1>1, <3>1, <3>3, TreeFacts DEF ImportTypeOK
    <3> QED BY <3>3, <3>4 DEF Kinds
  <2> QED BY <1>1, <1>2, <1>5, <2>1, GrowShadows
<1>8. StackInv'
  BY <1>1, <1>2 DEF StackInv
<1> QED BY <1>6, <1>7, <1>8 DEF ImportInv

\* A stub makes and registers the stub below it.
LEMMA TouchStep ==
  ASSUME ImportInv, NEW p \in Paths, TouchStub(p)
  PROVE  ImportInv'
<1>1. ImportTypeOK /\ RealNotShadowed /\ stack = <<>> /\ Absent(p) /\ Register(p, "stub")
      /\ ParentKind(p) = "stub" /\ UNCHANGED <<linked, skipped, replaced, stack, ret>>
  BY DEF ImportInv, TouchStub
<1>2. /\ kind' \in [Paths -> Kinds] /\ Grows /\ kind'[p] = "stub"
      /\ \A q \in Paths : q # p => kind'[q] = kind[q]
  BY <1>1, OneMore DEF Kinds
<1>3. stack' \in Seq(Frames) /\ ret' \in {"none", "ok", "fail"}
  BY <1>1 DEF ImportTypeOK
<1>4. ImportTypeOK'
  BY <1>1, <1>2, <1>3, GrowTypes
<1>5. ~TopLevel(p) /\ ParentOf[p] \in Above[p] /\ kind[ParentOf[p]] = "stub"
  BY <1>1, TreeFacts DEF ParentKind
<1>6. RealNotShadowed'
  <2>1. \A q \in OnDisk : kind'[q] = "stub" =>
          \/ kind[q] = "stub" \/ q \in skipped'
          \/ \E r \in Above[q] : kind[r] \in {"stub", "replaced", "bare"}
    <3> SUFFICES ASSUME NEW q \in OnDisk, kind'[q] = "stub", kind[q] # "stub"
                 PROVE  \E r \in Above[q] : kind[r] \in {"stub", "replaced", "bare"}
      OBVIOUS
    <3>1. q = p
      BY <1>2, ImportAssumption
    <3> QED BY <1>5, <3>1
  <2> QED BY <1>1, <1>2, <2>1, GrowShadows
<1>7. StackInv'
  BY <1>1 DEF StackInv
<1> QED BY <1>4, <1>6, <1>7 DEF ImportInv

-----------------------------------------------------------------------------
(* replace_import() *)

\* The call of replace_import() is the only one, its innermost imports having
\* returned; it goes on as f.
LEMMA ReplaceGoesOn ==
  ASSUME ImportInv, stack # <<>>, Top.op = "replace", NEW f \in Frames, Become(f), FrameOK(f)'
  PROVE  stack' \in Seq(Frames) /\ StackInv' /\ ret' = "none"
<1>1. Outer = {}
  BY OuterFacts DEF ImportInv
<1> QED BY <1>1, BecomeKeeps DEF ImportInv, Become

\* The replacement enters sys.modules, over whatever has been loaded since.
LEMMA RegisterLeafStep ==
  ASSUME ImportInv, RegisterLeaf
  PROVE  ImportInv'
<1>1. ImportTypeOK /\ StackInv /\ RealNotShadowed /\ stack # <<>> /\ Top.op = "replace"
  BY DEF ImportInv, RegisterLeaf, Running
<1>0. PICK top \in Frames : top = Top
  BY <1>1, TopFacts DEF ImportTypeOK
<1> DEFINE p == top.path
           f == [top EXCEPT !.stage = "parents", !.todo = Above[p]]
<1>2. p \in Paths /\ top.op = "replace"
  BY <1>0, <1>1 DEF Frames
<1>3. f \in Frames /\ f.op = "replace" /\ f.path = p /\ f.stage = "parents" /\ f.todo = Above[p]
  <2>1. PICK t \in SUBSET Paths : t = Above[p]
    BY <1>2, TreeFacts
  <2>2. /\ [top EXCEPT !.stage = "parents", !.todo = t] \in Frames
        /\ [top EXCEPT !.stage = "parents", !.todo = t].op = top.op
        /\ [top EXCEPT !.stage = "parents", !.todo = t].path = top.path
        /\ [top EXCEPT !.stage = "parents", !.todo = t].stage = "parents"
        /\ [top EXCEPT !.stage = "parents", !.todo = t].todo = t
    BY NextStage
  <2> QED BY <1>2, <2>1, <2>2
<1>4. /\ Register(p, "replaced") /\ linked' = Unlinked(p) /\ Become(f)
      /\ UNCHANGED <<skipped, replaced>>
  BY <1>0 DEF RegisterLeaf
<1>5. p \notin skipped /\ p \notin replaced
  BY <1>0, <1>1, OuterFacts DEF FrameOK
<1> HIDE DEF p, f
<1>6. kind' \in [Paths -> Kinds] /\ kind'[p] = "replaced" /\ \A q \in Paths : q # p => kind'[q] = kind[q]
  BY <1>1, <1>2, <1>4 DEF Register, ImportTypeOK, Kinds
<1>7. FrameOK(f)'
  BY <1>3, <1>4, <1>5, <1>6 DEF FrameOK
<1>8. stack' \in Seq(Frames) /\ StackInv' /\ ret' = "none"
  BY <1>1, <1>3, <1>4, <1>7, ReplaceGoesOn
<1>9. ImportTypeOK'
  <2>1. ASSUME NEW q \in linked'
        PROVE  q \in Paths /\ kind'[q] # "absent" /\ ParentKind(q)' \notin {"root", "absent"}
    <3>1. q \in linked /\ q # p /\ q \notin ChildrenOf(p)
      BY <1>4 DEF Unlinked
    <3>2. q \in Paths /\ kind[q] # "absent" /\ ParentKind(q) \notin {"root", "absent"} /\ ~TopLevel(q)
      BY <1>1, <3>1 DEF ImportTypeOK, ParentKind
    <3>3. ParentOf[q] \in Paths /\ ParentOf[q] # p
      BY <3>1, <3>2, TreeFacts DEF ChildrenOf
    <3> QED BY <1>6, <3>1, <3>2, <3>3 DEF ParentKind, TopLevel
  <2>2. skipped' \subseteq {q \in Paths : kind'[q] = "stub"}
    BY <1>1, <1>4, <1>5, <1>6 DEF ImportTypeOK
  <2>3. replaced' \subseteq {q \in Paths : kind'[q] = "replaced"}
    BY <1>1, <1>4, <1>5, <1>6 DEF ImportTypeOK
  <2> QED BY <1>6, <1>8, <2>1, <2>2, <2>3 DEF ImportTypeOK, ParentKind, TopLevel
<1>10. RealNotShadowed'
  <2> SUFFICES ASSUME NEW q \in OnDisk, kind'[q] = "stub", q \notin skipped'
               PROVE  \E r \in Above[q] : kind'[r] \in {"stub", "replaced", "bare"}
    BY DEF RealNotShadowed
  <2>1. q \in Paths /\ kind[q] = "stub" /\ q \notin skipped
    BY <1>4, <1>6, ImportAssumption
  <2>2. PICK r \in Above[q] : kind[r] \in {"stub", "replaced", "bare"}
    BY <1>1, <2>1 DEF RealNotShadowed
  <2>3. r \in Paths
    BY <2>1, TreeFacts
  <2> QED BY <1>6, <2>2, <2>3
<1> QED BY <1>8, <1>9, <1>10 DEF ImportInv

\* The loop over the packages above a replacement passes q, which is in
\* sys.modules already or becomes a package of its own.
LEMMA AncestorStep ==
  ASSUME ImportInv, NEW q \in Paths, AncestorPresent(q) \/ FallBack(q)
  PROVE  ImportInv'
<1>1. ImportTypeOK /\ StackInv /\ RealNotShadowed /\ stack # <<>>
      /\ Top.op = "replace" /\ Top.stage = "parents"
  BY DEF ImportInv, AncestorPresent, FallBack, Reached, Running
<1>0. PICK top \in Frames : top = Top
  BY <1>1, TopFacts DEF ImportTypeOK
<1> DEFINE f == [top EXCEPT !.todo = @ \ {q}]
<1>2. /\ f \in Frames /\ f.op = "replace" /\ f.stage = "parents" /\ f.path = top.path
      /\ f.todo = top.todo \ {q} /\ top.path \in Paths
  BY <1>0, <1>1, FrameShapes
<1>3. q \in top.todo /\ Above[q] \cap top.todo = {} /\ Link(q) /\ Become(f)
      /\ UNCHANGED <<skipped, replaced>>
  BY <1>0 DEF AncestorPresent, FallBack, Reached, NextAncestor
<1> HIDE DEF f
<1>4. FrameOK(top)
  BY <1>0, <1>1, OuterFacts
<1>5. /\ kind[top.path] = "replaced" /\ top.todo \subseteq Above[top.path]
      /\ \A a \in Above[top.path] \ top.todo : kind[a] # "absent"
      /\ top.path \notin skipped /\ top.path \notin replaced
  BY <1>0, <1>1, <1>4 DEF FrameOK
<1>6. /\ kind' \in [Paths -> Kinds] /\ Grows /\ kind'[q] # "absent"
      /\ \A r \in Paths : r # q => kind'[r] = kind[r]
      /\ kind'[q] = "stub" => kind[q] = "stub"
  <2>1. CASE AncestorPresent(q)
    BY <1>1, <2>1 DEF AncestorPresent, Absent, Grows, ImportTypeOK
  <2>2. CASE FallBack(q)
    <3>1. PICK k \in {"package", "bare"} : Absent(q) /\ Register(q, k)
      BY <2>2 DEF FallBack
    <3>2. k \in Kinds
      BY DEF Kinds
    <3> QED BY <1>1, <3>1, <3>2, OneMore
  <2> QED BY <2>1, <2>2
<1>7. FrameOK(f)'
  <2>1. kind'[f.path] = "replaced"
    BY <1>2, <1>5, <1>6 DEF Grows
  <2>2. f.todo \subseteq Above[f.path]
    BY <1>2, <1>5
  <2>3. \A a \in Above[f.path] \ f.todo : kind'[a] # "absent"
    BY <1>2, <1>5, <1>6, TreeFacts DEF Grows
  <2> QED BY <1>2, <1>3, <1>5, <2>1, <2>2, <2>3 DEF FrameOK
<1>8. stack' \in Seq(Frames) /\ StackInv' /\ ret' = "none"
  BY <1>1, <1>2, <1>3, <1>7, ReplaceGoesOn
<1>9. ImportTypeOK'
  <2>1. ~TopLevel(q) => ParentKind(q)' \notin {"root", "absent"}
    <3> SUFFICES ASSUME ~TopLevel(q) PROVE ParentKind(q)' \notin {"root", "absent"}
      OBVIOUS
    <3>1. ParentOf[q] \in Paths /\ ParentOf[q] \in Above[q] /\ ParentOf[q] # q
      BY TreeFacts
    <3>2. Above[q] \subseteq Above[top.path]
      BY <1>2, <1>3, <1>5, TreeFacts
    <3>3. kind[ParentOf[q]] # "absent" /\ kind[ParentOf[q]] \in Kinds
      BY <1>1, <1>3, <1>5, <3>1, <3>2 DEF ImportTypeOK
    <3> QED BY <1>6, <3>1, <3>3 DEF ParentKind, TopLevel, Kinds
  <2>2. linked' \subseteq linked \cup
          {r \in Paths : kind'[r] # "absent" /\ ParentKind(r)' \notin {"root", "absent"}}
    BY <1>3, <1>6, <2>1 DEF Link
  <2> QED BY <1>1, <1>3, <1>6, <1>8, <2>2, GrowTypes
<1>10. RealNotShadowed'
  <2>1. \A r \in OnDisk : kind'[r] = "stub" => kind[r] = "stub"
    BY <1>6, ImportAssumption
  <2> QED BY <1>1, <1>3, <1>6, <2>1, GrowShadows
<1> QED BY <1>8, <1>9, <1>10 DEF ImportInv

LEMMA ReplaceDoneStep ==
  ASSUME ImportInv, ReplaceDone
  PROVE  ImportInv'
<1>1. ImportTypeOK /\ StackInv /\ RealNotShadowed /\ stack # <<>>
      /\ Top.op = "replace" /\ Top.stage = "parents" /\ Top.todo = {}
  BY DEF ImportInv, ReplaceDone, Running
<1>0. PICK p \in Paths : p = Top.path
  BY <1>1, TopFacts DEF ImportTypeOK
<1>2. /\ Link(p) /\ kind' = kind /\ replaced' = replaced \cup {p} /\ Return("ok") /\ skipped' = skipped
  BY <1>0 DEF ReplaceDone
<1>3. kind[p] = "replaced" /\ \A a \in Above[p] : kind[a] # "absent"
  BY <1>0, <1>1, OuterFacts DEF FrameOK
<1>4. Outer = {}
  BY <1>1, OuterFacts
<1>5. stack' \in Seq(Frames) /\ StackInv' /\ ret' = "ok"
  BY <1>1, <1>2, <1>4, ReturnKeeps DEF Return
<1>6. ImportTypeOK'
  <2>1. ~TopLevel(p) => ParentKind(p) \notin {"root", "absent"}
    BY <1>1, <1>3, TreeFacts DEF ParentKind, ImportTypeOK, Kinds
  <2>2. linked' \subseteq {q \in Paths : kind[q] # "absent" /\ ParentKind(q) \notin {"root", "absent"}}
    BY <1>1, <1>2, <1>3, <2>1 DEF Link, ImportTypeOK
  <2> QED BY <1>1, <1>2, <1>3, <1>5, <2>2 DEF ImportTypeOK, ParentKind, TopLevel
<1>7. RealNotShadowed'
  BY <1>1, <1>2 DEF RealNotShadowed
<1> QED BY <1>5, <1>6, <1>7 DEF ImportInv

-----------------------------------------------------------------------------
(* Every step *)

LEMMA ImportInit == Init => ImportInv
<1> SUFFICES ASSUME Init PROVE ImportInv
  OBVIOUS
<1>1. stack = <<>> /\ Len(stack) = 0
  BY DEF Init
<1>2. StackInv
  BY <1>1 DEF StackInv
<1>3. OnDisk \subseteq Paths
  BY ImportAssumption
<1> QED BY <1>2, <1>3 DEF Init, ImportInv, ImportTypeOK, RealNotShadowed, Kinds

LEMMA ProceedStep ==
  ASSUME ImportInv, Proceed
  PROVE  ImportInv'
<1>1. stack # <<>> /\ stack \in Seq(Frames)
  BY DEF ImportInv, ImportTypeOK, Proceed, AlreadyLoaded, ImportParent, FindStub, Load, NotFound,
         BodyDone, BodyRaises, BaseRaises, RegisterLeaf, ReplaceDone, BodyImport, ImportBase,
         ImportAncestor, AncestorPresent, FallBack, FallBackRaises, Finding, Running, Reached
<1>2. PICK top \in Frames : top = Top
  BY <1>1, TopFacts
<1>3. top.path \in Paths /\ top.todo \subseteq Paths
  BY <1>1, <1>2, TopFacts
<1>4. CASE AlreadyLoaded \/ NotFound \/ BaseRaises
  BY <1>1, <1>4, QuietReturns DEF AlreadyLoaded, NotFound, BaseRaises, modules
<1>5. CASE ImportParent
  <2>1. ParentOf[top.path] \in Paths /\ CallImport(top, ParentOf[top.path])
        /\ UNCHANGED <<kind, linked, skipped, replaced>>
    BY <1>2, <1>3, <1>5, TreeFacts DEF ImportParent, ParentKind, modules
  <2> QED BY <1>1, <1>2, <2>1, QuietCalls
<1>6. CASE FindStub \/ Load \/ BodyDone \/ BodyRaises \/ RegisterLeaf \/ ReplaceDone
  BY <1>6, FindStubStep, LoadStep, BodyDoneStep, BodyRaisesStep, RegisterLeafStep, ReplaceDoneStep
<1>7. ASSUME NEW q \in Paths, BodyImport(q) \/ ImportBase(q) PROVE ImportInv'
  <2>1. /\ CallImport([top EXCEPT !.todo = @ \ {q}], q) /\ top.stage # "parents"
        /\ UNCHANGED <<kind, linked, skipped, replaced>>
    BY <1>2, <1>7 DEF BodyImport, ImportBase, Running, modules
  <2>2. PICK f \in Frames :
          /\ f = [top EXCEPT !.todo = @ \ {q}]
          /\ f.op = top.op /\ f.path = top.path /\ f.stage = top.stage
    BY FrameShapes
  <2> QED BY <1>1, <1>2, <2>1, <2>2, QuietCalls
<1>8. ASSUME NEW q \in Paths, ImportAncestor(q) PROVE ImportInv'
  <2>1. CallImport(top, q) /\ UNCHANGED <<kind, linked, skipped, replaced>>
    BY <1>2, <1>8 DEF ImportAncestor, modules
  <2> QED BY <1>1, <1>2, <2>1, QuietCalls
<1>9. ASSUME NEW q \in Paths, AncestorPresent(q) \/ FallBack(q) PROVE ImportInv'
  BY <1>9, AncestorStep
<1>10. ASSUME NEW q \in Paths, FallBackRaises(q) PROVE ImportInv'
  BY <1>1, <1>10, QuietReturns DEF FallBackRaises, modules
<1> QED BY <1>4, <1>5, <1>6, <1>7, <1>8, <1>9, <1>10 DEF Proceed

LEMMA ImportStep == ImportInv /\ [Next]_vars => ImportInv'
<1> SUFFICES ASSUME ImportInv, [Next]_vars PROVE ImportInv'
  OBVIOUS
<1>1. CASE Proceed
  BY <1>1, ProceedStep
<1>2. ASSUME NEW p \in Paths, Import(p) \/ SkipImport(p) \/ TouchStub(p) \/ StartReplace(p)
      PROVE  ImportInv'
  BY <1>2, FirstCalls, SkipStep, TouchStep
<1>3. CASE UNCHANGED vars
  BY <1>3 DEF vars, ImportInv, ImportTypeOK, StackInv, FrameOK, Inside, RealNotShadowed,
              ParentKind, TopLevel
<1> QED BY <1>1, <1>2, <1>3 DEF Next, Call

LEMMA ImportAlways == Spec => []ImportInv
<1> QED BY ImportInit, ImportStep, PTL DEF Spec

\* Every variable keeps its type, of which the hard part is what the three
\* records of the patcher say of sys.modules: a skipped module is a stub, a
\* replaced one is its replacement, a linked one and its package are there.
THEOREM ImportTypes == Spec => []ImportTypeOK
BY ImportAlways, PTL DEF ImportInv

\* skip_import() hides no package on disk that was not skipped itself.
THEOREM RealStays == Spec => []RealNotShadowed
BY ImportAlways, PTL DEF ImportInv

\* A skipped module is a stub for good: the set only grows, and what it holds
\* is a stub after every step.
THEOREM SkippedForGood == Spec => SkipHolds
<1>1. [Next]_vars => skipped \subseteq skipped'
  BY DEF Next, Call, Proceed, vars, Import, SkipImport, TouchStub, StartReplace, BeginReplace,
         AlreadyLoaded, ImportParent, FindStub, Load, NotFound, BodyDone, BodyRaises, BaseRaises,
         RegisterLeaf, ReplaceDone, BodyImport, ImportBase, ImportAncestor, AncestorPresent,
         NextAncestor, FallBack, FallBackRaises
<1>2. ImportInv' /\ [Next]_vars => [\A p \in skipped : kind'[p] = "stub"]_vars
  BY <1>1 DEF ImportInv, ImportTypeOK
<1>3. Spec => [][\A p \in skipped : kind'[p] = "stub"]_vars
  BY <1>2, ImportAlways, PTL DEF Spec
<1> QED BY <1>3 DEF SkipHolds

-----------------------------------------------------------------------------
(* What replace_import() has installed can be reached *)

\* The modules on the dotted names of replacements that are installed.
Held == {q \in Paths : \E p \in replaced : q = p \/ q \in Above[p]}

Reaches(q) == ~Absent(q) /\ (TopLevel(q) \/ q \in linked)

\* The call f will not take away what is held, and the packages its loop has
\* passed can be reached from the top.
Spares(f) ==
  /\ f.stage \in {"exec", "base"} => f.path \notin Held
  /\ f.stage = "parents" =>
       \A a \in Above[f.path] \ f.todo : Reaches(a) /\ Above[a] \cap f.todo = {}

ReachInv ==
  /\ \A q \in Held : Reaches(q)
  /\ \A i \in 1..Len(stack) : Spares(stack[i])

LEMMA ReachInit == Init => ReachInv
<1> SUFFICES ASSUME Init PROVE ReachInv
  OBVIOUS
<1>1. Len(stack) = 0 /\ replaced = {}
  BY DEF Init
<1> QED BY <1>1 DEF ReachInv, Held

\* What is held is closed under the packages above it.
LEMMA HeldAbove ==
  ASSUME ImportTypeOK, NEW q \in Held
  PROVE  q \in Paths /\ Above[q] \subseteq Held
<1>1. PICK p \in replaced : q = p \/ q \in Above[p]
  BY DEF Held
<1>2. p \in Paths /\ q \in Paths /\ Above[q] \subseteq Paths
  BY TreeFacts DEF Held, ImportTypeOK
<1>3. q \in Above[p] => Above[q] \subseteq Above[p]
  BY <1>2, TreeFacts
<1> QED BY <1>1, <1>2, <1>3 DEF Held

\* Every action that only adds modules and links.
LEMMA Gentle ==
  ASSUME ImportInv, Next, ~BodyRaises, ~RegisterLeaf, ~ReplaceDone
  PROVE  Grows /\ linked \subseteq linked' /\ replaced' = replaced
<1>1. kind \in [Paths -> Kinds]
  BY DEF ImportInv, ImportTypeOK
<1>2. ASSUME NEW p \in Paths, Import(p) \/ SkipImport(p) \/ TouchStub(p) \/ StartReplace(p)
      PROVE  Grows /\ linked \subseteq linked' /\ replaced' = replaced
  <2>1. CASE Import(p) \/ StartReplace(p)
    BY <2>1 DEF Import, StartReplace, BeginReplace, modules, Grows
  <2>2. CASE SkipImport(p)
    BY <1>1, <2>2 DEF SkipImport, Grows, Absent
  <2>3. CASE TouchStub(p)
    BY <1>1, <2>3 DEF TouchStub, Register, Grows, Absent
  <2> QED BY <1>2, <2>1, <2>2, <2>3
<1>3. CASE AlreadyLoaded \/ ImportParent \/ NotFound \/ BodyDone \/ BaseRaises
  BY <1>3 DEF AlreadyLoaded, ImportParent, NotFound, BodyDone, BaseRaises, modules, Link, Grows
<1>4. CASE FindStub
  BY <1>1, <1>4 DEF FindStub, Register, Link, Grows, Absent
<1>5. CASE Load
  BY <1>1, <1>5 DEF Load, Register, Grows, Absent
<1>6. ASSUME NEW q \in Paths,
             \/ BodyImport(q) \/ ImportBase(q) \/ ImportAncestor(q)
             \/ AncestorPresent(q) \/ FallBackRaises(q)
      PROVE  Grows /\ linked \subseteq linked' /\ replaced' = replaced
  BY <1>6 DEF BodyImport, ImportBase, ImportAncestor, AncestorPresent, NextAncestor,
              FallBackRaises, modules, Link, Grows
<1>7. ASSUME NEW q \in Paths, FallBack(q)
      PROVE  Grows /\ linked \subseteq linked' /\ replaced' = replaced
  BY <1>1, <1>7 DEF FallBack, Register, NextAncestor, Link, Grows, Absent
<1> QED BY <1>2, <1>3, <1>4, <1>5, <1>6, <1>7 DEF Next, Call, Proceed

LEMMA ReachKept ==
  ASSUME ImportInv, ReachInv, Grows, linked \subseteq linked', replaced' = replaced,
         \A i \in 1..Len(stack') :
           stack'[i] \in {stack[j] : j \in 1..Len(stack)} \cup {f \in Frames : Spares(f)'}
  PROVE  ReachInv'
<1>1. ASSUME NEW q \in Paths, Reaches(q) PROVE Reaches(q)'
  BY <1>1 DEF Grows, Reaches, Absent, TopLevel
<1>2. Held' = Held
  BY DEF Held
<1>3. \A q \in Held : Reaches(q)'
  BY <1>1 DEF ReachInv, Held
<1>4. ASSUME NEW f \in Frames, Spares(f) PROVE Spares(f)'
  <2>1. f.path \in Paths
    BY DEF Frames
  <2>2. f.stage = "parents" =>
          \A a \in Above[f.path] \ f.todo : Reaches(a)' /\ Above[a] \cap f.todo = {}
    BY <1>1, <1>4, <2>1, TreeFacts DEF Spares
  <2> QED BY <1>2, <1>4, <2>2 DEF Spares
<1>5. \A f \in {stack[j] : j \in 1..Len(stack)} : f \in Frames /\ Spares(f)
  BY DEF ImportInv, ImportTypeOK, ReachInv
<1>6. \A f \in {stack[j] : j \in 1..Len(stack)} \cup {f \in Frames : Spares(f)'} : Spares(f)'
  BY <1>4, <1>5
<1> QED BY <1>2, <1>3, <1>6 DEF ReachInv, Spares, Held, Reaches, Absent, TopLevel

LEMMA Waiting ==
  ASSUME stack \in Seq(Frames), stack # <<>>
  PROVE  /\ \A r : Return(r) =>
              \A i \in 1..Len(stack') : stack'[i] \in Outer
         /\ \A f \in Frames : Become(f) =>
              \A i \in 1..Len(stack') : stack'[i] \in {f} \cup Outer
         /\ \A f \in Frames, q \in Paths : CallImport(f, q) =>
              \A i \in 1..Len(stack') : stack'[i] \in {f, ImportFrame(q)} \cup Outer
         /\ Outer \subseteq {stack[j] : j \in 1..Len(stack)}
<1>1. ASSUME NEW r, Return(r), NEW i \in 1..Len(stack') PROVE stack'[i] \in Outer
  <2>1. Len(stack) \in Nat /\ Len(stack') = Len(stack) - 1 /\ stack'[i] = stack[i + 1]
    BY <1>1, ReturnFrames
  <2>2. i + 1 \in 2..Len(stack)
    BY <2>1
  <2> QED BY <2>1, <2>2 DEF Outer
<1>2. ASSUME NEW f \in Frames, Become(f), NEW i \in 1..Len(stack')
      PROVE  stack'[i] \in {f} \cup Outer
  <2>1. /\ Len(stack) \in Nat \ {0} /\ Len(stack') = Len(stack) /\ stack'[1] = f
        /\ \A j \in 2..Len(stack) : stack'[j] = stack[j]
    BY <1>2, BecomeFrames
  <2>2. i = 1 \/ i \in 2..Len(stack)
    BY <2>1
  <2> QED BY <2>1, <2>2 DEF Outer
<1>3. ASSUME NEW f \in Frames, NEW q \in Paths, CallImport(f, q), NEW i \in 1..Len(stack')
      PROVE  stack'[i] \in {f, ImportFrame(q)} \cup Outer
  <2>1. /\ Len(stack) \in Nat \ {0} /\ Len(stack') = Len(stack) + 1
        /\ stack'[1] = ImportFrame(q) /\ stack'[2] = f
        /\ \A j \in 3..Len(stack') : stack'[j] = stack[j - 1]
    BY <1>3, CallFrames
  <2>2. i = 1 \/ i = 2 \/ (i \in 3..Len(stack') /\ i - 1 \in 2..Len(stack))
    BY <2>1
  <2> QED BY <2>1, <2>2 DEF Outer
<1>4. Outer \subseteq {stack[j] : j \in 1..Len(stack)}
  BY DEF Outer
<1> QED BY <1>1, <1>2, <1>3, <1>4

\* An action that only adds modules and links keeps what is held.
LEMMA GentleReach ==
  ASSUME ImportInv, ReachInv, Next, ~BodyRaises, ~RegisterLeaf, ~ReplaceDone
  PROVE  ReachInv'
<1> DEFINE Old == {stack[j] : j \in 1..Len(stack)}
           Sparing == {f \in Frames : Spares(f)'}
<1>1. Grows /\ linked \subseteq linked' /\ replaced' = replaced /\ ImportTypeOK /\ stack \in Seq(Frames)
  BY Gentle DEF ImportInv, ImportTypeOK
<1>2. ASSUME \A i \in 1..Len(stack') : stack'[i] \in Old \cup Sparing
      PROVE  ReachInv'
  BY <1>1, <1>2, ReachKept
<1> HIDE DEF Old, Sparing
<1>3. ASSUME NEW q \in Paths PROVE ImportFrame(q) \in Sparing
  <2>1. ImportFrame(q) \in Frames
    BY DEF ImportFrame, Frames
  <2>2. PICK f \in Frames : f = ImportFrame(q)
    BY <2>1
  <2>3. Spares(f)'
    BY <2>2 DEF Spares, ImportFrame
  <2> QED BY <2>2, <2>3 DEF Sparing
<1>4. ASSUME NEW p \in Paths, Import(p) \/ SkipImport(p) \/ TouchStub(p) \/ StartReplace(p)
      PROVE  ReachInv'
  <2>1. stack = <<>> /\ Len(stack) = 0
    BY <1>4 DEF Import, SkipImport, TouchStub, StartReplace, BeginReplace
  <2>2. CASE SkipImport(p) \/ TouchStub(p)
    <3>1. Len(stack') = 0
      BY <2>1, <2>2 DEF SkipImport, TouchStub
    <3> QED BY <1>2, <3>1
  <2>3. CASE Import(p)
    <3>1. stack' = <<ImportFrame(p)>>
      BY <2>3 DEF Import
    <3>2. \A i \in 1..Len(stack') : stack'[i] = ImportFrame(p)
      BY <3>1
    <3> QED BY <1>2, <1>3, <3>2
  <2>4. CASE StartReplace(p)
    <3>1. stack' = <<ReplaceFrame(p)>> /\ Absent(p)
      BY <2>4 DEF StartReplace, BeginReplace
    <3>2. \A i \in 1..Len(stack') : stack'[i] = ReplaceFrame(p)
      BY <3>1
    <3>3. p \notin Held
      BY <3>1 DEF ReachInv, Reaches
    <3>4. PICK f \in Frames : f = ReplaceFrame(p)
      <4>1. BaseImports[p] \subseteq Paths
        BY ImportAssumption
      <4> QED BY <4>1 DEF ReplaceFrame, Frames
    <3>5. Spares(f)'
      BY <1>1, <3>3, <3>4 DEF Spares, ReplaceFrame, Held
    <3> QED BY <1>2, <3>2, <3>4, <3>5 DEF Sparing
  <2> QED BY <1>4, <2>2, <2>3, <2>4
<1>5. ASSUME Proceed PROVE ReachInv'
  <2>1. stack # <<>>
    BY <1>5 DEF Proceed, AlreadyLoaded, ImportParent, FindStub, Load, NotFound,
         BodyDone, BodyRaises, BaseRaises, RegisterLeaf, ReplaceDone, BodyImport, ImportBase,
         ImportAncestor, AncestorPresent, FallBack, FallBackRaises, Finding, Running, Reached
  <2>2. PICK top \in Frames : top = Top
    BY <1>1, <2>1, TopFacts
  <2>3. Spares(top) /\ top.path \in Paths
    <3>1. Len(stack) \in Nat \ {0} /\ Top = stack[1]
      BY <1>1, <2>1, TopFacts
    <3> QED BY <2>2, <3>1 DEF ReachInv, Frames
  <2>4. ASSUME NEW r, Return(r) PROVE ReachInv'
    BY <1>1, <1>2, <2>1, <2>4, Waiting DEF Old
  <2>5. ASSUME NEW f \in Frames, NEW q \in Paths, CallImport(f, q), kind' = kind, linked' = linked,
               f = top \/ (f.stage = top.stage /\ f.path = top.path /\ f.stage # "parents")
        PROVE  ReachInv'
    <3>1. Spares(f)
      BY <2>3, <2>5 DEF Spares
    <3>2. Spares(f)'
      BY <1>1, <2>5, <3>1 DEF Spares, Held, Reaches, Absent, TopLevel
    <3>3. \A i \in 1..Len(stack') : stack'[i] \in {f, ImportFrame(q)} \cup Old
      BY <1>1, <2>1, <2>5, Waiting DEF Old
    <3>4. f \in Sparing /\ ImportFrame(q) \in Sparing
      BY <1>3, <3>2 DEF Sparing
    <3> QED BY <1>2, <3>3, <3>4
  <2>6. ASSUME NEW f \in Frames, Become(f), Spares(f)' PROVE ReachInv'
    <3>1. \A i \in 1..Len(stack') : stack'[i] \in {f} \cup Old
      BY <1>1, <2>1, <2>6, Waiting DEF Old
    <3>2. f \in Sparing
      BY <2>6 DEF Sparing
    <3> QED BY <1>2, <3>1, <3>2
  <2>7. CASE \/ AlreadyLoaded \/ FindStub \/ NotFound \/ BodyDone \/ BaseRaises
             \/ \E q \in Paths : FallBackRaises(q)
    BY <2>4, <2>7 DEF AlreadyLoaded, FindStub, NotFound, BodyDone, BaseRaises, FallBackRaises
  <2>8. CASE ImportParent
    <3>1. ParentOf[top.path] \in Paths /\ CallImport(top, ParentOf[top.path])
          /\ kind' = kind /\ linked' = linked
      BY <2>2, <2>3, <2>8, TreeFacts DEF ImportParent, ParentKind, modules
    <3> QED BY <2>5, <3>1
  <2>9. ASSUME NEW q \in Paths, BodyImport(q) \/ ImportBase(q) PROVE ReachInv'
    <3>1. CallImport([top EXCEPT !.todo = @ \ {q}], q) /\ top.stage # "parents"
          /\ kind' = kind /\ linked' = linked
      BY <2>2, <2>9 DEF BodyImport, ImportBase, Running, modules
    <3>2. PICK f \in Frames :
            f = [top EXCEPT !.todo = @ \ {q}] /\ f.path = top.path /\ f.stage = top.stage
      BY FrameShapes
    <3> QED BY <2>5, <3>1, <3>2
  <2>10. ASSUME NEW q \in Paths, ImportAncestor(q) PROVE ReachInv'
    <3>1. CallImport(top, q) /\ kind' = kind /\ linked' = linked
      BY <2>2, <2>10 DEF ImportAncestor, modules
    <3> QED BY <2>5, <3>1
  <2>11. CASE Load
    <3>1. PICK t \in SUBSET Paths : t = BodyImports[top.path]
      BY <2>2, <2>11, ImportAssumption DEF Load, Located
    <3>2. PICK f \in Frames :
            /\ f = [top EXCEPT !.stage = "exec", !.todo = t]
            /\ f.path = top.path /\ f.stage = "exec"
      <4>1. /\ [top EXCEPT !.stage = "exec", !.todo = t] \in Frames
            /\ [top EXCEPT !.stage = "exec", !.todo = t].path = top.path
            /\ [top EXCEPT !.stage = "exec", !.todo = t].stage = "exec"
        BY NextStage
      <4> QED BY <4>1
    <3>3. Become(f) /\ Absent(top.path)
      BY <2>2, <2>11, <3>1, <3>2 DEF Load
    <3>4. top.path \notin Held
      BY <3>3 DEF ReachInv, Reaches
    <3>5. Spares(f)'
      BY <1>1, <3>2, <3>4 DEF Spares, Held
    <3> QED BY <2>6, <3>3, <3>5
  <2>12. ASSUME NEW q \in Paths, AncestorPresent(q) \/ FallBack(q) PROVE ReachInv'
    <3>1. PICK f \in Frames :
            /\ f = [top EXCEPT !.todo = @ \ {q}] /\ f.path = top.path /\ f.stage = top.stage
            /\ f.todo = top.todo \ {q}
      BY FrameShapes
    <3>2. /\ Become(f) /\ Link(q) /\ top.stage = "parents" /\ q \in top.todo
          /\ Above[q] \cap top.todo = {}
      BY <2>2, <2>12, <3>1 DEF AncestorPresent, FallBack, NextAncestor, Reached, Running
    <3>3. kind'[q] # "absent"
      <4>1. CASE AncestorPresent(q)
        BY <4>1 DEF AncestorPresent, Absent
      <4>2. CASE FallBack(q)
        BY <1>1, <4>2 DEF FallBack, Register, ImportTypeOK
      <4> QED BY <2>12, <4>1, <4>2
    <3>4. Reaches(q)'
      BY <3>2, <3>3 DEF Reaches, Absent, Link, TopLevel
    <3>5. ASSUME NEW a \in Above[f.path] \ f.todo
          PROVE  Reaches(a)' /\ Above[a] \cap f.todo = {}
      <4>1. CASE a = q
        BY <3>1, <3>2, <3>4, <4>1 DEF Reaches, Absent, TopLevel
      <4>2. CASE a # q
        <5>1. Reaches(a) /\ Above[a] \cap top.todo = {} /\ a \in Paths
          BY <2>3, <3>1, <3>2, <3>5, <4>2, TreeFacts DEF Spares
        <5> QED BY <1>1, <3>1, <5>1 DEF Reaches, Absent, TopLevel, Grows
      <4> QED BY <4>1, <4>2
    <3>6. Spares(f)'
      BY <3>1, <3>2, <3>5 DEF Spares
    <3> QED BY <2>6, <3>2, <3>6
  <2> QED BY <1>5, <2>7, <2>8, <2>9, <2>10, <2>11, <2>12 DEF Proceed
<1> QED BY <1>4, <1>5 DEF Next, Call

\* The body that raises is none of a held module, and no module below it is.
LEMMA BodyRaisesReach ==
  ASSUME ImportInv, ReachInv, BodyRaises
  PROVE  ReachInv'
<1>1. ImportTypeOK /\ StackInv /\ stack # <<>> /\ stack \in Seq(Frames)
  BY DEF ImportInv, ImportTypeOK, BodyRaises, Running
<1>2. PICK top \in Frames : top = Top
  BY <1>1, TopFacts
<1> DEFINE p == top.path
<1>3. /\ top.stage = "exec" /\ Register(p, "absent") /\ linked' = Unlinked(p) /\ Return("fail")
      /\ replaced' = replaced
  BY <1>2 DEF BodyRaises, Running
<1>4. p \in Paths /\ p \notin Held
  <2>1. Len(stack) \in Nat \ {0} /\ Top = stack[1]
    BY <1>1, TopFacts
  <2> QED BY <1>2, <1>3, <2>1 DEF ReachInv, Spares, Frames
<1> HIDE DEF p
<1>5. kind' \in [Paths -> Kinds] /\ \A q \in Paths : q # p => kind'[q] = kind[q]
  BY <1>1, <1>3 DEF Register, ImportTypeOK, Kinds
\* A module whose package is not p can still be reached.
<1>6. ASSUME NEW q \in Paths, Reaches(q), q # p, p \notin Above[q] PROVE Reaches(q)'
  <2>1. ~TopLevel(q) => q \in linked'
    BY <1>3, <1>6, TreeFacts DEF Reaches, Unlinked, ChildrenOf
  <2> QED BY <1>5, <1>6, <2>1 DEF Reaches, Absent, TopLevel
<1>7. Held' = Held
  BY <1>3 DEF Held
<1>8. ASSUME NEW q \in Held PROVE Reaches(q)'
  <2>1. q \in Paths /\ Reaches(q) /\ q # p /\ p \notin Above[q]
    BY <1>1, <1>4, HeldAbove DEF ReachInv
  <2> QED BY <1>6, <2>1
<1>9. ASSUME NEW g \in Outer PROVE Spares(g)'
  <2>1. g \in Frames /\ Spares(g) /\ Inside(Top, g) /\ g.path \in Paths /\ FrameOK(g)
    <3>1. Outer \subseteq {stack[j] : j \in 1..Len(stack)}
      BY <1>1, Waiting
    <3> QED BY <1>1, <3>1, OuterFacts DEF ReachInv, Frames
  <2>2. ASSUME g.stage = "parents", NEW a \in Above[g.path] \ g.todo
        PROVE  Reaches(a)' /\ Above[a] \cap g.todo = {}
    <3>1. Reaches(a) /\ Above[a] \cap g.todo = {} /\ a \in Paths /\ Above[a] \subseteq Above[g.path]
      BY <2>1, <2>2, TreeFacts DEF Spares
    <3>2. p \notin Above[g.path] \ g.todo
      BY <1>2, <1>3, <2>1, <2>2 DEF Inside, p
    <3>3. a # p /\ p \notin Above[a]
      BY <3>1, <3>2
    <3> QED BY <1>6, <3>1, <3>3
  <2> QED BY <1>7, <2>1, <2>2 DEF Spares
<1>10. \A i \in 1..Len(stack') : stack'[i] \in Outer
  BY <1>1, <1>3, Waiting
<1> QED BY <1>7, <1>8, <1>9, <1>10 DEF ReachInv, Spares, Held, Reaches, Absent, TopLevel

\* The module that is replaced is none that is held.
LEMMA RegisterLeafReach ==
  ASSUME ImportInv, ReachInv, RegisterLeaf
  PROVE  ReachInv'
<1>1. ImportTypeOK /\ StackInv /\ stack # <<>> /\ stack \in Seq(Frames)
      /\ Top.op = "replace" /\ Top.stage = "base"
  BY DEF ImportInv, ImportTypeOK, RegisterLeaf, Running
<1>2. PICK top \in Frames : top = Top
  BY <1>1, TopFacts
<1> DEFINE p == top.path
<1>3. PICK f \in Frames :
        /\ f = [top EXCEPT !.stage = "parents", !.todo = Above[p]]
        /\ f.path = p /\ f.stage = "parents" /\ f.todo = Above[p]
  <2>1. PICK t \in SUBSET Paths : t = Above[p]
    BY TreeFacts DEF Frames
  <2>2. /\ [top EXCEPT !.stage = "parents", !.todo = t] \in Frames
        /\ [top EXCEPT !.stage = "parents", !.todo = t].path = top.path
        /\ [top EXCEPT !.stage = "parents", !.todo = t].stage = "parents"
        /\ [top EXCEPT !.stage = "parents", !.todo = t].todo = t
    BY NextStage
  <2> QED BY <2>1, <2>2
<1>4. Register(p, "replaced") /\ linked' = Unlinked(p) /\ Become(f) /\ replaced' = replaced
  BY <1>2, <1>3 DEF RegisterLeaf
<1>5. p \in Paths /\ p \notin Held
  <2>1. Len(stack) \in Nat \ {0} /\ Top = stack[1]
    BY <1>1, TopFacts
  <2> QED BY <1>1, <1>2, <2>1 DEF ReachInv, Spares, Frames
<1> HIDE DEF p
<1>6. kind' \in [Paths -> Kinds] /\ \A q \in Paths : q # p => kind'[q] = kind[q]
  BY <1>1, <1>4 DEF Register, ImportTypeOK, Kinds
<1>7. Held' = Held
  BY <1>4 DEF Held
<1>8. ASSUME NEW q \in Held PROVE Reaches(q)'
  <2>1. q \in Paths /\ Reaches(q) /\ q # p /\ p \notin Above[q]
    BY <1>1, <1>5, HeldAbove DEF ReachInv
  <2>2. ~TopLevel(q) => q \in linked'
    BY <1>4, <2>1, TreeFacts DEF Reaches, Unlinked, ChildrenOf
  <2> QED BY <1>6, <2>1, <2>2 DEF Reaches, Absent, TopLevel
<1>9. Spares(f)'
  BY <1>3 DEF Spares
<1>10. \A i \in 1..Len(stack') : stack'[i] = f
  <2>1. Outer = {}
    BY <1>1, OuterFacts
  <2> QED BY <1>1, <1>4, <2>1, Waiting
<1> QED BY <1>7, <1>8, <1>9, <1>10 DEF ReachInv, Spares, Held, Reaches, Absent, TopLevel

\* replace_import() returns: its dotted name is held from now on.
LEMMA ReplaceDoneReach ==
  ASSUME ImportInv, ReachInv, ReplaceDone
  PROVE  ReachInv'
<1>1. ImportTypeOK /\ StackInv /\ stack # <<>> /\ stack \in Seq(Frames)
      /\ Top.op = "replace" /\ Top.stage = "parents" /\ Top.todo = {}
  BY DEF ImportInv, ImportTypeOK, ReplaceDone, Running
<1>0. PICK p \in Paths : p = Top.path
  BY <1>1, TopFacts
<1>2. Link(p) /\ kind' = kind /\ replaced' = replaced \cup {p} /\ Return("ok")
  BY <1>0 DEF ReplaceDone
<1>3. kind[p] = "replaced" /\ \A a \in Above[p] : Reaches(a)
  <2>1. Len(stack) \in Nat \ {0} /\ Top = stack[1] /\ FrameOK(Top)
    BY <1>1, TopFacts, OuterFacts
  <2>2. Spares(Top)
    BY <2>1 DEF ReachInv
  <2> QED BY <1>0, <1>1, <2>1, <2>2 DEF Spares, FrameOK
<1>4. ASSUME NEW q \in Held' PROVE Reaches(q)'
  <2>1. q \in Held \/ q = p \/ q \in Above[p]
    BY <1>2, <1>4 DEF Held
  <2>2. linked \subseteq linked' /\ (TopLevel(p) \/ p \in linked')
    BY <1>2 DEF Link
  <2>3. CASE q = p
    BY <1>2, <1>3, <2>2, <2>3 DEF Reaches, Absent, TopLevel
  <2>4. CASE q # p
    BY <1>2, <1>3, <2>1, <2>2, <2>4 DEF ReachInv, Reaches, Absent, TopLevel
  <2> QED BY <2>3, <2>4
<1>5. \A i \in 1..Len(stack') : FALSE
  <2>1. Outer = {}
    BY <1>1, OuterFacts
  <2> QED BY <1>1, <1>2, <2>1, Waiting
<1> QED BY <1>4, <1>5 DEF ReachInv, Held, Reaches, Absent, TopLevel

LEMMA ReachStep == ImportInv /\ ReachInv /\ [Next]_vars => ReachInv'
<1> SUFFICES ASSUME ImportInv, ReachInv, [Next]_vars PROVE ReachInv'
  OBVIOUS
<1>1. CASE BodyRaises \/ RegisterLeaf \/ ReplaceDone
  BY <1>1, BodyRaisesReach, RegisterLeafReach, ReplaceDoneReach
<1>2. CASE Next /\ ~BodyRaises /\ ~RegisterLeaf /\ ~ReplaceDone
  BY <1>2, GentleReach
<1>3. CASE UNCHANGED vars
  BY <1>3 DEF vars, ReachInv, Spares, Held, Reaches, Absent, TopLevel
<1> QED BY <1>1, <1>2, <1>3

\* Once replace_import(p) has returned, every name on the dotted path of p leads
\* on to the next, whichever bodies have raised and whatever was replaced since.
THEOREM ReplacementHolds == Spec => []ReplacementReachable
<1>1. ImportInv /\ ReachInv => ReplacementReachable
  <2> SUFFICES ASSUME ImportInv, ReachInv, NEW p \in replaced, NEW q \in {p} \cup Above[p]
               PROVE  ~Absent(q) /\ (TopLevel(q) \/ q \in linked)
    BY DEF ReplacementReachable
  <2>1. p \in Paths
    BY DEF ImportInv, ImportTypeOK
  <2>2. q \in Held
    BY <2>1, TreeFacts DEF Held
  <2> QED BY <2>2 DEF ReachInv, Reaches
<1>2. ImportInv /\ ReachInv /\ [Next]_vars => ReachInv'
  BY ReachStep
<1> QED BY <1>1, <1>2, ImportAlways, ReachInit, PTL DEF Spec

-----------------------------------------------------------------------------
(* What is loaded is not replaced *)

\* What the import of p's replacement may import, all of it.
Needed(p) ==
  CHOOSE S \in SUBSET Paths :
    ClosedUnderImports(S) /\ BaseImports[p] \subseteq S /\ p \notin S \cap OnDisk

\* While the replacement of a module is imported, the calls inside it keep to what it
\* needs, and so do not load the module itself.
Spared(j) ==
  /\ kind[stack[j].path] # "real"
  /\ stack[j].todo \subseteq Needed(stack[j].path)
  /\ \A i \in 1..(j - 1) : /\ stack[i].path \in Needed(stack[j].path)
                           /\ stack[i].todo \subseteq Needed(stack[j].path)

BaseInv == \A j \in 1..Len(stack) : stack[j].stage = "base" => Spared(j)

\* No step but Load loads a module.
NoneLoaded == \A p \in Paths : kind'[p] = "real" => kind[p] = "real"

LEMMA NeededFacts ==
  ASSUME BasesIndependent, NEW p \in Paths
  PROVE  /\ Needed(p) \subseteq Paths /\ BaseImports[p] \subseteq Needed(p)
         /\ p \in OnDisk => p \notin Needed(p)
         /\ \A q \in Needed(p) : /\ ParentOf[q] \in Needed(p) \cup {Root}
                                 /\ q \in OnDisk => BodyImports[q] \subseteq Needed(p)
<1>1. \E S \in SUBSET Paths :
        ClosedUnderImports(S) /\ BaseImports[p] \subseteq S /\ p \notin S \cap OnDisk
  BY DEF BasesIndependent
<1> DEFINE Fits(S) ==
             ClosedUnderImports(S) /\ BaseImports[p] \subseteq S /\ p \notin S \cap OnDisk
<1>3. Needed(p) = CHOOSE S \in SUBSET Paths : Fits(S)
  BY DEF Needed
<1>4. \E S \in SUBSET Paths : Fits(S)
  BY <1>1
<1> HIDE DEF Fits
<1>5. Needed(p) \in SUBSET Paths /\ Fits(Needed(p))
  BY <1>3, <1>4, Zenon
<1>2. /\ Needed(p) \in SUBSET Paths /\ ClosedUnderImports(Needed(p))
      /\ BaseImports[p] \subseteq Needed(p) /\ p \notin Needed(p) \cap OnDisk
  BY <1>5 DEF Fits
<1> QED BY <1>2 DEF ClosedUnderImports

\* A call of replace_import() is the outermost.
LEMMA ReplaceAlone ==
  ASSUME ImportInv, stack # <<>>, Top.op = "replace"
  PROVE  Len(stack) = 1
<1>1. stack \in Seq(Frames) /\ Top = stack[1] /\ Len(stack) \in Nat \ {0}
  BY TopFacts DEF ImportInv, ImportTypeOK
<1>2. ASSUME Len(stack) # 1 PROVE FALSE
  <2>1. 1 \in 1..Len(stack) /\ 2 \in 1..Len(stack)
    <3> DEFINE n == Len(stack)
    <3>1. n \in Nat \ {0} /\ n # 1
      BY <1>1, <1>2
    <3> HIDE DEF n
    <3>2. 1 \in 1..n /\ 2 \in 1..n
      BY <3>1
    <3> QED BY <3>2 DEF n
  <2>2. Inside(stack[1], stack[2])
    BY <2>1 DEF ImportInv, StackInv
  <2> QED BY <1>1, <2>2 DEF Inside
<1> QED BY <1>2

LEMMA BaseReturns ==
  ASSUME ImportInv, BaseInv, stack # <<>>, NoneLoaded, NEW r, Return(r)
  PROVE  BaseInv'
<1>1. /\ stack \in Seq(Frames) /\ Len(stack) \in Nat /\ Len(stack') = Len(stack) - 1
      /\ \A i \in 1..Len(stack') : stack'[i] = stack[i + 1]
  BY ReturnFrames DEF ImportInv, ImportTypeOK
<1>2. SUFFICES ASSUME NEW j \in 1..Len(stack'), stack'[j].stage = "base"
               PROVE  Spared(j)'
  BY DEF BaseInv
<1>3. j + 1 \in 1..Len(stack) /\ stack'[j] = stack[j + 1] /\ stack[j + 1].path \in Paths
  <2>1. j + 1 \in 1..Len(stack) /\ stack'[j] = stack[j + 1]
    BY <1>1
  <2>2. stack[j + 1] \in Frames
    BY <1>1, <2>1
  <2> QED BY <2>1, <2>2 DEF Frames
<1>4. Spared(j + 1)
  BY <1>2, <1>3 DEF BaseInv
<1>5. ASSUME NEW i \in 1..(j - 1)
      PROVE  /\ stack'[i].path \in Needed(stack[j + 1].path)
             /\ stack'[i].todo \subseteq Needed(stack[j + 1].path)
  <2>1. i + 1 \in 1..((j + 1) - 1) /\ i \in 1..Len(stack') /\ stack'[i] = stack[i + 1]
    BY <1>1, <1>2
  <2> QED BY <1>4, <2>1 DEF Spared
<1> QED BY <1>3, <1>4, <1>5 DEF Spared, NoneLoaded, Needed

\* The innermost call goes on as f.
LEMMA BaseGoesOn ==
  ASSUME ImportInv, BaseInv, stack # <<>>, NEW f \in Frames, Become(f), f.stage # "base",
         \A j \in 2..Len(stack) : stack[j].stage = "base" =>
           /\ kind'[stack[j].path] # "real"
           /\ f.path \in Needed(stack[j].path) /\ f.todo \subseteq Needed(stack[j].path)
  PROVE  BaseInv'
<1>1. /\ stack' \in Seq(Frames) /\ Len(stack) \in Nat \ {0} /\ Len(stack') = Len(stack)
      /\ stack'[1] = f /\ \A i \in 2..Len(stack) : stack'[i] = stack[i]
  BY BecomeFrames DEF ImportInv, ImportTypeOK
<1>2. SUFFICES ASSUME NEW j \in 1..Len(stack'), stack'[j].stage = "base"
               PROVE  Spared(j)'
  BY DEF BaseInv
<1>3. j \in 2..Len(stack) /\ j \in 1..Len(stack) /\ stack'[j] = stack[j]
  <2>1. j # 1
    BY <1>1, <1>2
  <2> QED BY <1>1, <2>1
<1>4. Spared(j)
  BY <1>2, <1>3 DEF BaseInv
<1>5. ASSUME NEW i \in 1..(j - 1)
      PROVE  /\ stack'[i].path \in Needed(stack[j].path)
             /\ stack'[i].todo \subseteq Needed(stack[j].path)
  <2>1. CASE i = 1
    BY <1>1, <1>2, <1>3, <2>1
  <2>2. CASE i # 1
    <3>1. i \in 2..Len(stack) /\ stack'[i] = stack[i]
      BY <1>1, <1>3, <2>2
    <3> QED BY <1>4, <3>1 DEF Spared
  <2> QED BY <2>1, <2>2
<1> QED BY <1>2, <1>3, <1>4, <1>5 DEF Spared, Needed

\* It imports q, with less left to do.
LEMMA BaseCalls ==
  ASSUME ImportInv, BaseInv, stack # <<>>, UNCHANGED kind,
         NEW f \in Frames, f.path = Top.path, f.stage = Top.stage, f.todo \subseteq Top.todo,
         NEW q \in Paths, CallImport(f, q),
         Top.stage = "base" => q \in Needed(Top.path),
         \A j \in 2..Len(stack) : stack[j].stage = "base" => q \in Needed(stack[j].path)
  PROVE  BaseInv'
<1>1. /\ stack \in Seq(Frames) /\ Len(stack) \in Nat \ {0} /\ Len(stack') = Len(stack) + 1
      /\ stack'[1] = ImportFrame(q) /\ stack'[2] = f
      /\ \A i \in 3..Len(stack') : stack'[i] = stack[i - 1]
      /\ Top = stack[1]
  BY CallFrames, TopFacts DEF ImportInv, ImportTypeOK
<1>2. SUFFICES ASSUME NEW j \in 1..Len(stack'), stack'[j].stage = "base"
               PROVE  Spared(j)'
  BY DEF BaseInv
<1>3. ImportFrame(q).path = q /\ ImportFrame(q).todo = {} /\ ImportFrame(q).stage = "find"
  BY DEF ImportFrame
<1>4. /\ j \in 2..Len(stack') /\ j - 1 \in 1..Len(stack)
      /\ stack'[j].path = stack[j - 1].path /\ stack'[j].stage = stack[j - 1].stage
      /\ stack'[j].todo \subseteq stack[j - 1].todo
  <2>1. j # 1
    BY <1>1, <1>2, <1>3
  <2>2. CASE j = 2
    BY <1>1, <2>2
  <2>3. CASE j # 2
    <3>1. j \in 3..Len(stack') /\ j - 1 \in 1..Len(stack) /\ j \in 2..Len(stack')
      BY <1>1, <2>1, <2>3
    <3> QED BY <1>1, <3>1
  <2> QED BY <2>2, <2>3
<1>5. Spared(j - 1)
  BY <1>2, <1>4 DEF BaseInv
<1>6. ASSUME NEW i \in 1..(j - 1)
      PROVE  /\ stack'[i].path \in Needed(stack[j - 1].path)
             /\ stack'[i].todo \subseteq Needed(stack[j - 1].path)
  <2>1. CASE i = 1
    <3>1. j - 1 = 1 \/ j - 1 \in 2..Len(stack)
      BY <1>4
    <3>2. q \in Needed(stack[j - 1].path)
      BY <1>1, <1>2, <1>4, <3>1
    <3> QED BY <1>1, <1>3, <2>1, <3>2
  <2>2. CASE i = 2
    <3>1. 1 \in 1..((j - 1) - 1)
      BY <1>4, <2>2
    <3> QED BY <1>1, <1>5, <2>2, <3>1 DEF Spared
  <2>3. CASE i # 1 /\ i # 2
    <3>1. i \in 3..Len(stack') /\ i - 1 \in 1..((j - 1) - 1)
      BY <1>1, <1>4, <2>3
    <3> QED BY <1>1, <1>5, <3>1 DEF Spared
  <2> QED BY <2>1, <2>2, <2>3
<1> QED BY <1>4, <1>5, <1>6 DEF Spared, Needed

\* The replacement of a module that is not loaded begins to be imported.
LEMMA BaseFirst ==
  ASSUME BasesIndependent, ImportInv, NEW p \in Paths, Import(p) \/ StartReplace(p)
  PROVE  BaseInv'
<1>1. CASE Import(p)
  <2>1. stack' = <<ImportFrame(p)>>
    BY <1>1 DEF Import
  <2>2. Len(stack') = 1 /\ \A j \in 1..Len(stack') : stack'[j].stage = "find"
    BY <2>1 DEF ImportFrame
  <2> QED BY <2>2 DEF BaseInv
<1>2. CASE StartReplace(p)
  <2>1. stack' = <<ReplaceFrame(p)>> /\ kind'[p] = "absent"
    BY <1>2 DEF StartReplace, BeginReplace, modules, Absent
  <2>2. /\ Len(stack') = 1
        /\ \A j \in 1..Len(stack') : j = 1 /\ stack'[j].path = p /\ stack'[j].todo = BaseImports[p]
    BY <2>1 DEF ReplaceFrame
  <2>3. \A j \in 1..Len(stack') : 1..(j - 1) = {}
    BY <2>2
  <2> QED BY <2>1, <2>2, <2>3, NeededFacts DEF BaseInv, Spared, Needed
<1> QED BY <1>1, <1>2

\* A body is run: it is none whose replacement is being imported.
LEMMA LoadSpares ==
  ASSUME BasesIndependent, ImportInv, BaseInv, Load
  PROVE  BaseInv'
<1>1. stack # <<>> /\ Absent(Top.path) /\ Top.path \in OnDisk /\ Top.path \in Paths
  BY TopFacts DEF Load, Finding, Running, Located, ImportInv, ImportTypeOK
<1>2. Top \in Frames /\ Top = stack[1] /\ Len(stack) \in Nat \ {0}
      /\ \A i \in 1..Len(stack) : stack[i] \in Frames
  BY <1>1, TopFacts DEF ImportInv, ImportTypeOK
<1>3. BodyImports[Top.path] \subseteq Paths
  BY <1>1, ImportAssumption
<1>4. PICK f \in Frames : /\ Become(f) /\ f.stage = "exec" /\ f.path = Top.path
                          /\ f.todo = BodyImports[Top.path]
  <2>1. PICK top \in Frames : top = Top
    BY <1>2
  <2>2. PICK t \in SUBSET Paths : t = BodyImports[top.path]
    BY <1>3, <2>1
  <2>3. Become([top EXCEPT !.stage = "exec", !.todo = t])
    BY <2>1, <2>2 DEF Load
  <2>4. /\ [top EXCEPT !.stage = "exec", !.todo = t] \in Frames
        /\ [top EXCEPT !.stage = "exec", !.todo = t].path = top.path
        /\ [top EXCEPT !.stage = "exec", !.todo = t].stage = "exec"
        /\ [top EXCEPT !.stage = "exec", !.todo = t].todo = t
    BY NextStage
  <2> QED BY <2>1, <2>2, <2>3, <2>4
<1>5. ASSUME NEW j \in 2..Len(stack), stack[j].stage = "base"
      PROVE  /\ kind'[stack[j].path] # "real"
             /\ f.path \in Needed(stack[j].path) /\ f.todo \subseteq Needed(stack[j].path)
  <2>1. j \in 1..Len(stack) /\ 1 \in 1..(j - 1)
    BY <1>2
  <2>2. Spared(j)
    BY <1>5, <2>1 DEF BaseInv
  <2>3. Top.path \in Needed(stack[j].path) /\ kind[stack[j].path] # "real"
    BY <1>2, <2>1, <2>2 DEF Spared
  <2>4. stack[j].path \in Paths
    BY <1>2, <2>1 DEF Frames
  <2>5. BodyImports[Top.path] \subseteq Needed(stack[j].path) /\ Top.path # stack[j].path
    BY <1>1, <2>3, <2>4, NeededFacts
  <2>6. kind'[stack[j].path] = kind[stack[j].path]
    BY <1>1, <2>4, <2>5 DEF Load, Register, ImportInv, ImportTypeOK
  <2> QED BY <1>4, <2>3, <2>5, <2>6
<1> QED BY <1>1, <1>4, <1>5, BaseGoesOn

LEMMA BaseProceeds ==
  ASSUME BasesIndependent, ImportInv, BaseInv, Proceed
  PROVE  BaseInv'
<1>1. /\ stack # <<>> /\ stack \in Seq(Frames)
      /\ kind \in [Paths -> Kinds]
  BY DEF ImportInv, ImportTypeOK, Proceed, AlreadyLoaded, ImportParent, FindStub, Load, NotFound,
         BodyDone, BodyRaises, BaseRaises, RegisterLeaf, ReplaceDone, BodyImport, ImportBase,
         ImportAncestor, AncestorPresent, FallBack, FallBackRaises, Finding, Running, Reached
<1>2. PICK top \in Frames : top = Top /\ top = stack[1]
  BY <1>1, TopFacts
<1>3. top.path \in Paths /\ top.todo \subseteq Paths /\ Len(stack) \in Nat \ {0}
  BY <1>1, <1>2, TopFacts
<1>4. ASSUME NEW j \in 2..Len(stack), stack[j].stage = "base"
      PROVE  /\ top.path \in Needed(stack[j].path) /\ top.todo \subseteq Needed(stack[j].path)
             /\ stack[j].path \in Paths
             /\ top.op # "replace"
  <2>1. j \in 1..Len(stack) /\ 1 \in 1..(j - 1)
    BY <1>3
  <2>2. Spared(j) /\ stack[j] \in Frames
    BY <1>1, <1>4, <2>1 DEF BaseInv
  <2>3. top.op = "replace" => Len(stack) = 1
    BY <1>1, <1>2, ReplaceAlone
  <2> QED BY <1>2, <1>3, <2>1, <2>2, <2>3 DEF Spared, Frames
<1>5. CASE \/ AlreadyLoaded \/ FindStub \/ NotFound \/ BodyDone \/ BodyRaises
           \/ BaseRaises \/ ReplaceDone \/ \E q \in Paths : FallBackRaises(q)
  <2>1. NoneLoaded /\ \E r \in {"ok", "fail"} : Return(r)
    <3>1. CASE \/ AlreadyLoaded \/ NotFound \/ BodyDone \/ BaseRaises \/ ReplaceDone
               \/ \E q \in Paths : FallBackRaises(q)
      BY <3>1 DEF AlreadyLoaded, NotFound, BodyDone, BaseRaises, ReplaceDone, FallBackRaises,
                  modules, NoneLoaded
    <3>2. CASE FindStub \/ BodyRaises
      BY <1>1, <1>2, <1>3, <3>2 DEF FindStub, BodyRaises, Register, NoneLoaded
    <3> QED BY <1>5, <3>1, <3>2
  <2> QED BY <1>1, <2>1, BaseReturns
<1>6. CASE Load
  BY <1>6, LoadSpares
<1>7. CASE RegisterLeaf \/ \E q \in Paths : AncestorPresent(q) \/ FallBack(q)
  <2>1. top.op = "replace"
    BY <1>2, <1>7 DEF RegisterLeaf, AncestorPresent, FallBack, Reached, Running
  <2>2. \E f \in Frames : Become(f) /\ f.stage = "parents"
    <3>1. CASE RegisterLeaf
      <4>1. PICK t \in SUBSET Paths : t = Above[top.path]
        BY <1>3, TreeFacts
      <4>2. /\ [top EXCEPT !.stage = "parents", !.todo = t] \in Frames
            /\ [top EXCEPT !.stage = "parents", !.todo = t].stage = "parents"
        BY NextStage
      <4> QED BY <1>2, <3>1, <4>1, <4>2 DEF RegisterLeaf
    <3>2. ASSUME NEW q \in Paths, AncestorPresent(q) \/ FallBack(q)
          PROVE  \E f \in Frames : Become(f) /\ f.stage = "parents"
      <4>1. Become([top EXCEPT !.todo = @ \ {q}]) /\ top.stage = "parents"
        BY <1>2, <3>2 DEF AncestorPresent, FallBack, NextAncestor, Reached, Running
      <4>2. PICK f \in Frames : f = [top EXCEPT !.todo = @ \ {q}] /\ f.stage = top.stage
        BY FrameShapes
      <4> QED BY <4>1, <4>2
    <3> QED BY <1>7, <3>1, <3>2
  <2>3. PICK f \in Frames : Become(f) /\ f.stage = "parents"
    BY <2>2
  <2> QED BY <1>1, <1>4, <2>1, <2>3, BaseGoesOn
<1>8. CASE ImportParent
  <2>1. /\ ParentOf[top.path] \in Paths /\ CallImport(top, ParentOf[top.path])
        /\ UNCHANGED kind /\ top.stage = "find"
    BY <1>2, <1>3, <1>8, TreeFacts DEF ImportParent, ParentKind, modules, Finding, Running
  <2>2. ASSUME NEW j \in 2..Len(stack), stack[j].stage = "base"
        PROVE  ParentOf[top.path] \in Needed(stack[j].path)
    BY <1>4, <2>1, <2>2, NeededFacts, TreeFacts, <1>3
  <2> QED BY <1>1, <1>2, <2>1, <2>2, BaseCalls
<1>9. ASSUME NEW q \in Paths, BodyImport(q) \/ ImportBase(q) PROVE BaseInv'
  <2>1. /\ CallImport([top EXCEPT !.todo = @ \ {q}], q) /\ q \in top.todo /\ UNCHANGED kind
    BY <1>2, <1>9 DEF BodyImport, ImportBase, modules
  <2>2. PICK f \in Frames :
          /\ f = [top EXCEPT !.todo = @ \ {q}]
          /\ f.path = top.path /\ f.stage = top.stage /\ f.todo \subseteq top.todo
    BY FrameShapes
  <2>3. top.stage = "base" => q \in Needed(top.path)
    <3>1. 1 \in 1..Len(stack)
      BY <1>3
    <3> QED BY <1>2, <2>1, <3>1 DEF BaseInv, Spared
  <2> QED BY <1>1, <1>2, <1>4, <2>1, <2>2, <2>3, BaseCalls
<1>10. ASSUME NEW q \in Paths, ImportAncestor(q) PROVE BaseInv'
  <2>1. CallImport(top, q) /\ UNCHANGED kind /\ top.op = "replace" /\ top.stage = "parents"
    BY <1>2, <1>10 DEF ImportAncestor, Reached, Running, modules
  <2> QED BY <1>1, <1>2, <1>4, <2>1, BaseCalls
<1> QED BY <1>5, <1>6, <1>7, <1>8, <1>9, <1>10 DEF Proceed

LEMMA BaseStep == BasesIndependent /\ ImportInv /\ BaseInv /\ [Next]_vars => BaseInv'
<1> SUFFICES ASSUME BasesIndependent, ImportInv, BaseInv, [Next]_vars PROVE BaseInv'
  OBVIOUS
<1>1. CASE Proceed
  BY <1>1, BaseProceeds
<1>2. ASSUME NEW p \in Paths, Import(p) \/ StartReplace(p) PROVE BaseInv'
  BY <1>2, BaseFirst
<1>3. ASSUME NEW p \in Paths, SkipImport(p) \/ TouchStub(p) PROVE BaseInv'
  <2>1. stack' = <<>>
    BY <1>3 DEF SkipImport, TouchStub
  <2>2. Len(stack') = 0
    BY <2>1
  <2> QED BY <2>2 DEF BaseInv
<1>4. CASE UNCHANGED vars
  BY <1>4 DEF vars, BaseInv, Spared, Needed
<1> QED BY <1>1, <1>2, <1>3, <1>4 DEF Next, Call

\* A module that was loaded meanwhile would be overwritten by RegisterLeaf alone.
LEMMA LoadedStep ==
  ASSUME ImportInv, BaseInv, [Next]_vars, NEW p \in Paths, kind[p] = "real"
  PROVE  kind'[p] \in {"real", "absent"}
<1>1. kind \in [Paths -> Kinds] /\ stack \in Seq(Frames)
  BY DEF ImportInv, ImportTypeOK
<1>2. CASE Next /\ ~BodyRaises /\ ~RegisterLeaf /\ ~ReplaceDone
  BY <1>2, Gentle DEF Grows
<1>3. CASE BodyRaises
  <2>1. Top.path \in Paths
    BY <1>1, <1>3, TopFacts DEF BodyRaises, Running
  <2> QED BY <1>1, <1>3, <2>1 DEF BodyRaises, Register
<1>4. CASE RegisterLeaf
  <2>1. /\ stack # <<>> /\ Top = stack[1] /\ Top.stage = "base" /\ Top.path \in Paths
        /\ Len(stack) \in Nat \ {0}
    BY <1>1, <1>4, TopFacts DEF RegisterLeaf, Running
  <2>2. kind[Top.path] # "real"
    <3>1. 1 \in 1..Len(stack)
      BY <2>1
    <3> QED BY <2>1, <3>1 DEF BaseInv, Spared
  <2> QED BY <1>1, <1>4, <2>1, <2>2 DEF RegisterLeaf, Register
<1>5. CASE ReplaceDone \/ UNCHANGED vars
  BY <1>5 DEF ReplaceDone, vars
<1> QED BY <1>2, <1>3, <1>4, <1>5

\* Where no replacement imports what it replaces, replace_import() leaves a loaded
\* module alone: it looks in sys.modules once, before the import of the replacement,
\* and nothing that this import runs loads the module behind its back.
THEOREM LoadedStays == BasesIndependent => (Spec => LoadedNotReplaced)
<1> SUFFICES ASSUME BasesIndependent PROVE Spec => LoadedNotReplaced
  OBVIOUS
<1>1. Init => BaseInv
  <2>1. Init => Len(stack) = 0
    BY DEF Init
  <2> QED BY <2>1 DEF BaseInv
<1>2. ImportInv /\ BaseInv /\ [Next]_vars => BaseInv'
  BY BaseStep
<1>3. ImportInv /\ BaseInv /\ [Next]_vars =>
        [\A p \in Paths : kind[p] = "real" => kind'[p] \in {"real", "absent"}]_vars
  BY LoadedStep
<1>4. Spec => [][\A p \in Paths : kind[p] = "real" => kind'[p] \in {"real", "absent"}]_vars
  BY <1>1, <1>2, <1>3, ImportAlways, PTL DEF Spec
<1> QED BY <1>4 DEF LoadedNotReplaced

=============================================================================
