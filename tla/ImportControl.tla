--------------------------- MODULE ImportControl ---------------------------
(***************************************************************************)
(* The import controls of the patcher: skip_import(), replace_import() and *)
(* the stub modules (mx_driving/patcher/patcher.py), on top of Python's    *)
(* import machinery, of which this module keeps what the two rely on:      *)
(* sys.modules, the attribute of a package that names each submodule, and  *)
(* the execution of a module's body, which may import and may raise.       *)
(*                                                                         *)
(* The calls under way are a stack, its head the innermost: replace_import *)
(* imports other modules half way, their bodies import again, and every    *)
(* one of them sees the sys.modules of that moment.                        *)
(*                                                                         *)
(* Left out: the __path__ that a replacement takes over when its base is a *)
(* package (a replaced module is taken to have none), and what a finder    *)
(* asked for the dotted name of a module on all of sys.path could find     *)
(* when the module above it has no __path__ (nothing).                     *)
(***************************************************************************)
EXTENDS Naturals, Sequences, FiniteSets

CONSTANTS
  Paths,        \* dotted module paths
  Root,         \* what ParentOf says of a top-level path
  ParentOf,     \* path -> the path without its last segment
  Above,        \* path -> all its proper prefixes
  OnDisk,       \* paths a finder locates: modules, packages, namespaces
  Packages,     \* those of them that have a __path__
  Broken,       \* modules on disk whose body may raise
  BodyImports,  \* module on disk -> what its body may import
  BaseImports   \* path -> what importing its replacement may import

Kinds == {"absent", "real", "stub", "bare", "package", "replaced"}

ASSUME ImportAssumption ==
  /\ Root \notin Paths
  /\ ParentOf \in [Paths -> Paths \cup {Root}]
  /\ Above \in [Paths -> SUBSET Paths]
  /\ \A p \in Paths :
       Above[p] = IF ParentOf[p] = Root THEN {}
                  ELSE Above[ParentOf[p]] \cup {ParentOf[p]}
  /\ \A p \in Paths : p \notin Above[p] /\ \A q \in Above[p] : Above[q] \subseteq Above[p]
  /\ Packages \subseteq OnDisk
  /\ OnDisk \subseteq Paths
  /\ \A p \in OnDisk : ParentOf[p] \in Packages \cup {Root}
  /\ Broken \subseteq OnDisk
  /\ BodyImports \in [OnDisk -> SUBSET Paths]
  /\ BaseImports \in [Paths -> SUBSET Paths]

VARIABLES
  kind,      \* path -> what sys.modules holds for it
  linked,    \* paths whose parent has an attribute that is their module
  skipped,   \* _skipped_modules
  replaced,  \* paths a replace_import() call has replaced and returned
  stack,     \* the calls under way, innermost first
  ret        \* how the call that ended last did, or "none"

modules == <<kind, linked>>
vars == <<kind, linked, skipped, replaced, stack, ret>>

Frames ==
  [op : {"import", "replace"}, path : Paths,
   stage : {"find", "exec", "base", "parents"}, todo : SUBSET Paths]

Absent(p) == kind[p] = "absent"
TopLevel(p) == ParentOf[p] = Root
ParentKind(p) == IF TopLevel(p) THEN "root" ELSE kind[ParentOf[p]]

ImportTypeOK ==
  /\ kind \in [Paths -> Kinds]
  /\ linked \subseteq
       {p \in Paths : kind[p] # "absent" /\ ParentKind(p) \notin {"root", "absent"}}
  /\ skipped \subseteq {p \in Paths : kind[p] = "stub"}
  /\ replaced \subseteq {p \in Paths : kind[p] = "replaced"}
  /\ stack \in Seq(Frames)
  /\ ret \in {"none", "ok", "fail"}

\* Nothing of the model's paths is loaded when the entry script starts.
Init ==
  /\ kind = [p \in Paths |-> "absent"]
  /\ linked = {}
  /\ skipped = {}
  /\ replaced = {}
  /\ stack = <<>>
  /\ ret = "none"

-----------------------------------------------------------------------------
(* Calls *)

ChildrenOf(p) == {q \in Paths : ParentOf[q] = p}

\* find_spec can ask the parent for its __path__.
ParentHasPath(p) ==
  \/ ParentKind(p) \in {"root", "stub", "bare", "package"}
  \/ ParentKind(p) = "real" /\ ParentOf[p] \in Packages

ImportFrame(p)  == [op |-> "import", path |-> p, stage |-> "find", todo |-> {}]
ReplaceFrame(p) ==
  [op |-> "replace", path |-> p, stage |-> "base", todo |-> BaseImports[p]]

Top == Head(stack)
Running(op, stage) == stack # <<>> /\ Top.op = op /\ Top.stage = stage

Return(r) == stack' = Tail(stack) /\ ret' = r
Become(f) == stack' = <<f>> \o Tail(stack) /\ ret' = "none"

\* The innermost call, which goes on as f afterwards, imports q.
CallImport(f, q) == stack' = <<ImportFrame(q), f>> \o Tail(stack) /\ ret' = "none"

\* setattr(parent, name, module), where there is a parent.
Link(p) == linked' = IF TopLevel(p) THEN linked ELSE linked \cup {p}

\* sys.modules[p] = a new module object: nothing is linked to it or below it.
Register(p, k) == kind' = [kind EXCEPT ![p] = k]
Unlinked(p) == linked \ ({p} \cup ChildrenOf(p))

-----------------------------------------------------------------------------
(* Python's import machinery *)

Import(p) ==
  /\ stack = <<>>
  /\ stack' = <<ImportFrame(p)>> /\ ret' = "none"
  /\ UNCHANGED <<modules, skipped, replaced>>

Finding == Running("import", "find") /\ ret # "fail"

\* sys.modules is looked up before anything else, parents included.
AlreadyLoaded ==
  /\ Finding /\ ~Absent(Top.path)
  /\ Return("ok")
  /\ UNCHANGED <<modules, skipped, replaced>>

ImportParent ==
  /\ Finding /\ Absent(Top.path)
  /\ ParentKind(Top.path) = "absent"
  /\ CallImport(Top, ParentOf[Top.path])
  /\ UNCHANGED <<modules, skipped, replaced>>

\* The path-based finder locates a module on disk below a package whose
\* __path__ leads there.
Located(p) == p \in OnDisk /\ ParentKind(p) \in {"root", "real", "package"}

\* _StubModuleFinder: below a stub every path is a stub, whatever is on disk.
FindStub ==
  /\ Finding /\ Absent(Top.path)
  /\ ParentKind(Top.path) = "stub"
  /\ Register(Top.path, "stub") /\ Link(Top.path)
  /\ Return("ok")
  /\ UNCHANGED <<skipped, replaced>>

\* The module is in sys.modules while its body runs.
Load ==
  /\ Finding /\ Absent(Top.path) /\ Located(Top.path)
  /\ Register(Top.path, "real") /\ UNCHANGED linked
  /\ Become([Top EXCEPT !.stage = "exec", !.todo = BodyImports[Top.path]])
  /\ UNCHANGED <<skipped, replaced>>

\* The import of the parent failed, or no finder knows the path.
NotFound ==
  /\ Running("import", "find")
  /\ \/ ret = "fail"
     \/ /\ Absent(Top.path) /\ ~Located(Top.path)
        /\ ParentKind(Top.path) \notin {"absent", "stub"}
  /\ Return("fail")
  /\ UNCHANGED <<modules, skipped, replaced>>

\* A body may have caught the failure of an earlier import.
BodyImport(q) ==
  /\ Running("import", "exec") /\ q \in Top.todo
  /\ CallImport([Top EXCEPT !.todo = @ \ {q}], q)
  /\ UNCHANGED <<modules, skipped, replaced>>

BodyDone ==
  /\ Running("import", "exec")
  /\ Link(Top.path) /\ UNCHANGED kind
  /\ Return("ok")
  /\ UNCHANGED <<skipped, replaced>>

\* The module leaves sys.modules, what it has imported stays.
BodyRaises ==
  /\ Running("import", "exec")
  /\ ret = "fail" \/ Top.path \in Broken
  /\ Register(Top.path, "absent")
  /\ linked' = Unlinked(Top.path)
  /\ Return("fail")
  /\ UNCHANGED <<skipped, replaced>>

-----------------------------------------------------------------------------
(* skip_import() and stubs *)

\* Mutant: parents are not probed, every missing one becomes a stub.
NeverFound(p) == FALSE

\* What the probe with PathFinder finds of a parent that is not loaded: it
\* follows the __path__ of loaded parents and the locations of unloaded ones.
Probed(p) ==
  p \in OnDisk /\ \A q \in Above[p] : kind[q] \in {"absent", "real", "package"}

\* Mutant: a module that is loaded already is recorded as skipped.
RecordLoaded(p) ==
  /\ stack = <<>> /\ ~Absent(p)
  /\ skipped' = skipped \cup {p}
  /\ UNCHANGED <<modules, replaced, stack, ret>>

\* skip_import(p), _register_stub_module(p).  No module is executed.
SkipImport(p) ==
  /\ stack = <<>> /\ Absent(p)
  /\ LET stubs == {p} \cup {q \in Above[p] : Absent(q) /\ ~Probed(q)}
     IN /\ kind' = [q \in Paths |-> IF q \in stubs THEN "stub" ELSE kind[q]]
        /\ linked' = linked \cup
             {q \in stubs : ParentKind(q)' \notin {"root", "absent"}}
  /\ skipped' = skipped \cup {p}
  /\ UNCHANGED <<replaced, stack, ret>>

\* _StubModule.__getattr__ of the parent makes and registers a stub, and sets
\* no attribute.
TouchStub(p) ==
  /\ stack = <<>> /\ Absent(p)
  /\ ParentKind(p) = "stub"
  /\ Register(p, "stub")
  /\ UNCHANGED <<linked, skipped, replaced, stack, ret>>

-----------------------------------------------------------------------------
(* replace_import() *)

\* replace_import() past its lookup in sys.modules.
BeginReplace(p) ==
  /\ stack = <<>>
  /\ stack' = <<ReplaceFrame(p)>> /\ ret' = "none"
  /\ UNCHANGED <<modules, skipped, replaced>>

\* A module in sys.modules is not replaced; this is looked up only here.
StartReplace(p) == Absent(p) /\ BeginReplace(p)

\* The import of the replacement runs code, which may import.
ImportBase(q) ==
  /\ Running("replace", "base") /\ q \in Top.todo
  /\ CallImport([Top EXCEPT !.todo = @ \ {q}], q)
  /\ UNCHANGED <<modules, skipped, replaced>>

\* It raised something else than ImportError.
BaseRaises ==
  /\ Running("replace", "base") /\ ret = "fail"
  /\ Return("fail")
  /\ UNCHANGED <<modules, skipped, replaced>>

\* Mutant: the replacement is registered once its parents are imported.
RegisterLate ==
  \/ /\ Running("replace", "base")
     /\ Become([Top EXCEPT !.stage = "parents", !.todo = Above[Top.path]])
     /\ UNCHANGED <<modules, skipped, replaced>>
  \/ /\ Running("replace", "parents") /\ Top.todo = {}
     /\ Register(Top.path, "replaced")
     /\ UNCHANGED <<linked, skipped, replaced, stack, ret>>

\* The replacement enters sys.modules before its parents are imported.
RegisterLeaf ==
  /\ Running("replace", "base")
  /\ Register(Top.path, "replaced")
  /\ linked' = Unlinked(Top.path)
  /\ Become([Top EXCEPT !.stage = "parents", !.todo = Above[Top.path]])
  /\ UNCHANGED <<skipped, replaced>>

\* The ancestor the loop of _register_parent_packages has reached.
Reached(q) ==
  /\ Running("replace", "parents")
  /\ q \in Top.todo /\ Above[q] \cap Top.todo = {}

ImportAncestor(q) ==
  /\ Reached(q) /\ Absent(q) /\ ret # "fail"
  /\ CallImport(Top, q)
  /\ UNCHANGED <<modules, skipped, replaced>>

\* Mutant: the loop over the ancestors does not advance.
StayAtAncestor(q) ==
  /\ Link(q)
  /\ Become(Top)
  /\ UNCHANGED <<skipped, replaced>>

\* Mutant: ancestors are registered and not linked.
NextUnlinked(q) ==
  /\ Become([Top EXCEPT !.todo = @ \ {q}])
  /\ UNCHANGED <<linked, skipped, replaced>>

NextAncestor(q) ==
  /\ Link(q)
  /\ Become([Top EXCEPT !.todo = @ \ {q}])
  /\ UNCHANGED <<skipped, replaced>>

AncestorPresent(q) ==
  /\ Reached(q) /\ ~Absent(q)
  /\ NextAncestor(q) /\ UNCHANGED kind

\* An ancestor that cannot be imported is kept as a package with the locations
\* find_spec knows, or as one without any.
FallBack(q) ==
  /\ Reached(q) /\ Absent(q) /\ ret = "fail"
  /\ ParentHasPath(q)
  /\ Register(q, IF Located(q) /\ q \in Packages THEN "package" ELSE "bare")
  /\ NextAncestor(q)

\* find_spec raises below a module that is not a package, and replace_import()
\* with it; the replacement stays in sys.modules.
FallBackRaises(q) ==
  /\ Reached(q) /\ Absent(q) /\ ret = "fail"
  /\ ~ParentHasPath(q)
  /\ Return("fail")
  /\ UNCHANGED <<modules, skipped, replaced>>

ReplaceDone ==
  /\ Running("replace", "parents") /\ Top.todo = {}
  /\ Link(Top.path) /\ UNCHANGED kind
  /\ replaced' = replaced \cup {Top.path}
  /\ Return("ok")
  /\ UNCHANGED skipped

-----------------------------------------------------------------------------

\* One step of the call that is under way.
Proceed ==
  \/ AlreadyLoaded \/ ImportParent \/ FindStub \/ Load \/ NotFound
  \/ BodyDone \/ BodyRaises
  \/ BaseRaises \/ RegisterLeaf \/ ReplaceDone
  \/ \E q \in Paths :
       \/ BodyImport(q) \/ ImportBase(q)
       \/ ImportAncestor(q) \/ AncestorPresent(q)
       \/ FallBack(q) \/ FallBackRaises(q)

\* What the entry script calls.
Call ==
  \E p \in Paths : Import(p) \/ SkipImport(p) \/ TouchStub(p) \/ StartReplace(p)

Next == Call \/ Proceed
Spec == Init /\ [][Next]_vars /\ WF_vars(Proceed)

-----------------------------------------------------------------------------
(* Properties *)

\* skip_import() does not poison real packages: what is on disk is a stub only
\* if it was skipped by its own name, or if a module above it stands for
\* something else than the package on disk.
RealNotShadowed ==
  \A p \in OnDisk : kind[p] = "stub" =>
    p \in skipped \/ \E q \in Above[p] : kind[q] \in {"stub", "replaced", "bare"}

\* A module that was skipped is a stub for good: no import, replacement or
\* failed body of another module brings the original back.
SkipHolds == [][\A p \in skipped : kind'[p] = "stub"]_vars

\* Once replace_import(p) has returned, "import p" leads to the replacement
\* through the attributes of its packages, whatever happened to them since.
ReplacementReachable ==
  stack = <<>> =>
    \A p \in replaced : \A q \in {p} \cup Above[p] :
      ~Absent(q) /\ (TopLevel(q) \/ q \in linked)

\* A module whose original is loaded is never replaced under the modules that
\* hold it: replace_import() leaves what is in sys.modules alone.
LoadedNotReplaced ==
  [][\A p \in Paths : kind[p] = "real" => kind'[p] \in {"real", "absent"}]_vars

\* Importing a member of S imports none but members of S.
ClosedUnderImports(S) ==
  \A q \in S : /\ ParentOf[q] \in S \cup {Root}
               /\ q \in OnDisk => BodyImports[q] \subseteq S

\* No replacement imports the module on disk that it replaces.
BasesIndependent ==
  \A p \in Paths : \E S \in SUBSET Paths :
    ClosedUnderImports(S) /\ BaseImports[p] \subseteq S /\ p \notin S \cap OnDisk

\* A call of replace_import() or of the import machinery ends, even where
\* bodies import each other.
CallsEnd == stack # <<>> ~> stack = <<>>

\* What is documented of a skipped module: once its package is there, the
\* dotted name leads to the stub.
SkippedReachable ==
  stack = <<>> =>
    \A p \in skipped :
      ParentKind(p) \in {"root", "absent", "stub"} \/ p \in linked
=============================================================================
