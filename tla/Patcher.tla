------------------------------ MODULE Patcher ------------------------------
(***************************************************************************)
(* The patch manager of mx_driving (mx_driving/patcher/patcher.py) and the *)
(* effect of the patches it applies (mx_driving/patcher/patch.py).         *)
(*                                                                         *)
(* A patcher keeps a timeline of entries: Patch classes, whose patches()   *)
(* makes a batch of child patch objects on demand, and direct patch        *)
(* objects.  apply() runs once over the timeline; an exception in its      *)
(* middle leaves every effect in place and the patcher may be applied      *)
(* again.  Each piece of apply() between two calls that can raise is one   *)
(* action, and `pc' says which piece runs next.                            *)
(*                                                                         *)
(* What a patch does to the process is kept as the stack of layers each    *)
(* target attribute (a slot) carries: a wrapper goes on top of what it     *)
(* wraps, a replacement discards it.                                       *)
(***************************************************************************)
EXTENDS PatcherLogger, FiniteSets

CONSTANTS
  Names,          \* names disable() may be given
  Classes,        \* Patch classes, each identified with its name
  Atoms,          \* patches as written: AtomicPatch, RegistryPatch, LegacyPatch
  Slots,          \* attributes, dict keys and registry names patches target
  NameOf,         \* atom -> the name it is reported and disabled by
  Children,       \* class -> the atoms patches() returns
  Bootstrap,      \* classes with apply_before_collect
  Conflicts,      \* class -> the classes of its conflicts_with
  Flaky,          \* classes whose patches() may raise
  MainSlot,       \* atom -> its target
  Aliases,        \* atom -> the slots of its aliases
  Wrappers,       \* atoms that keep the original below: target_wrapper,
                  \* runtime_check, or a legacy function that wraps
  Legacy,         \* atoms that are a LegacyPatch
  Faults,         \* atom -> how else than "applied" it may end
  LoopAtoms,      \* the training-loop patches for the installed framework
  DirectAtoms,    \* bound: atoms the caller adds as patch objects
  Disablable,     \* bound: names the caller disables
  LogPolicies,    \* bound: event actions the caller configures beforehand
  BufferModes,    \* bound: values of _buffer_enabled
  LateAdds,       \* bound: whether the caller adds patches after an apply()
  MaxEntries,     \* bound: length of the timeline
  MaxBatches,     \* bound: patch objects and batches ever created
  MaxChildren,    \* bound: length of what patches() returns
  MaxSessions     \* bound: calls of apply() that do some work

Statuses == {"applied", "skipped", "failed", "raised"}
Objects  == (1..MaxBatches) \X (1..MaxChildren)
Positions == (1..MaxEntries) \X (1..MaxChildren)
Layers   == [atom : Atoms, obj : Objects, at : Positions]

ASSUME PatcherAssumption ==
  /\ Classes \subseteq Names
  /\ NameOf \in [Atoms -> Names]
  /\ Children \in [Classes -> Seq(Atoms)]
  /\ \A c \in Classes : Len(Children[c]) <= MaxChildren
  /\ Bootstrap \subseteq Classes
  /\ Conflicts \in [Classes -> SUBSET Classes]
  /\ Flaky \subseteq Classes
  /\ MainSlot \in [Atoms -> Slots]
  /\ Aliases \in [Atoms -> SUBSET Slots]
  /\ \A a \in Atoms : MainSlot[a] \notin Aliases[a]
  /\ Wrappers \subseteq Atoms
  /\ Legacy \subseteq Atoms
  /\ Faults \in [Atoms -> SUBSET {"skipped", "failed", "raised"}]
  /\ LoopAtoms \in Seq(Atoms)
  /\ DirectAtoms \subseteq Atoms
  /\ Disablable \subseteq Names
  /\ LogPolicies \subseteq [Events -> Actions]
  /\ BufferModes \subseteq BOOLEAN
  /\ LateAdds \in BOOLEAN
  /\ MaxEntries \in Nat
  /\ MaxBatches \in Nat
  /\ MaxChildren \in Nat \ {0}
  /\ MaxSessions \in Nat
  /\ Objects \subseteq PatchInfos

VARIABLES
  entries,     \* _entries
  blacklist,   \* _blacklist
  applied,     \* _applied
  loopWanted,  \* _profiling_options or _brake_step is set
  resolved,    \* _resolved_class_patches: entry -> its batch, 0 if not cached
  collected,   \* _collected_patches as a set of positions, or NotCollected
  made,        \* number of patch objects and batches created so far
  done,        \* the patch objects whose is_applied is True
  attr,        \* slot -> the layers on it, the outermost last
  pc,          \* what apply() or print_info() does next
  at,          \* loop index over the entries
  todo,        \* positions the current loop over patches has still to visit
  session      \* history: calls of apply() that found _applied false

timeline == <<entries, blacklist, loopWanted>>
caches == <<resolved, collected, made>>
effects == <<done, attr>>
control == <<pc, at, todo, session, applied>>
vars == <<timeline, caches, effects, control, loggerVars>>

NotCollected == {<<0, 0>>}

ClassEntry(c)     == [kind |-> "class", item |-> c, obj |-> 0]
DirectEntry(a, o) == [kind |-> "direct", item |-> a, obj |-> o]

Entries ==
  [kind : {"class"}, item : Classes, obj : {0}] \cup
  [kind : {"direct"}, item : Atoms, obj : 1..MaxBatches]

TypeOK ==
  /\ LoggerTypeOK
  /\ entries \in Seq(Entries) /\ Len(entries) <= MaxEntries
  /\ blacklist \subseteq Names
  /\ applied \in BOOLEAN
  /\ loopWanted \in BOOLEAN
  /\ resolved \in [1..MaxEntries -> 0..MaxBatches]
  /\ collected \in (SUBSET Positions) \cup {NotCollected}
  /\ made \in 0..MaxBatches
  /\ done \subseteq Objects
  /\ attr \in [Slots -> Seq(Layers)]
  /\ pc \in {"idle", "info", "check", "bootstrap", "collect", "run", "exited"}
  /\ at \in 1..(MaxEntries + 1)
  /\ todo \subseteq Positions
  /\ session \in 0..MaxSessions

Init ==
  /\ \E policy \in LogPolicies, mode \in BufferModes : LoggerStart(policy, mode)
  /\ entries = <<>>
  /\ blacklist = {}
  /\ applied = FALSE
  /\ loopWanted = FALSE
  /\ resolved = [i \in 1..MaxEntries |-> 0]
  /\ collected = NotCollected
  /\ made = 0
  /\ done = {}
  /\ attr = [s \in Slots |-> <<>>]
  /\ pc = "idle"
  /\ at = 1
  /\ todo = {}
  /\ session = 0

-----------------------------------------------------------------------------
(* Building the timeline *)

Kind(i) == entries[i].kind
ItemOf(i) == entries[i].item
ClassIndexes == {i \in DOMAIN entries : Kind(i) = "class"}

\* The class entries apply() looks at; a direct entry is disabled only by the
\* name of its patch, when its turn comes.
EnabledClassIndexes == {i \in ClassIndexes : ItemOf(i) \notin blacklist}

NothingCached == [i \in 1..MaxEntries |-> 0]

\* _invalidate_collection_cache, which a call of add() reaches unless one of
\* its later arguments is not a patch (TypeError).
Invalidate(completes) ==
  IF completes
    THEN resolved' = NothingCached /\ collected' = NotCollected
    ELSE UNCHANGED <<resolved, collected>>

MayAdd ==
  /\ pc = "idle"
  /\ Len(entries) < MaxEntries
  /\ LateAdds \/ session = 0

AddClass(c, completes) ==
  /\ MayAdd
  /\ entries' = Append(entries, ClassEntry(c))
  /\ Invalidate(completes)
  /\ UNCHANGED <<blacklist, loopWanted, made, effects, control, loggerVars>>

\* The caller makes a patch object and adds it.
AddDirect(a, completes) ==
  /\ MayAdd
  /\ made < MaxBatches
  /\ entries' = Append(entries, DirectEntry(a, made + 1))
  /\ made' = made + 1
  /\ Invalidate(completes)
  /\ UNCHANGED <<blacklist, loopWanted, effects, control, loggerVars>>

\* The caller adds an object it has added before.
AddSameObject(i, completes) ==
  /\ MayAdd
  /\ i \in DOMAIN entries /\ Kind(i) = "direct"
  /\ entries' = Append(entries, entries[i])
  /\ Invalidate(completes)
  /\ UNCHANGED <<blacklist, loopWanted, made, effects, control, loggerVars>>

\* disable() drops the collection but keeps the child objects.
Disable(n) ==
  /\ pc = "idle"
  /\ blacklist' = blacklist \cup {n}
  /\ collected' = NotCollected
  /\ UNCHANGED <<entries, loopWanted, resolved, made, effects, control, loggerVars>>

\* with_profiling() or brake_at().
WantLoopPatches ==
  /\ pc = "idle" /\ LoopAtoms # <<>>
  /\ loopWanted' = TRUE
  /\ UNCHANGED <<entries, blacklist, caches, effects, control, loggerVars>>

-----------------------------------------------------------------------------
(* Collecting *)

Arity(i) == IF Kind(i) = "class" THEN Len(Children[ItemOf(i)]) ELSE 1
AtomAt(p) ==
  IF Kind(p[1]) = "class" THEN Children[ItemOf(p[1])][p[2]] ELSE ItemOf(p[1])
ObjectAt(p) ==
  <<IF Kind(p[1]) = "class" THEN resolved[p[1]] ELSE entries[p[1]].obj, p[2]>>

\* Mutant: children counted from zero.
PatchesOfFromZero(i) == {i} \X (0..(Arity(i) - 1))

PatchesOf(i) == {i} \X (1..Arity(i))

\* _resolve_class_patches(i): the cached children, or a new batch of objects.
Resolve(i) ==
  IF resolved[i] # 0
    THEN UNCHANGED <<resolved, made>>
    ELSE /\ made < MaxBatches
         /\ resolved' = [resolved EXCEPT ![i] = made + 1]
         /\ made' = made + 1

\* patches() raises: nothing is cached for i and apply() or print_info() ends.
CollectionRaises(i) ==
  /\ ItemOf(i) \in Flaky /\ resolved[i] = 0
  /\ pc' = "idle" /\ at' = 1
  /\ UNCHANGED <<caches, todo>>

\* One turn of the loop of _collect_all_patches over the entries.
CollectEntry ==
  /\ pc \in {"collect", "info"}
  /\ at \in DOMAIN entries
  /\ IF at \in EnabledClassIndexes
       THEN \/ Resolve(at) /\ at' = at + 1 /\ UNCHANGED <<collected, pc, todo>>
            \/ CollectionRaises(at)
       ELSE at' = at + 1 /\ UNCHANGED <<caches, pc, todo>>
  /\ UNCHANGED <<timeline, effects, session, applied, loggerVars>>

\* Mutant: patch objects added directly are not collected.
GatheredClasses == UNION {PatchesOf(i) : i \in EnabledClassIndexes}

Gathered ==
  UNION {PatchesOf(i) : i \in EnabledClassIndexes \cup (DOMAIN entries \ ClassIndexes)}

\* The end of that loop: the collection is cached, and apply() goes over it.
Collected ==
  /\ pc \in {"collect", "info"}
  /\ at \notin DOMAIN entries
  /\ collected' = Gathered
  /\ IF pc = "collect" THEN pc' = "run" /\ todo' = Gathered
                       ELSE pc' = "idle" /\ UNCHANGED todo
  /\ at' = 1
  /\ UNCHANGED <<timeline, resolved, made, effects, session, applied, loggerVars>>

\* print_info() collects unless a collection is cached.
PrintInfo ==
  /\ pc = "idle" /\ collected = NotCollected
  /\ pc' = "info" /\ at' = 1
  /\ UNCHANGED <<timeline, caches, effects, todo, session, applied, loggerVars>>

-----------------------------------------------------------------------------
(* Applying one patch *)

Sites(a) == {MainSlot[a]} \cup Aliases[a]

\* The ways BasePatch.apply() can end and the slots it has then written.
\*  - AtomicPatch and RegistryPatch: the result is that of the main target,
\*    each alias is tried whatever came of it and its own result is dropped;
\*    an exception ends the loop over the aliases.
\*  - LegacyPatch: the function may have written anything, whether it returns
\*    or gives up, and its exceptions become results; only the import of its
\*    module raises.
Results(a) ==
  {r \in [status : {"applied"} \cup Faults[a], hit : SUBSET Sites(a)] :
     /\ r.status = "applied" => a \in Legacy \/ MainSlot[a] \in r.hit
     /\ r.status \in {"skipped", "failed"} =>
          a \in Legacy \/ MainSlot[a] \notin r.hit
     /\ r.status = "raised" =>
          r.hit = {} \/ (a \notin Legacy /\ ~(Aliases[a] \subseteq r.hit))}

Layered(ls, l) == IF l.atom \in Wrappers THEN Append(ls, l) ELSE <<l>>

Written(l, hit) ==
  [s \in Slots |-> IF s \in hit THEN Layered(attr[s], l) ELSE attr[s]]

\* Mutant: the flag waits for every alias.
FlagAfterAliases(a, o, r) ==
  IF r.status = "applied" /\ r.hit = Sites(a) THEN done \cup {o} ELSE done

\* is_applied is set when the main target took the patch.
FlagAfter(a, o, r) == IF r.status = "applied" THEN done \cup {o} ELSE done

\* Mutant: PatchError raised by the report of a failure goes no further.
LogSwallowed(e, p) ==
  LET first == Log(buf, e, p)
  IN IF first.out = "raise" THEN [first EXCEPT !.out = "ok"] ELSE first

\* An event reported inside the try block of _apply_single_patch: PatchError
\* raised by the logger there is itself reported, as a failure.
LogGuarded(e, p) ==
  LET first == Log(buf, e, p)
  IN IF first.out = "raise" THEN Log(first.buf, "failed", p) ELSE first

\* The loop goes on, or PatchError or SystemExit leaves apply().
Leave(p, r) ==
  /\ buf' = r.buf /\ rank' = r.rank /\ outcome' = r.out
  /\ pc' = IF r.out = "ok" THEN pc ELSE IF r.out = "raise" THEN "idle" ELSE "exited"
  /\ todo' = IF r.out = "ok" THEN todo \ {p} ELSE {}
  /\ at' = IF r.out = "ok" THEN at ELSE 1
  /\ UNCHANGED <<timeline, caches, session, applied, loggerConfig, emitted>>

Before(p, q) == p[1] < q[1] \/ (p[1] = q[1] /\ p[2] < q[2])

\* p is the patch whose turn it is.
Turn(p) ==
  /\ pc \in {"bootstrap", "run"}
  /\ p \in todo
  /\ \A q \in todo \ {p} : Before(p, q)

SkipDisabled(p) ==
  /\ Turn(p)
  /\ NameOf[AtomAt(p)] \in blacklist
  /\ Leave(p, Log(buf, "skipped", ObjectAt(p)))
  /\ UNCHANGED effects

\* Mutant: a patch that is already in effect is reported again.
PassOverReporting(p) ==
  /\ Turn(p)
  /\ NameOf[AtomAt(p)] \notin blacklist
  /\ ObjectAt(p) \in done
  /\ Leave(p, Log(buf, "applied", ObjectAt(p)))
  /\ UNCHANGED effects

\* Mutant: a patch that is already in effect is never taken off the list.
PassOverForever(p) ==
  /\ Turn(p)
  /\ NameOf[AtomAt(p)] \notin blacklist
  /\ ObjectAt(p) \in done
  /\ UNCHANGED vars

PassOver(p) ==
  /\ Turn(p)
  /\ NameOf[AtomAt(p)] \notin blacklist
  /\ ObjectAt(p) \in done
  /\ todo' = todo \ {p}
  /\ UNCHANGED <<timeline, caches, effects, pc, at, session, applied, loggerVars>>

Attempt(p, r) ==
  LET a == AtomAt(p)
      o == ObjectAt(p)
      e == IF r.status = "raised" THEN "failed" ELSE r.status
  IN /\ Turn(p)
     /\ NameOf[a] \notin blacklist
     /\ o \notin done
     /\ attr' = Written([atom |-> a, obj |-> o, at |-> p], r.hit)
     /\ done' = FlagAfter(a, o, r)
     /\ Leave(p, LogGuarded(e, o))

-----------------------------------------------------------------------------
(* apply() *)

\* _add_training_loop_patches makes new patch objects on every call.
WithLoopPatches ==
  entries \o [k \in 1..Len(LoopAtoms) |-> DirectEntry(LoopAtoms[k], made + k)]

\* apply() past its early return.
BeginApply ==
  /\ pc = "idle"
  /\ session < MaxSessions
  /\ session' = session + 1
  /\ IF loopWanted
       THEN /\ Len(WithLoopPatches) <= MaxEntries
            /\ made + Len(LoopAtoms) <= MaxBatches
            /\ entries' = WithLoopPatches
            /\ made' = made + Len(LoopAtoms)
            /\ Invalidate(TRUE)
       ELSE UNCHANGED <<entries, caches>>
  /\ pc' = "check" /\ at' = 1
  /\ UNCHANGED <<blacklist, loopWanted, effects, todo, applied, loggerVars>>

\* apply() returns at once when it has completed before.
StartApply == ~applied /\ BeginApply

\* Mutant: a class is compared only with those added after it.
ConflictWithLater ==
  \E i, j \in EnabledClassIndexes : i < j /\ ItemOf(j) \in Conflicts[ItemOf(i)]

\* _check_conflicts looks only at class entries.
ConflictFound ==
  \E i, j \in EnabledClassIndexes : ItemOf(j) \in Conflicts[ItemOf(i)]

CheckConflicts ==
  /\ pc = "check"
  /\ pc' = IF ConflictFound THEN "idle" ELSE "bootstrap"
  /\ UNCHANGED <<timeline, caches, effects, at, todo, session, applied, loggerVars>>

BootstrapIndexes == {i \in EnabledClassIndexes : ItemOf(i) \in Bootstrap}

\* One turn of the loop of _apply_bootstrap_patches over the entries.
BootstrapEntry ==
  /\ pc = "bootstrap" /\ todo = {}
  /\ at \in DOMAIN entries
  /\ IF at \in BootstrapIndexes
       THEN \/ Resolve(at) /\ todo' = PatchesOf(at) /\ at' = at + 1
               /\ UNCHANGED <<collected, pc>>
            \/ CollectionRaises(at)
       ELSE at' = at + 1 /\ UNCHANGED <<caches, pc, todo>>
  /\ UNCHANGED <<timeline, effects, session, applied, loggerVars>>

\* Mutant: a collection that is cached is not made again.
CollectUnlessCached ==
  /\ pc = "bootstrap" /\ todo = {}
  /\ at \notin DOMAIN entries
  /\ at' = 1
  /\ IF collected = NotCollected
       THEN pc' = "collect" /\ UNCHANGED todo
       ELSE pc' = "run" /\ todo' = collected
  /\ UNCHANGED <<timeline, caches, effects, session, applied, loggerVars>>

BootstrapDone ==
  /\ pc = "bootstrap" /\ todo = {}
  /\ at \notin DOMAIN entries
  /\ pc' = "collect" /\ at' = 1
  /\ UNCHANGED <<timeline, caches, effects, todo, session, applied, loggerVars>>

FinishApply ==
  /\ pc = "run" /\ todo = {}
  /\ applied' = TRUE
  /\ FlushSummary
  /\ pc' = "idle"
  /\ UNCHANGED <<timeline, caches, effects, at, todo, session,
                 loggerConfig, outcome>>

ApplyPatch ==
  \E p \in todo : \/ SkipDisabled(p)
                  \/ PassOver(p)
                  \/ \E r \in Results(AtomAt(p)) : Attempt(p, r)

\* What a call of apply() or print_info() does once it has begun.
Proceed ==
  \/ CheckConflicts
  \/ BootstrapEntry \/ BootstrapDone
  \/ CollectEntry \/ Collected
  \/ ApplyPatch
  \/ FinishApply

Call ==
  \/ \E c \in Classes, completes \in BOOLEAN : AddClass(c, completes)
  \/ \E a \in DirectAtoms, completes \in BOOLEAN : AddDirect(a, completes)
  \/ \E i \in DOMAIN entries, completes \in BOOLEAN : AddSameObject(i, completes)
  \/ \E n \in Disablable : Disable(n)
  \/ WantLoopPatches
  \/ PrintInfo
  \/ StartApply

Next == Call \/ Proceed

\* A call that has begun is executed by its thread: it does not stop between
\* two steps.  Nothing obliges the caller to make a call.
Spec == Init /\ [][Next]_vars /\ WF_vars(Proceed)

-----------------------------------------------------------------------------
(* Properties *)

\* The objects a buffered section reports.
Reported(e) == {buf[e][i] : i \in DOMAIN buf[e]}

\* Atoms that never leave an effect on their main target without the flag
\* is_applied: a LegacyPatch that may give up half way can, and so can a target
\* written before the write to an alias raises.
Flagged(a) ==
  \A r \in Results(a) : MainSlot[a] \in r.hit => r.status = "applied"

\* Once the conflict check has let apply() through, no two enabled Patch
\* classes of the timeline exclude each other, for as long as it applies them.
NoConflictWhileApplying ==
  pc \in {"bootstrap", "collect", "run"} =>
    \A i, j \in EnabledClassIndexes : ItemOf(j) \notin Conflicts[ItemOf(i)]

\* The layers of a slot that are there for their own target, not for an alias,
\* and whose patch flags what it does.
OwnLayers(s) ==
  {i \in DOMAIN attr[s] :
     MainSlot[attr[s][i].atom] = s /\ Flagged(attr[s][i].atom)}

\* No patch object is ever layered twice on its own target, whatever failed
\* and however often apply() was called again: is_applied stops it.
OncePerObject ==
  \A s \in Slots : \A i, j \in OwnLayers(s) :
    i # j => attr[s][i].obj # attr[s][j].obj

\* While events are buffered and apply() has not returned, the Applied section
\* holds exactly the objects whose is_applied flag is set, each of them once:
\* an attempt cut short loses no report, and a retry repeats none.
AppliedSectionExact ==
  buffered /\ ~applied =>
    /\ Reported("applied") = done
    /\ \A i, j \in DOMAIN buf["applied"] :
         i # j => buf["applied"][i] # buf["applied"][j]

\* When apply() is about to return, every patch of the timeline as it stands has
\* been reported, whatever collection was cached before: as applied if its flag
\* is set, otherwise as skipped or failed.
EveryPatchAccounted ==
  buffered /\ pc = "run" /\ todo = {} =>
    \A p \in Gathered :
      LET o == ObjectAt(p)
      IN o \in IF o \in done THEN Reported("applied")
               ELSE Reported("skipped") \cup Reported("failed")

\* A step that changes a target does so for a patch that is not disabled, by
\* its own name or by the name of its class.
DisabledStaysOut ==
  [][\A s \in Slots : attr'[s] # attr[s] =>
       LET l == attr'[s][Len(attr'[s])]
       IN /\ NameOf[l.atom] \notin blacklist
          /\ Kind(l.at[1]) = "class" => ItemOf(l.at[1]) \notin blacklist]_vars

\* Under on_fail="exception" an attempt that fails ends apply() at once, with
\* the patcher not applied, whether the patch failed by its result or raised.
StrictFailureStops ==
  [][\A p \in todo :
       /\ action["failed"] = "exception"
       /\ \E r \in Results(AtomAt(p)) :
            r.status \in {"failed", "raised"} /\ Attempt(p, r)
       => pc' = "idle" /\ ~applied']_vars

\* A call of apply() comes to an end: it returns, raises or ends the process.
ApplyEnds == pc = "check" ~> pc \in {"idle", "exited"}

\* What the tests promise of a second apply(): one patch of one entry is never
\* layered twice on its target.
NeverNested ==
  \A s \in Slots : \A i, j \in DOMAIN attr[s] :
    i # j /\ MainSlot[attr[s][i].atom] = s => attr[s][i].at # attr[s][j].at
=============================================================================
