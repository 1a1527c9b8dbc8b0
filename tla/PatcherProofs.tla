--------------------------- MODULE PatcherProofs ---------------------------
(***************************************************************************)
(* Proofs about Patcher for every set of patches, every timeline and every *)
(* choice of event actions: the types and the reports of its logger        *)
(* (PatcherLogger), its own types, its safety properties, and that every   *)
(* behaviour of it is one of ApplyContract.                                *)
(***************************************************************************)
EXTENDS PatcherRefinement, TLAPS

-----------------------------------------------------------------------------
(* The logger: the pieces of a step *)

LEMMA RankTypes ==
  ASSUME LoggerTypeOK
  PROVE  /\ KnownRank \in Ranks
         /\ \A act \in Actions : RankAfter(act) \in Ranks \cup {Unset} /\ Handle(act) \in Outcomes
BY DEF LoggerTypeOK, KnownRank, RankAfter, Handle, Outcomes

LEMMA EmptyTyped == EmptyBuffers \in [Sections -> Seq(PatchInfos)]
<1>1. <<>> \in Seq(PatchInfos)
  OBVIOUS
<1> QED BY <1>1 DEF EmptyBuffers

\* One more event in one section.
LEMMA AppendTyped ==
  ASSUME LoggerTypeOK, NEW s \in Sections, NEW p \in PatchInfos
  PROVE  LET b == [buf EXCEPT ![s] = Append(@, p)]
         IN  /\ b \in [Sections -> Seq(PatchInfos)] /\ b[s] = Append(buf[s], p)
             /\ \A t \in Sections : t # s => b[t] = buf[t]
<1>1. buf \in [Sections -> Seq(PatchInfos)] /\ Append(buf[s], p) \in Seq(PatchInfos)
  BY DEF LoggerTypeOK
<1> QED BY <1>1

LEMMA SummaryTyped ==
  ASSUME LoggerTypeOK
  PROVE  Summary \in [Sections -> Seq(PatchInfos)]
<1>1. <<>> \in Seq(PatchInfos)
  OBVIOUS
<1> QED BY <1>1 DEF Summary, LoggerTypeOK

\* A call of applied(), skipped() or failed().
LEMMA EventEffect ==
  ASSUME LoggerTypeOK, NEW e \in Events, NEW p \in PatchInfos, LogEvent(e, p)
  PROVE  /\ rank' \in Ranks \cup {Unset} /\ outcome' \in Outcomes
         /\ buf' = buf \/ buf' = [buf EXCEPT ![e] = Append(@, p)]
         /\ UNCHANGED <<loggerConfig, emitted>>
<1>1. action[e] \in Actions /\ rank \in Ranks \cup {Unset} /\ "ok" \in Outcomes
  BY DEF LoggerTypeOK, Outcomes
<1>2. CASE Immediate(e)
  BY <1>1, <1>2, RankTypes DEF LogEvent, Log
<1>3. CASE ~Immediate(e)
  BY <1>1, <1>3 DEF LogEvent, Log
<1> QED BY <1>2, <1>3

-----------------------------------------------------------------------------
(* The logger: theorems *)

LEMMA LoggerTypeInit == LoggerInit => LoggerTypeOK
<1> SUFFICES ASSUME LoggerInit PROVE LoggerTypeOK
  OBVIOUS
<1>1. show \in [Sections -> Flags]
  BY DEF LoggerInit, LoggerStart, Flags
<1>2. buffered \in BOOLEAN /\ summaryOn \in BOOLEAN
  BY DEF LoggerInit, LoggerStart
<1>3. /\ action \in [Events -> Actions] /\ emitted = NoSummary /\ outcome \in Outcomes
      /\ envRank \in Ranks /\ rank = Unset /\ buf = EmptyBuffers
  BY DEF LoggerInit, LoggerStart, Actions, Outcomes
<1> QED BY <1>1, <1>2, <1>3, EmptyTyped DEF LoggerTypeOK

LEMMA LoggerTypeStep == LoggerTypeOK /\ [LoggerNext]_loggerVars => LoggerTypeOK'
<1> SUFFICES ASSUME LoggerTypeOK, [LoggerNext]_loggerVars PROVE LoggerTypeOK'
  OBVIOUS
<1>1. ASSUME NEW e \in Events, NEW p \in PatchInfos, LogEvent(e, p) PROVE LoggerTypeOK'
  <2>1. e \in Sections
    BY DEF Sections
  <2>2. buf' \in [Sections -> Seq(PatchInfos)]
    <3>1. [buf EXCEPT ![e] = Append(@, p)] \in [Sections -> Seq(PatchInfos)]
      BY <2>1, AppendTyped
    <3>2. buf' = buf \/ buf' = [buf EXCEPT ![e] = Append(@, p)]
      BY <1>1, EventEffect
    <3>3. buf \in [Sections -> Seq(PatchInfos)]
      BY DEF LoggerTypeOK
    <3> QED BY <3>1, <3>2, <3>3
  <2> QED BY <1>1, <2>2, EventEffect DEF LoggerTypeOK, loggerConfig
<1>2. ASSUME NEW p \in PatchInfos, RecordImport(p) PROVE LoggerTypeOK'
  <2>1. "imports" \in Sections /\ "ok" \in Outcomes
    BY DEF Sections, Outcomes
  <2>2. buf' \in [Sections -> Seq(PatchInfos)]
    BY <1>2, <2>1, AppendTyped DEF RecordImport
  <2> QED BY <1>2, <2>1, <2>2 DEF RecordImport, LoggerTypeOK, loggerConfig
<1>3. ASSUME NEW e \in ConfigEvents, NEW act \in Actions, Configure(e, act) PROVE LoggerTypeOK'
  BY <1>3 DEF Configure, LoggerTypeOK
<1>4. ASSUME NEW on \in BOOLEAN, SetBufferEnabled(on) PROVE LoggerTypeOK'
  BY <1>4 DEF SetBufferEnabled, LoggerTypeOK
<1>5. ASSUME NEW r \in Ranks, SetRank(r) \/ ExportRank(r) PROVE LoggerTypeOK'
  BY <1>5 DEF SetRank, ExportRank, LoggerTypeOK, loggerConfig
<1>6. CASE SetRankFromEnv
  BY <1>6 DEF SetRankFromEnv, SetRank, LoggerTypeOK, loggerConfig
<1>7. ASSUME NEW on \in BOOLEAN, NEW s \in ConfigSections, NEW flag \in {"on", "off"},
             ConfigureSummary(on, s, flag)
      PROVE  LoggerTypeOK'
  <2>1. show' \in [Sections -> Flags] /\ summaryOn' \in BOOLEAN
    BY <1>7 DEF ConfigureSummary, LoggerTypeOK, Flags
  <2> QED BY <1>7, <2>1 DEF ConfigureSummary, LoggerTypeOK
<1>8. CASE Flush
  <2>1. buf' \in [Sections -> Seq(PatchInfos)] /\ rank' \in Ranks
    BY <1>8, EmptyTyped, RankTypes DEF Flush, FlushSummary
  <2>2. emitted' \in [Sections -> Seq(PatchInfos)] \cup {NoSummary}
    BY <1>8, SummaryTyped DEF Flush, FlushSummary, LoggerTypeOK
  <2> QED BY <1>8, <2>1, <2>2 DEF Flush, LoggerTypeOK, loggerConfig
<1>9. CASE UNCHANGED loggerVars
  BY <1>9 DEF loggerVars, loggerConfig, LoggerTypeOK
<1> QED BY <1>1, <1>2, <1>3, <1>4, <1>5, <1>6, <1>7, <1>8, <1>9 DEF LoggerNext

\* Every variable of the logger keeps its type.
THEOREM LoggerTypes == LoggerSpec => []LoggerTypeOK
BY LoggerTypeInit, LoggerTypeStep, PTL DEF LoggerSpec

\* A failure that is to raise or to end the process is never buffered away.
THEOREM FailureStops == LoggerSpec => FailureNeverSwallowed
<1> DEFINE Stops == \A p \in PatchInfos : LogEvent("failed", p) =>
                      /\ action["failed"] = "exception" => outcome' = "raise"
                      /\ action["failed"] = "exit" => outcome' = "exit"
<1>1. [LoggerNext]_loggerVars => [Stops]_loggerVars
  BY DEF LogEvent, Log, Immediate, Handle
<1>2. LoggerSpec => [][Stops]_loggerVars
  BY <1>1, PTL DEF LoggerSpec
<1> QED BY <1>2 DEF FailureNeverSwallowed

\* Between two flushes the buffers only grow, one event at a time; a flush leaves
\* nothing that a later one could repeat, and rank 0 shows what was asked for.
THEOREM NothingLost == LoggerSpec => NoEventLost
<1> DEFINE Kept ==
             \/ \A s \in Sections :
                  buf'[s] = buf[s] \/ \E p \in PatchInfos : buf'[s] = Append(buf[s], p)
             \/ /\ buf' = EmptyBuffers
                /\ \A s \in Sections :
                     AskedFor(s) /\ rank' = 0 => emitted' # NoSummary /\ emitted'[s] = buf[s]
<1>1. LoggerTypeOK /\ [LoggerNext]_loggerVars => Kept
  <2> SUFFICES ASSUME LoggerTypeOK, [LoggerNext]_loggerVars PROVE Kept
    OBVIOUS
  <2>1. ASSUME NEW e \in Events, NEW p \in PatchInfos, LogEvent(e, p) PROVE Kept
    <3>1. e \in Sections
      BY DEF Sections
    <3> QED BY <2>1, <3>1, EventEffect, AppendTyped
  <2>2. ASSUME NEW p \in PatchInfos, RecordImport(p) PROVE Kept
    <3>1. "imports" \in Sections
      BY DEF Sections
    <3> QED BY <2>2, <3>1, AppendTyped DEF RecordImport
  <2>3. CASE Flush
    <3>1. /\ buf' = EmptyBuffers /\ rank' = KnownRank
          /\ emitted' = IF KnownRank = 0 /\ summaryOn /\ Visible # {} THEN Summary ELSE emitted
      BY <2>3 DEF Flush, FlushSummary
    <3>2. ASSUME NEW s \in Sections, AskedFor(s), rank' = 0
          PROVE  emitted' # NoSummary /\ emitted'[s] = buf[s]
      <4>1. s \in Visible
        BY <3>2 DEF AskedFor, Visible, SectionShown
      <4>2. emitted' = Summary /\ Summary[s] = buf[s]
        BY <3>1, <3>2, <4>1 DEF AskedFor, Summary
      <4>3. buf[s] \in Seq(PatchInfos) /\ buf[s] # <<>>
        BY <3>2 DEF AskedFor, LoggerTypeOK
      <4>4. emitted'[s] = buf[s] /\ DOMAIN emitted' = Sections
        BY <4>2 DEF Summary
      <4>5. Sections # DOMAIN NoSummary
        BY DEF Sections, Events, NoSummary
      <4> QED BY <4>4, <4>5
    <3> QED BY <3>1, <3>2
  <2>4. CASE buf' = buf
    BY <2>4
  <2> QED BY <2>1, <2>2, <2>3, <2>4
          DEF LoggerNext, Configure, SetBufferEnabled, SetRank, ExportRank, SetRankFromEnv,
              ConfigureSummary, loggerVars
<1>2. LoggerSpec => [][Kept]_loggerVars
  BY <1>1, LoggerTypes, PTL DEF LoggerSpec
<1> QED BY <1>2 DEF NoEventLost

\* Only rank 0 writes a summary, of whole sections, and nothing of an event
\* that is silent unless its section was asked for.
THEOREM SummaryExact == LoggerSpec => SummaryHonest
<1> DEFINE Honest == emitted' # emitted =>
             /\ rank' = 0
             /\ \A s \in Sections : emitted'[s] \in {<<>>, buf[s]}
             /\ \A e \in Events :
                  action[e] = "silent" /\ show[e] = "auto" => emitted'[e] = <<>>
<1>1. [LoggerNext]_loggerVars => Honest
  <2> SUFFICES ASSUME [LoggerNext]_loggerVars, emitted' # emitted
               PROVE  /\ rank' = 0
                      /\ \A s \in Sections : emitted'[s] \in {<<>>, buf[s]}
                      /\ \A e \in Events :
                           action[e] = "silent" /\ show[e] = "auto" => emitted'[e] = <<>>
    OBVIOUS
  <2>1. FlushSummary
    BY DEF LoggerNext, LogEvent, RecordImport, Configure, SetBufferEnabled, SetRank, ExportRank,
           SetRankFromEnv, ConfigureSummary, Flush, loggerVars
  <2>2. rank' = 0 /\ emitted' = Summary
    BY <2>1 DEF FlushSummary
  <2>3. \A s \in Sections : emitted'[s] \in {<<>>, buf[s]}
    BY <2>2 DEF Summary
  <2>4. ASSUME NEW e \in Events, action[e] = "silent", show[e] = "auto" PROVE emitted'[e] = <<>>
    <3>1. e \in Sections /\ e \notin Visible
      BY <2>4 DEF Sections, Visible, SectionShown
    <3> QED BY <2>2, <3>1 DEF Summary
  <2> QED BY <2>2, <2>3, <2>4
<1>2. LoggerSpec => [][Honest]_loggerVars
  BY <1>1, PTL DEF LoggerSpec
<1> QED BY <1>2 DEF SummaryHonest

-----------------------------------------------------------------------------
(* The patcher *)

\* What the control state says of the patches still to visit: they belong to
\* entries of the timeline, their class is enabled and its children exist.
PendingPatches ==
  \A p \in todo :
    /\ p[1] \in DOMAIN entries
    /\ p[2] \in 1..Arity(p[1])
    /\ Kind(p[1]) = "class" => resolved[p[1]] # 0 /\ ItemOf(p[1]) \notin blacklist

\* While a loop over the entries collects, what it has passed is resolved.
PassedEntriesResolved ==
  pc \in {"collect", "info"} =>
    \A i \in EnabledClassIndexes : i < at => resolved[i] # 0

ControlInv ==
  /\ pc \notin {"bootstrap", "run"} => todo = {}
  /\ PendingPatches
  /\ PassedEntriesResolved

-----------------------------------------------------------------------------
(* Typing of the helpers *)

LEMMA LogType ==
  ASSUME LoggerTypeOK, NEW e \in Events, NEW p \in PatchInfos,
         NEW b \in [Sections -> Seq(PatchInfos)]
  PROVE  /\ Log(b, e, p).buf \in [Sections -> Seq(PatchInfos)]
         /\ Log(b, e, p).rank \in Ranks \cup {Unset}
         /\ Log(b, e, p).out \in Outcomes
<1>1. e \in Sections /\ b[e] \in Seq(PatchInfos)
  BY DEF Sections
<1>2. Append(b[e], p) \in Seq(PatchInfos)
  BY <1>1
<1>3. [b EXCEPT ![e] = Append(@, p)] \in [Sections -> Seq(PatchInfos)]
  BY <1>1, <1>2
<1>4. RankAfter(action[e]) \in Ranks \cup {Unset}
  BY DEF LoggerTypeOK, RankAfter, KnownRank
<1>5. Handle(action[e]) \in Outcomes
  BY DEF LoggerTypeOK, Handle, Outcomes, Actions
<1>6. rank \in Ranks \cup {Unset} /\ "ok" \in Outcomes
  BY DEF LoggerTypeOK, Outcomes
<1>7. CASE Immediate(e)
  BY <1>4, <1>5, <1>7 DEF Log
<1>8. CASE ~Immediate(e)
  BY <1>3, <1>6, <1>8 DEF Log
<1> QED BY <1>7, <1>8

LEMMA LogGuardedType ==
  ASSUME LoggerTypeOK, NEW e \in Events, NEW p \in PatchInfos
  PROVE  /\ LogGuarded(e, p).buf \in [Sections -> Seq(PatchInfos)]
         /\ LogGuarded(e, p).rank \in Ranks \cup {Unset}
         /\ LogGuarded(e, p).out \in Outcomes
<1>1. buf \in [Sections -> Seq(PatchInfos)] /\ "failed" \in Events
  BY DEF LoggerTypeOK, Events
<1>2. Log(buf, e, p).buf \in [Sections -> Seq(PatchInfos)]
  BY <1>1, LogType
<1>3. /\ Log(Log(buf, e, p).buf, "failed", p).buf \in [Sections -> Seq(PatchInfos)]
      /\ Log(Log(buf, e, p).buf, "failed", p).rank \in Ranks \cup {Unset}
      /\ Log(Log(buf, e, p).buf, "failed", p).out \in Outcomes
  BY <1>1, <1>2, LogType
<1>4. /\ Log(buf, e, p).rank \in Ranks \cup {Unset}
      /\ Log(buf, e, p).out \in Outcomes
  BY <1>1, LogType
<1> QED BY <1>2, <1>3, <1>4 DEF LogGuarded

LEMMA EntryFacts ==
  ASSUME TypeOK, NEW i \in DOMAIN entries
  PROVE  /\ i \in 1..MaxEntries /\ i \in 1..Len(entries)
         /\ entries[i] \in Entries
         /\ Kind(i) \in {"class", "direct"}
         /\ Kind(i) = "class" => ItemOf(i) \in Classes
         /\ Kind(i) = "direct" => ItemOf(i) \in Atoms /\ entries[i].obj \in 1..MaxBatches
         /\ Arity(i) \in 0..MaxChildren
<1> USE PatcherAssumption
<1>1. i \in 1..Len(entries) /\ i \in 1..MaxEntries /\ entries[i] \in Entries
  BY DEF TypeOK
<1>2. CASE entries[i] \in [kind : {"class"}, item : Classes, obj : {0}]
  BY <1>1, <1>2 DEF Kind, ItemOf, Arity
<1>3. CASE entries[i] \in [kind : {"direct"}, item : Atoms, obj : 1..MaxBatches]
  BY <1>1, <1>3 DEF Kind, ItemOf, Arity
<1> QED BY <1>1, <1>2, <1>3 DEF Entries

LEMMA PatchFacts ==
  ASSUME TypeOK, PendingPatches, NEW p \in todo
  PROVE  AtomAt(p) \in Atoms /\ ObjectAt(p) \in Objects /\ ObjectAt(p) \in PatchInfos
<1> USE PatcherAssumption
<1> DEFINE i == p[1]
           k == p[2]
<1>1. i \in DOMAIN entries /\ k \in 1..Arity(i) /\ p \in Positions
  BY DEF PendingPatches, TypeOK
<1>2. CASE Kind(i) = "class"
  <2>1. resolved[i] \in 1..MaxBatches
    BY <1>1, <1>2, EntryFacts DEF TypeOK, PendingPatches
  <2>2. Children[ItemOf(i)] \in Seq(Atoms) /\ k \in 1..Len(Children[ItemOf(i)])
    BY <1>1, <1>2, EntryFacts DEF Arity
  <2>3. k \in 1..MaxChildren
    BY <1>1, EntryFacts
  <2> QED BY <1>2, <2>1, <2>2, <2>3 DEF AtomAt, ObjectAt, Objects
<1>3. CASE Kind(i) = "direct"
  <2>1. k \in 1..MaxChildren
    BY <1>1, EntryFacts
  <2> QED BY <1>1, <1>3, <2>1, EntryFacts DEF AtomAt, ObjectAt, Objects
<1> QED BY <1>1, <1>2, <1>3, EntryFacts

-----------------------------------------------------------------------------
(* Type correctness, together with the control facts it rests on *)

CoreInv == TypeOK /\ ControlInv

LEMMA CoreInit == Init => CoreInv
<1> SUFFICES ASSUME Init PROVE CoreInv
  OBVIOUS
<1> USE PatcherAssumption, LoggerAssumption
<1>1. PICK policy \in LogPolicies, mode \in BufferModes : LoggerStart(policy, mode)
  BY DEF Init
<1>2. LoggerTypeOK
  BY <1>1 DEF LoggerStart, LoggerTypeOK, EmptyBuffers, NoSummary, Flags, Outcomes
<1>3. TypeOK
  <2>1. entries \in Seq(Entries) /\ Len(entries) <= MaxEntries
    BY DEF Init
  <2>2. attr \in [Slots -> Seq(Layers)]
    BY DEF Init
  <2>3. made \in 0..MaxBatches /\ session \in 0..MaxSessions
    BY DEF Init
  <2>4. resolved \in [1..MaxEntries -> 0..MaxBatches] /\ at \in 1..(MaxEntries + 1)
    BY DEF Init
  <2> QED BY <1>2, <2>1, <2>2, <2>3, <2>4 DEF Init, TypeOK
<1>4. ControlInv
  BY DEF Init, ControlInv, PendingPatches, PassedEntriesResolved
<1> QED BY <1>3, <1>4 DEF CoreInv

\* A step that leaves the logger alone leaves it well typed.
LEMMA LoggerUnchanged ==
  ASSUME LoggerTypeOK, UNCHANGED loggerVars PROVE LoggerTypeOK'
BY DEF LoggerTypeOK, loggerVars, loggerConfig

\* No call the caller makes between two applications has anything to visit.
LEMMA IdleControl ==
  ASSUME ControlInv, pc = "idle", pc' \in {"idle", "check"}, UNCHANGED todo
  PROVE  ControlInv'
BY DEF ControlInv, PendingPatches, PassedEntriesResolved

LEMMA InvalidateType ==
  ASSUME TypeOK, NEW completes \in BOOLEAN, Invalidate(completes)
  PROVE  /\ resolved' \in [1..MaxEntries -> 0..MaxBatches]
         /\ collected' \in (SUBSET Positions) \cup {NotCollected}
BY PatcherAssumption DEF TypeOK, Invalidate, NothingCached

LEMMA TimelineSteps ==
  ASSUME CoreInv,
         \/ \E c \in Classes, completes \in BOOLEAN : AddClass(c, completes)
         \/ \E a \in DirectAtoms, completes \in BOOLEAN : AddDirect(a, completes)
         \/ \E i \in DOMAIN entries, completes \in BOOLEAN : AddSameObject(i, completes)
         \/ \E n \in Disablable : Disable(n)
         \/ WantLoopPatches
  PROVE  CoreInv'
<1> USE PatcherAssumption
<1>1. ASSUME NEW c \in Classes, NEW completes \in BOOLEAN, AddClass(c, completes)
      PROVE  CoreInv'
  <2>1. ClassEntry(c) \in Entries
    BY DEF ClassEntry, Entries
  <2>2. entries' \in Seq(Entries) /\ Len(entries') <= MaxEntries
    BY <1>1, <2>1 DEF AddClass, MayAdd, CoreInv, TypeOK
  <2>3. TypeOK'
    BY <1>1, <2>2, InvalidateType, LoggerUnchanged
       DEF AddClass, CoreInv, TypeOK, effects, control
  <2>4. ControlInv'
    BY <1>1, IdleControl DEF AddClass, MayAdd, CoreInv, control
  <2> QED BY <2>3, <2>4 DEF CoreInv
<1>2. ASSUME NEW a \in DirectAtoms, NEW completes \in BOOLEAN, AddDirect(a, completes)
      PROVE  CoreInv'
  <2>1. made + 1 \in 1..MaxBatches
    BY <1>2 DEF AddDirect, CoreInv, TypeOK
  <2>2. DirectEntry(a, made + 1) \in Entries
    BY <2>1 DEF DirectEntry, Entries
  <2>3. entries' \in Seq(Entries) /\ Len(entries') <= MaxEntries
    BY <1>2, <2>2 DEF AddDirect, MayAdd, CoreInv, TypeOK
  <2>4. TypeOK'
    BY <1>2, <2>1, <2>3, InvalidateType, LoggerUnchanged
       DEF AddDirect, CoreInv, TypeOK, effects, control
  <2>5. ControlInv'
    BY <1>2, IdleControl DEF AddDirect, MayAdd, CoreInv, control
  <2> QED BY <2>4, <2>5 DEF CoreInv
<1>3. ASSUME NEW i \in DOMAIN entries, NEW completes \in BOOLEAN, AddSameObject(i, completes)
      PROVE  CoreInv'
  <2>1. entries' \in Seq(Entries) /\ Len(entries') <= MaxEntries
    BY <1>3 DEF AddSameObject, MayAdd, CoreInv, TypeOK
  <2>2. TypeOK'
    BY <1>3, <2>1, InvalidateType, LoggerUnchanged
       DEF AddSameObject, CoreInv, TypeOK, effects, control
  <2>3. ControlInv'
    BY <1>3, IdleControl DEF AddSameObject, MayAdd, CoreInv, control
  <2> QED BY <2>2, <2>3 DEF CoreInv
<1>4. ASSUME NEW n \in Disablable, Disable(n)
      PROVE  CoreInv'
  <2>1. TypeOK'
    BY <1>4, LoggerUnchanged DEF Disable, CoreInv, TypeOK, effects, control
  <2>2. ControlInv'
    BY <1>4, IdleControl DEF Disable, CoreInv, control
  <2> QED BY <2>1, <2>2 DEF CoreInv
<1>5. ASSUME WantLoopPatches
      PROVE  CoreInv'
  <2>1. TypeOK'
    BY <1>5, LoggerUnchanged DEF WantLoopPatches, CoreInv, TypeOK, caches, effects, control
  <2>2. ControlInv'
    BY <1>5, IdleControl DEF WantLoopPatches, CoreInv, control
  <2> QED BY <2>1, <2>2 DEF CoreInv
<1> QED BY <1>1, <1>2, <1>3, <1>4, <1>5

\* Resolving the entry at hand caches a batch for it and disturbs no other.
LEMMA ResolveFacts ==
  ASSUME TypeOK, NEW i \in DOMAIN entries, Resolve(i)
  PROVE  /\ resolved' \in [1..MaxEntries -> 0..MaxBatches]
         /\ made' \in 0..MaxBatches
         /\ resolved'[i] # 0
         /\ \A j \in 1..MaxEntries : j # i => resolved'[j] = resolved[j]
         /\ \A j \in 1..MaxEntries : resolved[j] # 0 => resolved'[j] = resolved[j]
<1> USE PatcherAssumption
<1>1. i \in 1..MaxEntries
  BY EntryFacts
<1>2. CASE resolved[i] # 0
  BY <1>1, <1>2 DEF TypeOK, Resolve
<1>3. CASE resolved[i] = 0
  <2>1. made + 1 \in 1..MaxBatches /\ made' = made + 1
    BY <1>3 DEF TypeOK, Resolve
  <2>2. resolved' = [resolved EXCEPT ![i] = made + 1]
    BY <1>3 DEF Resolve
  <2> QED BY <1>1, <1>3, <2>1, <2>2 DEF TypeOK
<1> QED BY <1>2, <1>3

LEMMA CollectEntryStep ==
  ASSUME CoreInv, CollectEntry
  PROVE  CoreInv'
<1> USE PatcherAssumption
<1>0. TypeOK /\ ControlInv /\ at \in DOMAIN entries /\ pc \in {"collect", "info"}
  BY DEF CoreInv, CollectEntry
<1>1. at \in 1..MaxEntries /\ at + 1 \in 1..(MaxEntries + 1) /\ at \in Nat
  BY <1>0, EntryFacts
<1>2. UNCHANGED <<timeline, effects, session, applied, loggerVars>>
  BY DEF CollectEntry
<1>3. todo = {}
  BY <1>0 DEF ControlInv
<1>4. CASE CollectionRaises(at)
  <2>1. TypeOK'
    BY <1>0, <1>2, <1>4, LoggerUnchanged
       DEF TypeOK, CollectionRaises, timeline, caches, effects
  <2>2. ControlInv'
    BY <1>3, <1>4 DEF ControlInv, PendingPatches, PassedEntriesResolved, CollectionRaises
  <2> QED BY <2>1, <2>2 DEF CoreInv
<1>5. CASE at \in EnabledClassIndexes /\ Resolve(at) /\ at' = at + 1
           /\ UNCHANGED <<collected, pc, todo>>
  <2>1. TypeOK'
    BY <1>0, <1>1, <1>2, <1>5, ResolveFacts, LoggerUnchanged
       DEF TypeOK, timeline, effects
  <2>2. \A i \in EnabledClassIndexes : i < at + 1 => resolved'[i] # 0
    <3>1. TAKE i \in EnabledClassIndexes
    <3>2. HAVE i < at + 1
    <3>3. i \in DOMAIN entries /\ i \in 1..MaxEntries
      BY <1>0, EntryFacts DEF EnabledClassIndexes, ClassIndexes
    <3>4. i = at \/ i < at
      BY <1>1, <3>2, <3>3
    <3>5. CASE i = at
      BY <1>0, <1>5, <3>5, ResolveFacts
    <3>6. CASE i < at
      BY <1>0, <1>5, <3>3, <3>6, ResolveFacts DEF ControlInv, PassedEntriesResolved
    <3> QED BY <3>4, <3>5, <3>6
  <2>3. EnabledClassIndexes' = EnabledClassIndexes
    BY <1>2 DEF EnabledClassIndexes, ClassIndexes, Kind, ItemOf, timeline
  <2>4. ControlInv'
    BY <1>0, <1>3, <1>5, <2>2, <2>3 DEF ControlInv, PendingPatches, PassedEntriesResolved
  <2> QED BY <2>1, <2>4 DEF CoreInv
<1>6. CASE at \notin EnabledClassIndexes /\ at' = at + 1 /\ UNCHANGED <<caches, pc, todo>>
  <2>1. TypeOK'
    BY <1>0, <1>1, <1>2, <1>6, LoggerUnchanged DEF TypeOK, timeline, caches, effects
  <2>2. \A i \in EnabledClassIndexes : i < at + 1 => resolved[i] # 0
    <3>1. TAKE i \in EnabledClassIndexes
    <3>2. HAVE i < at + 1
    <3>3. i \in Nat
      BY <1>0, EntryFacts DEF EnabledClassIndexes, ClassIndexes
    <3>4. i < at
      BY <1>1, <1>6, <3>2, <3>3
    <3> QED BY <1>0, <3>4 DEF ControlInv, PassedEntriesResolved
  <2>3. EnabledClassIndexes' = EnabledClassIndexes
    BY <1>2 DEF EnabledClassIndexes, ClassIndexes, Kind, ItemOf, timeline
  <2>4. ControlInv'
    BY <1>0, <1>3, <1>6, <2>2, <2>3
       DEF ControlInv, PendingPatches, PassedEntriesResolved, caches
  <2> QED BY <2>1, <2>4 DEF CoreInv
<1> QED BY <1>4, <1>5, <1>6 DEF CollectEntry

\* What the loop over the patches is given: positions of enabled entries.
LEMMA GatheredFacts ==
  ASSUME TypeOK, NEW p \in Gathered
  PROVE  /\ p \in Positions
         /\ p[1] \in DOMAIN entries
         /\ p[2] \in 1..Arity(p[1])
         /\ Kind(p[1]) = "class" => p[1] \in EnabledClassIndexes
<1>1. PICK i \in EnabledClassIndexes \cup (DOMAIN entries \ ClassIndexes) :
        p \in PatchesOf(i)
  BY DEF Gathered
<1>2. i \in DOMAIN entries /\ p[1] = i /\ p[2] \in 1..Arity(i) /\ p = <<p[1], p[2]>>
  BY <1>1 DEF EnabledClassIndexes, ClassIndexes, PatchesOf
<1>3. i \in 1..MaxEntries /\ Arity(i) \in 0..MaxChildren
  BY <1>2, EntryFacts
<1>4. p[2] \in 1..MaxChildren
  BY <1>2, <1>3, PatcherAssumption
<1> QED BY <1>1, <1>2, <1>3, <1>4 DEF Positions, EnabledClassIndexes, ClassIndexes

LEMMA CollectedStep ==
  ASSUME CoreInv, Collected
  PROVE  CoreInv'
<1> USE PatcherAssumption
<1>0. TypeOK /\ ControlInv /\ at \notin DOMAIN entries /\ pc \in {"collect", "info"}
  BY DEF CoreInv, Collected
<1>1. UNCHANGED <<timeline, resolved, made, effects, session, applied, loggerVars>>
  BY DEF Collected
<1>2. Gathered \subseteq Positions
  BY <1>0, GatheredFacts
<1>3. 1 \in 1..(MaxEntries + 1)
  OBVIOUS
<1>4. TypeOK'
  <2>1. pc' \in {"idle", "run"} /\ todo' \subseteq Positions
    BY <1>0, <1>2 DEF Collected, TypeOK
  <2> QED BY <1>0, <1>1, <1>2, <1>3, <2>1, LoggerUnchanged
          DEF Collected, TypeOK, timeline, effects
<1>5. ASSUME NEW p \in Gathered
      PROVE  Kind(p[1]) = "class" => resolved[p[1]] # 0 /\ ItemOf(p[1]) \notin blacklist
  <2>1. HAVE Kind(p[1]) = "class"
  <2>2. p[1] \in EnabledClassIndexes /\ p[1] \in DOMAIN entries
    BY <1>0, <2>1, GatheredFacts
  <2>3. p[1] < at
    BY <1>0, <2>2 DEF TypeOK
  <2> QED BY <1>0, <2>2, <2>3
          DEF ControlInv, PassedEntriesResolved, EnabledClassIndexes
<1>6. CASE pc = "collect"
  <2>1. pc' = "run" /\ todo' = Gathered
    BY <1>6 DEF Collected
  <2>2. PendingPatches'
    BY <1>0, <1>1, <1>5, <2>1, GatheredFacts
       DEF PendingPatches, Arity, Kind, ItemOf, timeline
  <2>3. ControlInv'
    BY <2>1, <2>2 DEF ControlInv, PassedEntriesResolved
  <2> QED BY <1>4, <2>3 DEF CoreInv
<1>7. CASE pc = "info"
  <2>1. pc' = "idle" /\ todo' = {}
    BY <1>0, <1>7 DEF Collected, ControlInv
  <2>2. ControlInv'
    BY <2>1 DEF ControlInv, PendingPatches, PassedEntriesResolved
  <2> QED BY <1>4, <2>2 DEF CoreInv
<1> QED BY <1>0, <1>6, <1>7

LEMMA StartApplyStep ==
  ASSUME CoreInv, StartApply
  PROVE  CoreInv'
<1> USE PatcherAssumption
<1>0. TypeOK /\ ControlInv /\ pc = "idle"
  BY DEF CoreInv, StartApply, BeginApply
<1>1. ControlInv'
  BY <1>0, IdleControl DEF StartApply, BeginApply
<1>2. session' \in 0..MaxSessions /\ at' \in 1..(MaxEntries + 1) /\ pc' = "check"
  BY <1>0 DEF StartApply, BeginApply, TypeOK
<1>3. UNCHANGED <<blacklist, loopWanted, effects, todo, applied, loggerVars>>
  BY DEF StartApply, BeginApply
<1>4. CASE ~loopWanted
  BY <1>0, <1>1, <1>2, <1>3, <1>4, LoggerUnchanged
     DEF StartApply, BeginApply, CoreInv, TypeOK, effects, caches
<1>5. CASE loopWanted
  <2> DEFINE loops == [k \in 1..Len(LoopAtoms) |-> DirectEntry(LoopAtoms[k], made + k)]
  <2>1. Len(WithLoopPatches) <= MaxEntries /\ made + Len(LoopAtoms) <= MaxBatches
    BY <1>5 DEF StartApply, BeginApply
  <2>2. \A k \in 1..Len(LoopAtoms) : loops[k] \in Entries
    <3>1. TAKE k \in 1..Len(LoopAtoms)
    <3>2. LoopAtoms[k] \in Atoms /\ made + k \in 1..MaxBatches
      BY <1>0, <2>1 DEF TypeOK
    <3> QED BY <3>2 DEF DirectEntry, Entries
  <2>3. loops \in Seq(Entries)
    <3>1. Len(LoopAtoms) \in Nat
      OBVIOUS
    <3>2. loops \in [1..Len(LoopAtoms) -> Entries]
      BY <2>2
    <3> QED BY <3>1, <3>2
  <2>4. WithLoopPatches \in Seq(Entries)
    BY <1>0, <2>3 DEF WithLoopPatches, TypeOK
  <2>5. entries' = WithLoopPatches /\ made' = made + Len(LoopAtoms) /\ Invalidate(TRUE)
    BY <1>5 DEF StartApply, BeginApply
  <2>6. made' \in 0..MaxBatches
    BY <1>0, <2>1, <2>5 DEF TypeOK
  <2>7. TypeOK'
    BY <1>0, <1>2, <1>3, <2>1, <2>4, <2>5, <2>6, InvalidateType, LoggerUnchanged
       DEF TypeOK, effects
  <2> QED BY <1>1, <2>7 DEF CoreInv
<1> QED BY <1>0, <1>4, <1>5 DEF TypeOK

LEMMA ControlSteps ==
  ASSUME CoreInv, PrintInfo \/ CheckConflicts \/ BootstrapDone
  PROVE  CoreInv'
<1>0. TypeOK /\ ControlInv /\ todo = {} /\ UNCHANGED <<todo, timeline, resolved>>
  BY DEF CoreInv, ControlInv, PrintInfo, CheckConflicts, BootstrapDone, caches
<1>1. 1 \in 1..(MaxEntries + 1)
  BY PatcherAssumption
<1>2. TypeOK'
  BY <1>0, <1>1, LoggerUnchanged
     DEF TypeOK, PrintInfo, CheckConflicts, BootstrapDone, timeline, caches, effects
<1>3. PendingPatches'
  BY <1>0 DEF PendingPatches
<1>4. PassedEntriesResolved'
  <2>1. pc' \in {"collect", "info"} => at' = 1
    BY DEF PrintInfo, CheckConflicts, BootstrapDone
  <2>2. \A i \in EnabledClassIndexes' : ~(i < 1)
    BY <1>2 DEF TypeOK, EnabledClassIndexes, ClassIndexes
  <2> QED BY <2>1, <2>2 DEF PassedEntriesResolved
<1> QED BY <1>0, <1>2, <1>3, <1>4 DEF CoreInv, ControlInv

LEMMA BootstrapEntryStep ==
  ASSUME CoreInv, BootstrapEntry
  PROVE  CoreInv'
<1> USE PatcherAssumption
<1>0. /\ TypeOK /\ ControlInv /\ at \in DOMAIN entries /\ pc = "bootstrap" /\ todo = {}
      /\ UNCHANGED <<timeline, effects, session, applied, loggerVars>>
  BY DEF CoreInv, BootstrapEntry
<1>1. at \in 1..MaxEntries /\ at + 1 \in 1..(MaxEntries + 1)
  BY <1>0, EntryFacts
<1>2. CASE CollectionRaises(at)
  <2>1. TypeOK'
    BY <1>0, <1>2, LoggerUnchanged
       DEF TypeOK, CollectionRaises, timeline, caches, effects
  <2>2. ControlInv'
    BY <1>0, <1>2 DEF ControlInv, PendingPatches, PassedEntriesResolved, CollectionRaises
  <2> QED BY <2>1, <2>2 DEF CoreInv
<1>3. CASE at \in EnabledClassIndexes /\ Resolve(at) /\ todo' = PatchesOf(at)
           /\ at' = at + 1 /\ UNCHANGED <<collected, pc>>
  <2>1. \A p \in PatchesOf(at) :
          p \in Positions /\ p[1] = at /\ p[2] \in 1..Arity(at)
    <3>1. Arity(at) \in 0..MaxChildren
      BY <1>0, EntryFacts
    <3> QED BY <1>1, <3>1 DEF PatchesOf, Positions
  <2>2. TypeOK'
    BY <1>0, <1>1, <1>3, <2>1, ResolveFacts, LoggerUnchanged DEF TypeOK, timeline, effects
  <2>3. resolved'[at] # 0 /\ ItemOf(at) \notin blacklist
    BY <1>0, <1>3, ResolveFacts DEF EnabledClassIndexes
  <2>4. PendingPatches'
    BY <1>0, <1>3, <2>1, <2>3 DEF PendingPatches, Arity, Kind, ItemOf, timeline
  <2>5. ControlInv'
    BY <1>0, <1>3, <2>4 DEF ControlInv, PassedEntriesResolved
  <2> QED BY <2>2, <2>5 DEF CoreInv
<1>4. CASE at' = at + 1 /\ UNCHANGED <<caches, pc, todo>>
  <2>1. TypeOK'
    BY <1>0, <1>1, <1>4, LoggerUnchanged DEF TypeOK, timeline, caches, effects
  <2>2. ControlInv'
    BY <1>0, <1>4 DEF ControlInv, PendingPatches, PassedEntriesResolved
  <2> QED BY <2>1, <2>2 DEF CoreInv
<1> QED BY <1>2, <1>3, <1>4 DEF BootstrapEntry, BootstrapIndexes

\* Leaving a patch behind, for any result of a logger call.
LEMMA LeaveStep ==
  ASSUME CoreInv, NEW p \in todo, pc \in {"bootstrap", "run"},
         NEW r, Leave(p, r),
         r.buf \in [Sections -> Seq(PatchInfos)],
         r.rank \in Ranks \cup {Unset},
         r.out \in Outcomes,
         done' \subseteq Objects,
         attr' \in [Slots -> Seq(Layers)]
  PROVE  CoreInv'
<1>0. TypeOK /\ ControlInv
  BY DEF CoreInv
<1>1. UNCHANGED <<timeline, caches, session, applied, loggerConfig, emitted>>
  BY DEF Leave
<1>2. LoggerTypeOK'
  BY <1>0, <1>1 DEF TypeOK, LoggerTypeOK, Leave, loggerConfig
<1>3. at' \in 1..(MaxEntries + 1) /\ todo' \subseteq todo
  BY <1>0, PatcherAssumption DEF Leave, TypeOK
<1>4. pc' \in {pc, "idle", "exited"}
  BY DEF Leave
<1>5. TypeOK'
  BY <1>0, <1>1, <1>2, <1>3, <1>4 DEF TypeOK, timeline, caches
<1>6. PendingPatches'
  BY <1>0, <1>1, <1>3
     DEF ControlInv, PendingPatches, Arity, Kind, ItemOf, timeline, caches
<1>7. pc' \notin {"bootstrap", "run"} => todo' = {}
  BY <1>0 DEF Leave
<1>8. PassedEntriesResolved'
  BY <1>4 DEF PassedEntriesResolved
<1> QED BY <1>5, <1>6, <1>7, <1>8 DEF CoreInv, ControlInv

\* What an attempt does to the targets and to the flags.
LEMMA AttemptEffects ==
  ASSUME CoreInv, NEW p \in todo, NEW r \in Results(AtomAt(p)), Attempt(p, r)
  PROVE  /\ done' \subseteq Objects
         /\ attr' \in [Slots -> Seq(Layers)]
<1>0. TypeOK /\ PendingPatches /\ p \in Positions
  BY DEF CoreInv, ControlInv, TypeOK
<1>1. AtomAt(p) \in Atoms /\ ObjectAt(p) \in Objects
  BY <1>0, PatchFacts
<1> DEFINE l == [atom |-> AtomAt(p), obj |-> ObjectAt(p), at |-> p]
<1>2. l \in Layers
  BY <1>0, <1>1 DEF Layers
<1>3. \A s \in Slots : Layered(attr[s], l) \in Seq(Layers)
  BY <1>0, <1>2 DEF TypeOK, Layered
<1>4. Written(l, r.hit) \in [Slots -> Seq(Layers)]
  BY <1>0, <1>3 DEF TypeOK, Written
<1>5. attr' = Written(l, r.hit)
  BY DEF Attempt, FlagAfter
<1>6. done' \subseteq done \cup {ObjectAt(p)}
  BY DEF Attempt, FlagAfter
<1> QED BY <1>0, <1>1, <1>4, <1>5, <1>6 DEF TypeOK

LEMMA ApplyPatchStep ==
  ASSUME CoreInv, ApplyPatch
  PROVE  CoreInv'
<1>0. TypeOK /\ ControlInv /\ LoggerTypeOK
  BY DEF CoreInv, TypeOK
<1>1. buf \in [Sections -> Seq(PatchInfos)]
  BY <1>0 DEF LoggerTypeOK
<1>2. ASSUME NEW p \in todo, SkipDisabled(p)
      PROVE  CoreInv'
  <2>1. ObjectAt(p) \in PatchInfos /\ "skipped" \in Events
    BY <1>0, PatchFacts DEF ControlInv, Events
  <2>2. /\ Leave(p, Log(buf, "skipped", ObjectAt(p)))
        /\ pc \in {"bootstrap", "run"} /\ UNCHANGED effects
    BY <1>2 DEF SkipDisabled, Turn
  <2>3. done' \subseteq Objects /\ attr' \in [Slots -> Seq(Layers)]
    BY <1>0, <2>2 DEF effects, TypeOK
  <2> QED BY <1>0, <1>1, <2>1, <2>2, <2>3, LogType, LeaveStep
<1>3. ASSUME NEW p \in todo, PassOver(p)
      PROVE  CoreInv'
  <2>1. TypeOK'
    BY <1>0, <1>3, LoggerUnchanged DEF PassOver, TypeOK, timeline, caches, effects
  <2>2. ControlInv'
    BY <1>0, <1>3 DEF PassOver, Turn, ControlInv, PendingPatches, PassedEntriesResolved,
                      Arity, Kind, ItemOf, timeline, caches
  <2> QED BY <2>1, <2>2 DEF CoreInv
<1>4. ASSUME NEW p \in todo, NEW r \in Results(AtomAt(p)), Attempt(p, r)
      PROVE  CoreInv'
  <2> DEFINE e == IF r.status = "raised" THEN "failed" ELSE r.status
  <2>1. ObjectAt(p) \in PatchInfos /\ AtomAt(p) \in Atoms
    BY <1>0, PatchFacts DEF ControlInv
  <2>2. e \in Events
    BY <2>1, PatcherAssumption DEF Results, Events
  <2>3. Leave(p, LogGuarded(e, ObjectAt(p))) /\ pc \in {"bootstrap", "run"}
    BY <1>4 DEF Attempt, Turn
  <2> HIDE DEF e
  <2> QED BY <1>0, <1>4, <2>1, <2>2, <2>3, AttemptEffects, LogGuardedType, LeaveStep
<1> QED BY <1>2, <1>3, <1>4 DEF ApplyPatch

LEMMA FinishApplyStep ==
  ASSUME CoreInv, FinishApply
  PROVE  CoreInv'
<1>0. TypeOK /\ ControlInv /\ LoggerTypeOK
  BY DEF CoreInv, TypeOK
<1>1. LoggerTypeOK'
  <2>1. EmptyBuffers \in [Sections -> Seq(PatchInfos)]
    BY DEF EmptyBuffers
  <2>2. Summary \in [Sections -> Seq(PatchInfos)]
    BY <1>0 DEF Summary, LoggerTypeOK
  <2>3. KnownRank \in Ranks
    BY <1>0 DEF KnownRank, LoggerTypeOK
  <2> QED BY <1>0, <2>1, <2>2, <2>3
          DEF FinishApply, FlushSummary, LoggerTypeOK, loggerConfig
<1>2. TypeOK'
  BY <1>0, <1>1 DEF FinishApply, TypeOK, timeline, caches, effects
<1>3. ControlInv'
  BY DEF FinishApply, ControlInv, PendingPatches, PassedEntriesResolved
<1> QED BY <1>2, <1>3 DEF CoreInv

LEMMA CoreStep == CoreInv /\ [Next]_vars => CoreInv'
<1> SUFFICES ASSUME CoreInv, [Next]_vars PROVE CoreInv'
  OBVIOUS
<1>1. CASE UNCHANGED vars
  BY <1>1, LoggerUnchanged
     DEF CoreInv, TypeOK, ControlInv, PendingPatches, PassedEntriesResolved,
         EnabledClassIndexes, ClassIndexes, Arity, Kind, ItemOf,
         vars, timeline, caches, effects, control
<1>2. CASE Call
  BY <1>2, TimelineSteps, ControlSteps, StartApplyStep DEF Call
<1>3. CASE Proceed
  BY <1>3, ControlSteps, BootstrapEntryStep, CollectEntryStep, CollectedStep,
     ApplyPatchStep, FinishApplyStep DEF Proceed
<1> QED BY <1>1, <1>2, <1>3 DEF Next

\* Type correctness: every value a patcher and its logger ever hold is of its
\* type, and the loops of apply() only visit patches that exist.
THEOREM TypeCorrect == Spec => []TypeOK
<1>1. Init => CoreInv
  BY CoreInit
<1>2. CoreInv /\ [Next]_vars => CoreInv'
  BY CoreStep
<1>3. CoreInv => TypeOK
  BY DEF CoreInv
<1> QED BY <1>1, <1>2, <1>3, PTL DEF Spec

-----------------------------------------------------------------------------
(* Safety *)

\* apply() finds _applied false, and only its last step sets it.
AppliedAtRest == applied => pc \in {"idle", "info"}

\* Own layers carry the flag of their object.
LayersFlagged ==
  \A s \in Slots : \A i \in OwnLayers(s) : attr[s][i].obj \in done

\* What apply() has passed of its collection is accounted for.
Accounted(p) ==
  ObjectAt(p) \in IF ObjectAt(p) \in done THEN Reported("applied")
                  ELSE Reported("skipped") \cup Reported("failed")
PassedPatchesAccounted ==
  buffered /\ pc = "run" => \A p \in collected \ todo : Accounted(p)

-----------------------------------------------------------------------------
(* Conflicts *)

\* No two enabled classes that exclude each other are applied together, in any
\* call of apply(): what passed the check cannot change before the end.
THEOREM ConflictSafe == Spec => []NoConflictWhileApplying
<1>1. Init => NoConflictWhileApplying
  BY DEF Init, NoConflictWhileApplying
<1>2. NoConflictWhileApplying /\ [Next]_vars => NoConflictWhileApplying'
  <2> SUFFICES ASSUME NoConflictWhileApplying, [Next]_vars, pc' \in {"bootstrap", "collect", "run"}
               PROVE  NoConflictWhileApplying'
    BY DEF NoConflictWhileApplying
  <2>1. UNCHANGED <<entries, blacklist>> => EnabledClassIndexes' = EnabledClassIndexes
    BY DEF EnabledClassIndexes, ClassIndexes, Kind, ItemOf
  <2>2. CASE pc \in {"bootstrap", "collect", "run"} /\ UNCHANGED <<entries, blacklist>>
    BY <2>1, <2>2 DEF NoConflictWhileApplying, ItemOf
  <2>3. CASE CheckConflicts
    <3>1. ~ConflictFound /\ UNCHANGED <<entries, blacklist>>
      BY <2>3 DEF CheckConflicts, timeline
    <3> QED BY <2>1, <3>1 DEF NoConflictWhileApplying, ConflictFound, ItemOf
  <2>4. CASE Call
    BY <2>4 DEF Call, AddClass, AddDirect, AddSameObject, Disable, WantLoopPatches,
                PrintInfo, StartApply, BeginApply, MayAdd, control
  <2>5. CASE BootstrapEntry \/ BootstrapDone \/ FinishApply
    BY <2>2, <2>5 DEF BootstrapEntry, BootstrapDone, FinishApply, timeline
  <2>6. CASE CollectEntry \/ Collected
    <3>1. UNCHANGED <<entries, blacklist>> /\ pc \in {"collect", "info"}
      BY <2>6 DEF CollectEntry, Collected, timeline
    <3>2. pc # "info"
      BY <2>6 DEF CollectEntry, CollectionRaises, Collected
    <3> QED BY <2>2, <3>1, <3>2
  <2>7. CASE ApplyPatch
    BY <2>2, <2>7 DEF ApplyPatch, SkipDisabled, PassOver, Attempt, Turn, Leave, timeline
  <2>8. CASE UNCHANGED vars
    BY <2>2, <2>8 DEF vars, timeline, control
  <2> QED BY <2>3, <2>4, <2>5, <2>6, <2>7, <2>8 DEF Next, Proceed
<1> QED BY <1>1, <1>2, PTL DEF Spec

-----------------------------------------------------------------------------
(* Targets change only inside an attempt *)

\* Every step but an attempt leaves the targets and the flags alone.
LEMMA OnlyAttemptsChange ==
  ASSUME [Next]_vars
  PROVE  \/ UNCHANGED effects
         \/ \E p \in todo : \E r \in Results(AtomAt(p)) : Attempt(p, r)
<1>1. CASE Call
  BY <1>1 DEF Call, AddClass, AddDirect, AddSameObject, Disable, WantLoopPatches,
              PrintInfo, StartApply, BeginApply
<1>2. CASE Proceed
  BY <1>2 DEF Proceed, CheckConflicts, BootstrapEntry, BootstrapDone, CollectEntry,
              Collected, ApplyPatch, SkipDisabled, PassOver, FinishApply
<1> QED BY <1>1, <1>2 DEF Next, vars

\* apply() is at rest whenever it has completed once.
LEMMA AppliedRests == Spec => [](AppliedAtRest /\ CoreInv)
<1>1. Init => AppliedAtRest /\ CoreInv
  BY CoreInit DEF Init, AppliedAtRest
<1>2. AppliedAtRest /\ CoreInv /\ [Next]_vars => (AppliedAtRest /\ CoreInv)'
  <2> SUFFICES ASSUME AppliedAtRest, CoreInv, [Next]_vars PROVE AppliedAtRest'
    BY CoreStep
  <2>1. CASE Call
    BY <2>1 DEF Call, AddClass, AddDirect, AddSameObject, Disable, WantLoopPatches,
                PrintInfo, StartApply, BeginApply, AppliedAtRest, control
  <2>2. CASE CheckConflicts \/ BootstrapEntry \/ BootstrapDone
    BY <2>2 DEF CheckConflicts, BootstrapEntry, BootstrapDone, AppliedAtRest
  <2>3. CASE CollectEntry \/ Collected
    BY <2>3 DEF CollectEntry, CollectionRaises, Collected, AppliedAtRest, caches
  <2>4. CASE ApplyPatch
    BY <2>4 DEF ApplyPatch, SkipDisabled, PassOver, Attempt, Turn, Leave, AppliedAtRest
  <2>5. CASE FinishApply
    BY <2>5 DEF FinishApply, AppliedAtRest
  <2>6. CASE UNCHANGED vars
    BY <2>6 DEF vars, control, AppliedAtRest
  <2> QED BY <2>1, <2>2, <2>3, <2>4, <2>5, <2>6 DEF Next, Proceed
<1> QED BY <1>1, <1>2, PTL DEF Spec

\* The layer an attempt puts on the targets it writes, and where it lies.
LEMMA AttemptLayer ==
  ASSUME CoreInv, NEW p \in todo, NEW r \in Results(AtomAt(p)), Attempt(p, r), NEW s \in Slots
  PROVE  \/ attr'[s] = attr[s]
         \/ /\ s \in r.hit
            /\ attr[s] \in Seq(Layers)
            /\ \/ attr'[s] = <<[atom |-> AtomAt(p), obj |-> ObjectAt(p), at |-> p]>>
               \/ attr'[s] = Append(attr[s], [atom |-> AtomAt(p), obj |-> ObjectAt(p), at |-> p])
<1>1. attr \in [Slots -> Seq(Layers)]
  BY DEF CoreInv, TypeOK
<1>2. attr' = Written([atom |-> AtomAt(p), obj |-> ObjectAt(p), at |-> p], r.hit)
  BY DEF Attempt
<1> QED BY <1>1, <1>2 DEF Written, Layered

\* A disabled patch, or a patch of a disabled class, never changes a target,
\* whether it was disabled before or after it was added or resolved.
THEOREM DisabledNeverApplied == Spec => DisabledStaysOut
<1> DEFINE Out == \A s \in Slots : attr'[s] # attr[s] =>
             LET l == attr'[s][Len(attr'[s])]
             IN /\ NameOf[l.atom] \notin blacklist
                /\ Kind(l.at[1]) = "class" => ItemOf(l.at[1]) \notin blacklist
<1>1. CoreInv /\ [Next]_vars => [Out]_vars
  <2> SUFFICES ASSUME CoreInv, [Next]_vars, NEW s \in Slots, attr'[s] # attr[s]
               PROVE  LET l == attr'[s][Len(attr'[s])]
                      IN /\ NameOf[l.atom] \notin blacklist
                         /\ Kind(l.at[1]) = "class" => ItemOf(l.at[1]) \notin blacklist
    OBVIOUS
  <2>1. PICK p \in todo : \E r \in Results(AtomAt(p)) : Attempt(p, r)
    BY OnlyAttemptsChange DEF effects
  <2>2. PICK r \in Results(AtomAt(p)) : Attempt(p, r)
    BY <2>1
  <2> DEFINE l == [atom |-> AtomAt(p), obj |-> ObjectAt(p), at |-> p]
  <2>3. attr'[s] = <<l>> \/ (attr[s] \in Seq(Layers) /\ attr'[s] = Append(attr[s], l))
    BY <2>2, AttemptLayer
  <2>4. attr'[s][Len(attr'[s])] = l
    <3>1. CASE attr'[s] = <<l>>
      BY <3>1
    <3>2. CASE attr[s] \in Seq(Layers) /\ attr'[s] = Append(attr[s], l)
      <4> HIDE DEF l
      <4>1. Len(Append(attr[s], l)) = Len(attr[s]) + 1 /\ Append(attr[s], l)[Len(attr[s]) + 1] = l
        BY <3>2
      <4> QED BY <3>2, <4>1
    <3> QED BY <2>3, <3>1, <3>2
  <2>5. NameOf[AtomAt(p)] \notin blacklist
    BY <2>2 DEF Attempt
  <2>6. Kind(p[1]) = "class" => ItemOf(p[1]) \notin blacklist
    BY DEF CoreInv, ControlInv, PendingPatches
  <2> QED BY <2>4, <2>5, <2>6
<1> QED BY <1>1, AppliedRests, PTL DEF Spec, DisabledStaysOut

\* With on_fail="exception" no failed attempt is passed over: apply() ends there
\* and may be called again.
THEOREM StrictStops == Spec => StrictFailureStops
<1> DEFINE Stops == \A p \in todo :
             /\ action["failed"] = "exception"
             /\ \E r \in Results(AtomAt(p)) :
                  r.status \in {"failed", "raised"} /\ Attempt(p, r)
             => pc' = "idle" /\ ~applied'
<1>1. AppliedAtRest /\ [Next]_vars => [Stops]_vars
  <2> SUFFICES ASSUME AppliedAtRest, NEW p \in todo, action["failed"] = "exception",
                      NEW r \in Results(AtomAt(p)), r.status \in {"failed", "raised"},
                      Attempt(p, r)
               PROVE  pc' = "idle" /\ ~applied'
    OBVIOUS
  <2>1. Leave(p, LogGuarded("failed", ObjectAt(p))) /\ pc \in {"bootstrap", "run"}
    BY DEF Attempt, Turn
  <2>2. \A b : Log(b, "failed", ObjectAt(p)).out = "raise"
    BY DEF Log, Immediate, Handle
  <2>3. LogGuarded("failed", ObjectAt(p)).out = "raise"
    BY <2>2 DEF LogGuarded
  <2>4. pc' = "idle" /\ applied' = applied
    BY <2>1, <2>3 DEF Leave
  <2> QED BY <2>1, <2>4 DEF AppliedAtRest
<1> QED BY <1>1, AppliedRests, PTL DEF Spec, StrictFailureStops

-----------------------------------------------------------------------------
(* is_applied *)

\* An attempt that writes its own target and flags what it does sets the flag.
LEMMA OwnLayerSetsFlag ==
  ASSUME NEW p \in todo, NEW r \in Results(AtomAt(p)), Attempt(p, r),
         Flagged(AtomAt(p)), MainSlot[AtomAt(p)] \in r.hit
  PROVE  done' = done \cup {ObjectAt(p)}
BY DEF Flagged, Attempt, FlagAfter

\* A patch object is layered at most once on its own target: is_applied is set
\* in the step that layers it, and nothing clears it.
THEOREM OnceEach == Spec => []OncePerObject
<1> DEFINE OnceInv == LayersFlagged /\ OncePerObject
<1>1. Init => OnceInv
  BY DEF Init, LayersFlagged, OncePerObject, OwnLayers
<1>2. OnceInv /\ CoreInv /\ [Next]_vars => OnceInv'
  <2> SUFFICES ASSUME OnceInv, CoreInv, [Next]_vars PROVE OnceInv'
    OBVIOUS
  <2>1. CASE UNCHANGED effects
    BY <2>1 DEF effects, LayersFlagged, OncePerObject, OwnLayers
  <2>2. CASE \E p \in todo : \E r \in Results(AtomAt(p)) : Attempt(p, r)
    <3>1. PICK p \in todo : \E r \in Results(AtomAt(p)) : Attempt(p, r)
      BY <2>2
    <3>2. PICK r \in Results(AtomAt(p)) : Attempt(p, r)
      BY <3>1
    <3> DEFINE l == [atom |-> AtomAt(p), obj |-> ObjectAt(p), at |-> p]
    <3>3. ObjectAt(p) \notin done /\ done \subseteq done'
      BY <3>2 DEF Attempt, FlagAfter
    <3>4. ASSUME NEW s \in Slots
          PROVE  /\ \A i \in OwnLayers(s)' : attr'[s][i].obj \in done'
                 /\ \A i, j \in OwnLayers(s)' : i # j => attr'[s][i].obj # attr'[s][j].obj
      <4>1. CASE attr'[s] = attr[s]
        <5>1. OwnLayers(s)' = OwnLayers(s)
          BY <4>1 DEF OwnLayers
        <5> QED BY <3>3, <4>1, <5>1 DEF LayersFlagged, OncePerObject
      <4>2. CASE s \in r.hit /\ attr'[s] = <<l>>
        <5>1. OwnLayers(s)' \subseteq {1}
          BY <4>2 DEF OwnLayers
        <5>2. 1 \in OwnLayers(s)' => ObjectAt(p) \in done'
          BY <3>2, <4>2, OwnLayerSetsFlag DEF OwnLayers
        <5> QED BY <4>2, <5>1, <5>2
      <4>3. CASE s \in r.hit /\ attr[s] \in Seq(Layers) /\ attr'[s] = Append(attr[s], l)
        <5> DEFINE n == Len(attr[s]) + 1
        <5>1. /\ n \in Nat /\ DOMAIN attr[s] = 1..(n - 1) /\ DOMAIN attr'[s] = 1..n
              /\ attr'[s][n] = l /\ \A i \in 1..(n - 1) : attr'[s][i] = attr[s][i]
          <6> HIDE DEF l
          <6> QED BY <4>3
        <5> HIDE DEF n
        <5>2. OwnLayers(s)' \subseteq OwnLayers(s) \cup {n} /\ n \notin OwnLayers(s)
          BY <5>1 DEF OwnLayers
        <5>3. \A i \in OwnLayers(s) : attr'[s][i] = attr[s][i] /\ attr'[s][i].obj \in done
          BY <5>1 DEF OwnLayers, LayersFlagged
        <5>4. n \in OwnLayers(s)' => ObjectAt(p) \in done'
          BY <3>2, <4>3, <5>1, OwnLayerSetsFlag DEF OwnLayers
        <5>5. attr'[s][n].obj = ObjectAt(p)
          BY <5>1
        <5>6. \A i, j \in OwnLayers(s) : i # j => attr[s][i].obj # attr[s][j].obj
          BY DEF OncePerObject
        <5> QED BY <3>3, <5>2, <5>3, <5>4, <5>5, <5>6
      <4> QED BY <3>2, <4>1, <4>2, <4>3, AttemptLayer
    <3>5. LayersFlagged'
      BY <3>4 DEF LayersFlagged
    <3>6. OncePerObject'
      BY <3>4 DEF OncePerObject
    <3> QED BY <3>5, <3>6
  <2> QED BY <2>1, <2>2, OnlyAttemptsChange
<1> QED BY <1>1, <1>2, AppliedRests, PTL DEF Spec

-----------------------------------------------------------------------------
(* What the loops go through *)

\* What the two loops over patches go through: patches of a bootstrap class,
\* and the patches of the timeline as it stands.
LoopsFollowTimeline ==
  /\ pc = "bootstrap" => \A p \in todo : p[1] \in BootstrapIndexes
  /\ pc = "run" => collected = Gathered /\ todo \subseteq Gathered

RefinementInv == CoreInv /\ AppliedAtRest /\ LoopsFollowTimeline

\* The bootstrap pass visits patches of bootstrap classes, the main loop those of
\* the timeline as it stands: the collection it goes over is never a stale one.
LEMMA LoopsFollow == Spec => []RefinementInv
<1>1. Init => RefinementInv
  BY CoreInit DEF Init, AppliedAtRest, LoopsFollowTimeline, RefinementInv
<1>2. RefinementInv /\ [Next]_vars => RefinementInv'
  <2> SUFFICES ASSUME RefinementInv, [Next]_vars PROVE LoopsFollowTimeline' /\ AppliedAtRest'
    BY CoreStep DEF RefinementInv
  <2> USE DEF RefinementInv
  <2>1. UNCHANGED <<entries, blacklist>> =>
          BootstrapIndexes' = BootstrapIndexes /\ Gathered' = Gathered
    BY DEF BootstrapIndexes, Gathered, EnabledClassIndexes, ClassIndexes, PatchesOf,
           Arity, Kind, ItemOf
  <2>2. CASE Call
    <3>1. pc' \in {"idle", "info"} \/ (pc' = "check" /\ ~applied')
      BY <2>2 DEF Call, AddClass, AddDirect, AddSameObject, Disable, WantLoopPatches,
                  PrintInfo, StartApply, BeginApply, MayAdd, control
    <3> QED BY <3>1 DEF AppliedAtRest, LoopsFollowTimeline
  <2>3. CASE CheckConflicts
    BY <2>3 DEF CheckConflicts, AppliedAtRest, LoopsFollowTimeline, CoreInv, ControlInv
  <2>4. CASE BootstrapEntry
    <3>1. CASE at \in BootstrapIndexes /\ todo' = PatchesOf(at) /\ UNCHANGED pc
      <4>1. \A p \in todo' : p[1] = at
        BY <3>1 DEF PatchesOf
      <4> QED BY <2>1, <2>4, <3>1, <4>1
              DEF BootstrapEntry, timeline, AppliedAtRest, LoopsFollowTimeline
    <3>2. CASE pc' = "idle"
      BY <3>2 DEF AppliedAtRest, LoopsFollowTimeline
    <3>3. CASE UNCHANGED <<pc, todo, collected>>
      BY <2>1, <2>4, <3>3 DEF BootstrapEntry, timeline, AppliedAtRest, LoopsFollowTimeline
    <3> QED BY <2>4, <3>1, <3>2, <3>3 DEF BootstrapEntry, CollectionRaises, caches
  <2>5. CASE BootstrapDone
    BY <2>5 DEF BootstrapDone, AppliedAtRest, LoopsFollowTimeline
  <2>6. CASE CollectEntry
    BY <2>6 DEF CollectEntry, CollectionRaises, AppliedAtRest, LoopsFollowTimeline
  <2>7. CASE Collected
    BY <2>1, <2>7 DEF Collected, timeline, AppliedAtRest, LoopsFollowTimeline
  <2>8. CASE ApplyPatch
    <3>1. UNCHANGED <<entries, blacklist, collected, applied>> /\ todo' \subseteq todo
      BY <2>8 DEF ApplyPatch, SkipDisabled, PassOver, Attempt, Leave, timeline, caches
    <3>2. pc \in {"bootstrap", "run"} /\ pc' \in {pc, "idle", "exited"}
      BY <2>8 DEF ApplyPatch, SkipDisabled, PassOver, Attempt, Leave, Turn
    <3> QED BY <2>1, <3>1, <3>2 DEF AppliedAtRest, LoopsFollowTimeline
  <2>9. CASE FinishApply
    BY <2>9 DEF FinishApply, AppliedAtRest, LoopsFollowTimeline
  <2>10. CASE UNCHANGED vars
    BY <2>1, <2>10 DEF vars, timeline, caches, control, AppliedAtRest, LoopsFollowTimeline
  <2> QED BY <2>2, <2>3, <2>4, <2>5, <2>6, <2>7, <2>8, <2>9, <2>10 DEF Next, Proceed
<1> QED BY <1>1, <1>2, PTL DEF Spec

-----------------------------------------------------------------------------
(* Reports *)

\* A call of the logger that lets the caller go on while events are buffered
\* has appended the event to its section.
LEMMA LogBuffers ==
  ASSUME LoggerTypeOK, buffered, NEW e \in Events, NEW p \in PatchInfos
  PROVE  /\ LogGuarded(e, p).out = "ok" =>
              LogGuarded(e, p).buf = [buf EXCEPT ![e] = Append(@, p)]
         /\ LogGuarded(e, p).buf \in {buf, [buf EXCEPT ![e] = Append(@, p)]}
         /\ e # "failed" => LogGuarded(e, p).out = "ok"
<1>1. e # "failed" => ~Immediate(e)
  BY DEF Immediate
<1>2. CASE ~Immediate(e)
  BY <1>2 DEF LogGuarded, Log
<1>3. CASE Immediate(e)
  <2>1. e = "failed" /\ action[e] \in {"exception", "exit"}
    BY <1>1, <1>3 DEF Immediate
  <2>2. \A b : /\ Log(b, e, p).buf = b
               /\ Log(b, e, p).out \in {"raise", "exit"}
    BY <1>3, <2>1 DEF Log, Handle
  <2> QED BY <2>1, <2>2 DEF LogGuarded
<1> QED BY <1>2, <1>3

\* While apply() has not returned, the buffers only lose events with the flush
\* at its end; a step that is no attempt and no skip leaves them alone.
LEMMA OnlyPatchesReport ==
  ASSUME [Next]_vars
  PROVE  \/ UNCHANGED <<buf, done>>
         \/ FinishApply
         \/ \E p \in todo : SkipDisabled(p)
         \/ \E p \in todo : \E r \in Results(AtomAt(p)) : Attempt(p, r)
<1>1. CASE Call
  BY <1>1 DEF Call, AddClass, AddDirect, AddSameObject, Disable, WantLoopPatches,
              PrintInfo, StartApply, BeginApply, loggerVars, effects
<1>2. CASE Proceed
  BY <1>2 DEF Proceed, CheckConflicts, BootstrapEntry, BootstrapDone, CollectEntry,
              Collected, ApplyPatch, PassOver, loggerVars, effects
<1> QED BY <1>1, <1>2 DEF Next, vars, loggerVars, effects

\* The buffering of a patcher's logger does not change while it is used.
LEMMA BufferingFixed ==
  ASSUME [Next]_vars PROVE UNCHANGED <<buffered, action>>
<1>1. CASE Call
  BY <1>1 DEF Call, AddClass, AddDirect, AddSameObject, Disable, WantLoopPatches,
              PrintInfo, StartApply, BeginApply, loggerVars, loggerConfig
<1>2. CASE Proceed
  BY <1>2 DEF Proceed, CheckConflicts, BootstrapEntry, BootstrapDone, CollectEntry,
              Collected, ApplyPatch, SkipDisabled, PassOver, Attempt, Leave, FinishApply,
              loggerVars, loggerConfig
<1> QED BY <1>1, <1>2 DEF Next, vars, loggerVars, loggerConfig

\* An attempt reports its object once, in the section of its result.
LEMMA AttemptReports ==
  ASSUME CoreInv, buffered, NEW p \in todo, NEW r \in Results(AtomAt(p)), Attempt(p, r)
  PROVE  /\ ObjectAt(p) \in PatchInfos /\ ObjectAt(p) \notin done
         /\ buf' = buf \/ \E e \in {"skipped", "failed"} : buf' = [buf EXCEPT ![e] = Append(@, ObjectAt(p))]
            \/ buf' = [buf EXCEPT !["applied"] = Append(@, ObjectAt(p))]
         /\ r.status = "applied" =>
              /\ done' = done \cup {ObjectAt(p)}
              /\ buf' = [buf EXCEPT !["applied"] = Append(@, ObjectAt(p))]
         /\ r.status # "applied" =>
              /\ done' = done
              /\ \/ buf' = buf /\ pc' \in {"idle", "exited"}
                 \/ \E e \in {"skipped", "failed"} :
                       buf' = [buf EXCEPT ![e] = Append(@, ObjectAt(p))]
<1> DEFINE o == ObjectAt(p)
           e == IF r.status = "raised" THEN "failed" ELSE r.status
<1>1. LoggerTypeOK /\ o \in PatchInfos /\ AtomAt(p) \in Atoms
  BY PatchFacts DEF CoreInv, ControlInv, TypeOK
<1>2. r.status \in {"applied", "skipped", "failed", "raised"} /\ e \in Events
  BY <1>1, PatcherAssumption DEF Results, Events
<1>3. Leave(p, LogGuarded(e, o)) /\ o \notin done
  BY DEF Attempt, FlagAfter
<1>4. done' = IF r.status = "applied" THEN done \cup {o} ELSE done
  BY DEF Attempt, FlagAfter
<1>5. /\ LogGuarded(e, o).out = "ok" => buf' = [buf EXCEPT ![e] = Append(@, o)]
      /\ buf' \in {buf, [buf EXCEPT ![e] = Append(@, o)]}
      /\ e # "failed" => LogGuarded(e, o).out = "ok"
  BY <1>1, <1>2, <1>3, LogBuffers DEF Leave
<1>6. LogGuarded(e, o).out # "ok" => pc' \in {"idle", "exited"}
  BY <1>3 DEF Leave
<1>7. CASE r.status = "applied"
  BY <1>1, <1>3, <1>4, <1>5, <1>7
<1>8. CASE r.status # "applied"
  <2>1. e \in {"skipped", "failed"}
    BY <1>2, <1>8
  <2> HIDE DEF e
  <2> QED BY <1>1, <1>3, <1>4, <1>5, <1>6, <1>8, <2>1
<1> QED BY <1>7, <1>8

\* Skipping a disabled patch reports it as skipped, unless an unbuffered report
\* ended apply().
LEMMA SkipReports ==
  ASSUME CoreInv, buffered, NEW p \in todo, SkipDisabled(p)
  PROVE  /\ buf' = [buf EXCEPT !["skipped"] = Append(@, ObjectAt(p))]
         /\ done' = done
         /\ ObjectAt(p) \in PatchInfos
<1>1. ObjectAt(p) \in PatchInfos
  BY PatchFacts DEF CoreInv, ControlInv
<1>2. ~Immediate("skipped")
  BY DEF Immediate
<1> QED BY <1>1, <1>2 DEF SkipDisabled, Leave, Log, effects

\* The Applied section is exact: reported as applied and flagged is_applied are
\* the same objects, each reported once, through failures and retries.
THEOREM AppliedReported == Spec => []AppliedSectionExact
<1> DEFINE Exact == AppliedSectionExact
<1>1. Init => Exact
  <2> SUFFICES ASSUME Init PROVE Exact
    OBVIOUS
  <2>1. buf["applied"] = <<>> /\ done = {}
    BY DEF Init, LoggerStart, EmptyBuffers, Sections, Events
  <2> QED BY <2>1 DEF AppliedSectionExact, Reported
<1>2. AppliedAtRest /\ CoreInv /\ Exact /\ [Next]_vars => Exact'
  <2> SUFFICES ASSUME AppliedAtRest, CoreInv, Exact, [Next]_vars, buffered, ~applied'
               PROVE  Exact'
    BY BufferingFixed DEF AppliedSectionExact
  <2>1. ~applied
    BY DEF Next, Call, AddClass, AddDirect, AddSameObject, Disable, WantLoopPatches,
           PrintInfo, StartApply, BeginApply, Proceed, CheckConflicts, BootstrapEntry, BootstrapDone,
           CollectEntry, Collected, ApplyPatch, SkipDisabled, PassOver, Attempt, Leave,
           FinishApply, vars, control
  <2>2. /\ Reported("applied") = done
        /\ \A i, j \in DOMAIN buf["applied"] :
             i # j => buf["applied"][i] # buf["applied"][j]
    BY <2>1 DEF AppliedSectionExact
  <2>3. buf["applied"] \in Seq(PatchInfos) /\ buf \in [Sections -> Seq(PatchInfos)]
        /\ {"applied", "skipped", "failed"} \subseteq Sections
    BY DEF CoreInv, TypeOK, LoggerTypeOK, Sections, Events
  <2>4. CASE UNCHANGED <<buf["applied"], done>>
    BY <2>2, <2>4 DEF AppliedSectionExact, Reported
  <2>5. CASE FinishApply
    BY <2>5 DEF FinishApply
  <2>6. CASE \E p \in todo : SkipDisabled(p)
    BY <2>3, <2>4, <2>6, SkipReports
  <2>7. ASSUME NEW p \in todo, NEW r \in Results(AtomAt(p)), Attempt(p, r)
        PROVE  Exact'
    <3>1. CASE r.status # "applied"
      BY <2>3, <2>4, <2>7, <3>1, AttemptReports
    <3>2. CASE r.status = "applied"
      <4> DEFINE o == ObjectAt(p)
                 n == Len(buf["applied"]) + 1
      <4>1. o \in PatchInfos /\ o \notin done /\ done' = done \cup {o}
            /\ buf'["applied"] = Append(buf["applied"], o)
        BY <2>3, <2>7, <3>2, AttemptReports
      <4> HIDE DEF o
      <4>2. /\ n \in Nat \ {0} /\ DOMAIN buf["applied"] = 1..(n - 1)
            /\ DOMAIN buf'["applied"] = 1..n
            /\ buf'["applied"][n] = o
            /\ \A i \in 1..(n - 1) : buf'["applied"][i] = buf["applied"][i]
        BY <2>3, <4>1
      <4> HIDE DEF n
      <4>3. 1..n = 1..(n - 1) \cup {n}
        BY <4>2
      <4>4. Reported("applied")' = Reported("applied") \cup {o}
        BY <4>2, <4>3 DEF Reported
      <4>5. \A i \in 1..(n - 1) : buf["applied"][i] \in done
        BY <2>2, <4>2 DEF Reported
      <4>6. \A i, j \in DOMAIN buf'["applied"] :
               i # j => buf'["applied"][i] # buf'["applied"][j]
        BY <2>2, <4>1, <4>2, <4>3, <4>5
      <4> QED BY <2>2, <4>1, <4>4, <4>6 DEF AppliedSectionExact
    <3> QED BY <3>1, <3>2
  <2> QED BY <2>4, <2>5, <2>6, <2>7, OnlyPatchesReport
<1> QED BY <1>1, <1>2, AppliedRests, PTL DEF Spec

\* Appending an event keeps what a section reports and adds the event.
LEMMA ReportedGrows ==
  ASSUME NEW e \in Events, NEW d \in Events, NEW o \in PatchInfos,
         buf \in [Sections -> Seq(PatchInfos)], buf' = [buf EXCEPT ![e] = Append(@, o)]
  PROVE  /\ Reported(d) \subseteq Reported(d)'
         /\ o \in Reported(e)'
<1>1. e \in Sections /\ d \in Sections /\ buf[e] \in Seq(PatchInfos)
  BY DEF Sections
<1> DEFINE n == Len(buf[e]) + 1
<1>2. /\ n \in Nat \ {0} /\ DOMAIN buf[e] = 1..(n - 1) /\ DOMAIN buf'[e] = 1..n
      /\ buf'[e][n] = o /\ \A i \in 1..(n - 1) : buf'[e][i] = buf[e][i]
  BY <1>1
<1> HIDE DEF n
<1>3. n \in 1..n /\ 1..(n - 1) \subseteq 1..n
  BY <1>2
<1>4. o \in Reported(e)' /\ Reported(e) \subseteq Reported(e)'
  BY <1>2, <1>3 DEF Reported
<1>5. CASE d # e
  <2>1. buf'[d] = buf[d]
    BY <1>1, <1>5
  <2> QED BY <1>4, <2>1 DEF Reported
<1> QED BY <1>4, <1>5

\* Whatever is reported next, a patch that was accounted for stays so.
LEMMA AccountedStep ==
  ASSUME CoreInv, buffered, AppliedAtRest', AppliedSectionExact', buffered', pc' = "run",
         NEW q, UNCHANGED <<resolved, entries>>, done \subseteq done',
         ObjectAt(q) \in done' \/ ObjectAt(q) \in (Reported("skipped") \cup Reported("failed"))'
  PROVE  Accounted(q)'
<1>1. ObjectAt(q)' = ObjectAt(q)
  BY DEF ObjectAt, Kind
<1>2. Reported("applied")' = done'
  BY DEF AppliedAtRest, AppliedSectionExact
<1> QED BY <1>1, <1>2 DEF Accounted

\* When apply() is about to return, no patch of the timeline has been lost:
\* each one is reported as applied, skipped or failed.
THEOREM AllAccounted == Spec => []EveryPatchAccounted
<1>1. Init => PassedPatchesAccounted
  BY DEF Init, PassedPatchesAccounted
<1>2. /\ PassedPatchesAccounted /\ CoreInv /\ (AppliedAtRest /\ CoreInv)'
      /\ AppliedSectionExact /\ AppliedSectionExact' /\ [Next]_vars
      => PassedPatchesAccounted'
  <2> SUFFICES ASSUME PassedPatchesAccounted, CoreInv, AppliedAtRest', AppliedSectionExact,
                      AppliedSectionExact', [Next]_vars, buffered, buffered', pc' = "run",
                      NEW q \in (collected \ todo)'
               PROVE  Accounted(q)'
    BY BufferingFixed DEF PassedPatchesAccounted
  <2>0. buf \in [Sections -> Seq(PatchInfos)]
    BY DEF CoreInv, TypeOK, LoggerTypeOK
  <2>1. CASE Collected
    BY <2>1 DEF Collected
  <2>2. CASE \E p \in todo : SkipDisabled(p)
    <3>1. PICK p \in todo : SkipDisabled(p)
      BY <2>2
    <3>2. /\ pc = "run" /\ todo' = todo \ {p} /\ UNCHANGED <<resolved, entries, collected>>
          /\ done' = done
      BY <3>1 DEF SkipDisabled, Leave, Turn, timeline, caches, effects
    <3>3. /\ buf' = [buf EXCEPT !["skipped"] = Append(@, ObjectAt(p))]
          /\ ObjectAt(p) \in PatchInfos
      BY <3>1, SkipReports
    <3>4. /\ Reported("skipped") \subseteq Reported("skipped")'
          /\ Reported("failed") \subseteq Reported("failed")'
          /\ ObjectAt(p) \in Reported("skipped")'
      BY <2>0, <3>3, ReportedGrows DEF Events
    <3>5. CASE q = p
      BY <3>2, <3>4, <3>5, AccountedStep
    <3>6. CASE q # p
      <4>1. Accounted(q)
        BY <3>2, <3>6 DEF PassedPatchesAccounted
      <4>2. \/ ObjectAt(q) \in done'
            \/ ObjectAt(q) \in (Reported("skipped") \cup Reported("failed"))'
        BY <3>2, <3>4, <4>1 DEF Accounted
      <4> QED BY <3>2, <4>2, AccountedStep
    <3> QED BY <3>5, <3>6
  <2>3. CASE \E p \in todo : PassOver(p)
    <3>1. PICK p \in todo : PassOver(p)
      BY <2>3
    <3>2. /\ pc = "run" /\ todo' = todo \ {p}
          /\ UNCHANGED <<resolved, entries, collected, done, buf>>
          /\ ObjectAt(p) \in done'
      BY <3>1 DEF PassOver, timeline, caches, effects, loggerVars
    <3>3. q # p => Accounted(q)
      BY <3>2 DEF PassedPatchesAccounted
    <3>4. \/ ObjectAt(q) \in done'
          \/ ObjectAt(q) \in (Reported("skipped") \cup Reported("failed"))'
      BY <3>2, <3>3 DEF Accounted, Reported
    <3> QED BY <3>2, <3>4, AccountedStep
  <2>4. ASSUME NEW p \in todo, NEW r \in Results(AtomAt(p)), Attempt(p, r)
        PROVE  Accounted(q)'
    <3>1. /\ pc = "run" /\ todo' = todo \ {p} /\ UNCHANGED <<resolved, entries, collected>>
      BY <2>4 DEF Attempt, Leave, Turn, timeline, caches
    <3>2. /\ ObjectAt(p) \in PatchInfos /\ done \subseteq done'
          /\ \/ /\ ObjectAt(p) \in done'
                /\ buf' = [buf EXCEPT !["applied"] = Append(@, ObjectAt(p))]
             \/ \E e \in {"skipped", "failed"} :
                   buf' = [buf EXCEPT ![e] = Append(@, ObjectAt(p))]
      BY <2>4, AttemptReports
    <3>3. /\ Reported("skipped") \subseteq Reported("skipped")'
          /\ Reported("failed") \subseteq Reported("failed")'
          /\ ObjectAt(p) \in done' \/ ObjectAt(p) \in (Reported("skipped") \cup Reported("failed"))'
      BY <2>0, <3>2, ReportedGrows DEF Events
    <3>4. CASE q = p
      BY <3>1, <3>2, <3>3, <3>4, AccountedStep
    <3>5. CASE q # p
      <4>1. Accounted(q)
        BY <3>1, <3>5 DEF PassedPatchesAccounted
      <4>2. \/ ObjectAt(q) \in done'
            \/ ObjectAt(q) \in (Reported("skipped") \cup Reported("failed"))'
        BY <3>2, <3>3, <4>1 DEF Accounted
      <4> QED BY <3>1, <3>2, <4>2, AccountedStep
    <3> QED BY <3>4, <3>5
  <2>5. CASE UNCHANGED vars
    BY <2>5 DEF vars, timeline, caches, effects, control, loggerVars,
                PassedPatchesAccounted, Accounted, ObjectAt, Kind, Reported
  <2>6. ~(Call \/ CheckConflicts \/ BootstrapEntry \/ BootstrapDone \/ CollectEntry \/ FinishApply)
    BY DEF Call, AddClass, AddDirect, AddSameObject, Disable, WantLoopPatches, PrintInfo,
           StartApply, BeginApply, MayAdd, control, CheckConflicts, BootstrapEntry, BootstrapDone,
           CollectEntry, CollectionRaises, FinishApply, caches
  <2> QED BY <2>1, <2>2, <2>3, <2>4, <2>5, <2>6 DEF Next, Proceed, ApplyPatch
<1>3. PassedPatchesAccounted /\ RefinementInv => EveryPatchAccounted
  BY DEF RefinementInv, LoopsFollowTimeline, PassedPatchesAccounted, EveryPatchAccounted,
         Accounted
<1> QED BY <1>1, <1>2, <1>3, AppliedRests, AppliedReported, LoopsFollow, PTL DEF Spec

-----------------------------------------------------------------------------
(* The contract *)

\* The operators of the contract are those of the patcher.
LEMMA SamePlan ==
  ASSUME CoreInv
  PROVE  /\ Contract!Wanted = Gathered
         /\ \A i \in BootstrapIndexes : PatchesOf(i) \subseteq Contract!Early
         /\ \A p : Contract!Atom(p) = AtomAt(p)
         /\ Contract!Clash <=> ConflictFound
         /\ \A p, q : Contract!Precedes(p, q) <=> Before(p, q)
<1>1. Contract!Enabled = EnabledClassIndexes \cup (DOMAIN entries \ ClassIndexes)
  BY DEF Contract!Enabled, EnabledClassIndexes, ClassIndexes, Kind, ItemOf
<1>2. \A i : Contract!PatchesAt(i) = PatchesOf(i)
  BY DEF Contract!PatchesAt, PatchesOf, Arity, Kind, ItemOf
<1>3. Contract!EnabledClasses = EnabledClassIndexes
  BY <1>1 DEF Contract!EnabledClasses, EnabledClassIndexes, ClassIndexes, Kind
<1>4. Contract!Wanted = Gathered
  BY <1>1, <1>2 DEF Contract!Wanted, Gathered
<1>5. \A i \in BootstrapIndexes : PatchesOf(i) \subseteq Contract!Early
  BY <1>2, <1>3 DEF Contract!Early, BootstrapIndexes, ItemOf
<1>6. \A p : Contract!Atom(p) = AtomAt(p)
  BY DEF Contract!Atom, AtomAt, Kind, ItemOf
<1>7. Contract!Clash <=> ConflictFound
  BY <1>3 DEF Contract!Clash, ConflictFound, ItemOf
<1>8. \A p, q : Contract!Precedes(p, q) <=> Before(p, q)
  BY DEF Contract!Precedes, Before
<1> QED BY <1>4, <1>5, <1>6, <1>7, <1>8

\* An attempt touches its targets as the contract says, whatever came of it.
LEMMA AttemptTouches ==
  ASSUME CoreInv, NEW p \in todo, NEW r \in Results(AtomAt(p)), Attempt(p, r)
  PROVE  Contract!Touch(p)
<1> DEFINE a == AtomAt(p)
           l == [atom |-> a, obj |-> ObjectAt(p), at |-> p]
           Strip(q) == [k \in DOMAIN q |-> q[k].atom]
<1>1. /\ r.hit \in SUBSET ({MainSlot[a]} \cup Aliases[a])
      /\ NameOf[a] \notin blacklist
      /\ attr' = Written(l, r.hit)
  BY DEF Results, Sites, Attempt
<1>2. ASSUME NEW s \in Slots
      PROVE  Strip(attr'[s]) = IF s \in r.hit THEN Contract!Stacked(Strip(attr[s]), a)
                                              ELSE Strip(attr[s])
  <2>1. attr[s] \in Seq(Layers)
    BY DEF CoreInv, TypeOK
  <2>2. attr'[s] = IF s \in r.hit THEN Layered(attr[s], l) ELSE attr[s]
    BY <1>1 DEF Written
  <2>3. ASSUME a \in Wrappers PROVE Strip(Layered(attr[s], l)) = Append(Strip(attr[s]), a)
    <3>1. Layered(attr[s], l) = Append(attr[s], l)
      BY <2>3 DEF Layered
    <3>2. l.atom = a
      OBVIOUS
    <3> HIDE DEF l, a
    <3>3. /\ DOMAIN Append(attr[s], l) = 1..(Len(attr[s]) + 1)
          /\ \A k \in 1..Len(attr[s]) : Append(attr[s], l)[k] = attr[s][k]
          /\ Append(attr[s], l)[Len(attr[s]) + 1] = l
      BY <2>1
    <3>4. Len(attr[s]) \in Nat /\ DOMAIN attr[s] = 1..Len(attr[s])
      BY <2>1
    <3>5. Len(Strip(attr[s])) = Len(attr[s])
      BY <3>4
    <3>6. Append(Strip(attr[s]), a)
            = [k \in 1..(Len(attr[s]) + 1) |->
                 IF k = Len(attr[s]) + 1 THEN a ELSE attr[s][k].atom]
      BY <3>4, <3>5
    <3> QED BY <3>1, <3>2, <3>3, <3>4, <3>6
  <2>4. ASSUME a \notin Wrappers PROVE Strip(Layered(attr[s], l)) = <<a>>
    <3>1. Layered(attr[s], l) = <<l>>
      BY <2>4 DEF Layered
    <3> QED BY <3>1
  <2> QED BY <2>2, <2>3, <2>4 DEF Contract!Stacked
<1>3. AtomsOn' = [s \in Slots |-> IF s \in r.hit THEN Contract!Stacked(AtomsOn[s], a)
                                                 ELSE AtomsOn[s]]
  BY <1>2 DEF AtomsOn
<1>4. Contract!Atom(p) = a
  BY SamePlan
<1> QED BY <1>1, <1>3, <1>4 DEF Contract!Touch

-----------------------------------------------------------------------------
\* Patcher implements ApplyContract: its initial states are initial states of
\* the contract, and each of its steps is a step of the contract or none.
THEOREM Implements == Spec => MeetsContract
<1>1. Init => Contract!Init
  <2> SUFFICES ASSUME Init PROVE Contract!Init
    OBVIOUS
  <2>1. Phase = "open" /\ Settled = {}
    BY DEF Init, Phase, Settled
  <2>2. AtomsOn = [s \in Slots |-> <<>>]
    BY DEF Init, AtomsOn
  <2> QED BY <2>1, <2>2 DEF Init, Contract!Init
<1>2. RefinementInv /\ [Next]_vars => [Contract!Next]_(Contract!vars)
  <2> SUFFICES ASSUME RefinementInv, [Next]_vars
               PROVE  Contract!Next \/ UNCHANGED Contract!vars
    OBVIOUS
  <2> USE DEF RefinementInv
  <2>1. UNCHANGED attr => UNCHANGED AtomsOn
    BY DEF AtomsOn
  <2>2. CASE Call
    <3>1. pc = "idle" /\ UNCHANGED attr /\ Settled = {} /\ Settled' = {}
      BY <2>2 DEF Call, AddClass, AddDirect, AddSameObject, Disable, WantLoopPatches,
                  PrintInfo, StartApply, BeginApply, MayAdd, control, effects, Settled
    <3>2. blacklist \subseteq blacklist'
      BY <2>2 DEF Call, AddClass, AddDirect, AddSameObject, Disable, WantLoopPatches,
                  PrintInfo, StartApply, BeginApply, timeline
    <3>3. Contract!Extended
      <4>1. entries \in Seq(Entries)
        BY DEF CoreInv, TypeOK
      <4>2. CASE UNCHANGED entries
        BY <4>1, <4>2 DEF Contract!Extended
      <4>3. ASSUME NEW e, entries' = Append(entries, e) PROVE Contract!Extended
        BY <4>1, <4>3 DEF Contract!Extended
      <4>4. CASE entries' = WithLoopPatches
        <5> DEFINE new == [k \in 1..Len(LoopAtoms) |-> DirectEntry(LoopAtoms[k], made + k)]
        <5>1. LoopAtoms \in Seq(Atoms)
          BY PatcherAssumption
        <5>2. Len(new) = Len(LoopAtoms) /\ Len(LoopAtoms) \in Nat
          BY <5>1
        <5>3. entries' = entries \o new
          BY <4>4 DEF WithLoopPatches
        <5> HIDE DEF new
        <5>4. /\ Len(entries \o new) = Len(entries) + Len(new)
              /\ \A i \in 1..Len(entries) : (entries \o new)[i] = entries[i]
          BY <4>1, <5>2
        <5> QED BY <4>1, <5>2, <5>3, <5>4 DEF Contract!Extended
      <4> QED BY <2>2, <4>2, <4>3, <4>4
              DEF Call, AddClass, AddDirect, AddSameObject, Disable, WantLoopPatches,
                  PrintInfo, StartApply, BeginApply, timeline
    <3>4. CASE pc' \in {"idle", "info"}
      <4>1. UNCHANGED applied
        BY <2>2 DEF Call, AddClass, AddDirect, AddSameObject, Disable, WantLoopPatches,
                    PrintInfo, StartApply, BeginApply, control
      <4>2. Phase' = Phase /\ Phase \in {"open", "final"}
        BY <3>1, <3>4, <4>1 DEF Phase
      <4> QED BY <2>1, <3>1, <3>2, <3>3, <4>2 DEF Contract!Plan, Contract!Next
    <3>5. CASE StartApply
      <4>1. Phase = "open" /\ Phase' = "checking" /\ UNCHANGED blacklist
        BY <3>5 DEF StartApply, BeginApply, Phase
      <4> QED BY <2>1, <3>1, <3>3, <4>1 DEF Contract!Begin, Contract!Next
    <3> QED BY <2>2, <3>4, <3>5
            DEF Call, AddClass, AddDirect, AddSameObject, Disable, WantLoopPatches,
                PrintInfo, MayAdd, control
  <2>3. CASE CheckConflicts
    <3>1. UNCHANGED <<entries, blacklist, attr>> /\ Settled = {} /\ Settled' = {}
      BY <2>3 DEF CheckConflicts, timeline, effects, Settled
    <3>2. Phase = "checking" /\ Phase' = IF ConflictFound THEN "open" ELSE "early"
      BY <2>3 DEF CheckConflicts, Phase, AppliedAtRest
    <3> QED BY <2>1, <3>1, <3>2, SamePlan DEF Contract!Refuse, Contract!Admit, Contract!Next
  <2>4. CASE BootstrapEntry \/ BootstrapDone \/ CollectEntry
    <3>1. UNCHANGED <<entries, blacklist, attr, applied>> /\ Settled = {} /\ Settled' = {}
      BY <2>4 DEF BootstrapEntry, BootstrapDone, CollectEntry, CollectionRaises,
                  timeline, effects, Settled
    <3>2. Phase' = Phase \/ (Phase = "early" /\ Phase' = "open")
      BY <2>4 DEF BootstrapEntry, BootstrapDone, CollectEntry, CollectionRaises, Phase,
                  AppliedAtRest, caches
    <3> QED BY <2>1, <3>1, <3>2 DEF Contract!GiveUp, Contract!Next, Contract!vars
  <2>5. CASE Collected
    <3>1. UNCHANGED <<entries, blacklist, attr, applied>> /\ Settled = {} /\ Settled' = {}
      BY <2>5 DEF Collected, timeline, effects, Settled
    <3>2. Phase' = Phase \/ (Phase = "early" /\ Phase' = "main")
      BY <2>5 DEF Collected, Phase
    <3> QED BY <2>1, <3>1, <3>2 DEF Contract!EarlyDone, Contract!Next, Contract!vars
  <2>6. CASE ApplyPatch
    <3>1. PICK p \in todo : \/ SkipDisabled(p) \/ PassOver(p)
                            \/ \E r \in Results(AtomAt(p)) : Attempt(p, r)
      BY <2>6 DEF ApplyPatch
    <3>2. /\ Turn(p)
          /\ UNCHANGED <<entries, blacklist, collected, applied>>
          /\ \/ UNCHANGED pc /\ todo' = todo \ {p}
             \/ pc' \in {"idle", "exited"} /\ todo' = {}
      BY <3>1 DEF SkipDisabled, PassOver, Attempt, Leave, timeline, caches
    <3>3. Contract!Touch(p)
      <4>1. CASE \E r \in Results(AtomAt(p)) : Attempt(p, r)
        BY <4>1, AttemptTouches
      <4>2. CASE UNCHANGED attr
        <5>1. AtomsOn' = [s \in Slots |-> IF s \in {} THEN Contract!Stacked(AtomsOn[s], Contract!Atom(p))
                                                      ELSE AtomsOn[s]]
          BY <2>1, <4>2 DEF AtomsOn
        <5>2. /\ {} \in SUBSET ({MainSlot[Contract!Atom(p)]} \cup Aliases[Contract!Atom(p)])
              /\ NameOf[Contract!Atom(p)] \in blacklist => {} = {}
          OBVIOUS
        <5> QED BY <5>1, <5>2, Zenon DEF Contract!Touch
      <4> QED BY <3>1, <4>1, <4>2 DEF SkipDisabled, PassOver, effects
    <3>4. CASE pc = "bootstrap"
      <4>1. Phase = "early" /\ Phase' \in {"early", "open", "dead"}
        BY <3>2, <3>4 DEF Phase, AppliedAtRest
      <4>2. Settled = {} /\ Settled' = {}
        BY <3>2, <3>4 DEF Settled
      <4>3. p \in Contract!Early
        <5>1. p[1] \in BootstrapIndexes
          BY <3>4 DEF LoopsFollowTimeline
        <5>2. p \in PatchesOf(p[1])
          BY DEF CoreInv, ControlInv, PendingPatches, TypeOK, Positions, PatchesOf
        <5> QED BY <5>1, <5>2, SamePlan
      <4> QED BY <3>2, <3>3, <4>1, <4>2, <4>3 DEF Contract!ApplyEarly, Contract!Next
    <3>5. CASE pc = "run"
      <4>1. Settled = Gathered \ todo /\ todo \subseteq Gathered
        BY <3>5 DEF Settled, LoopsFollowTimeline
      <4>2. Phase = "main"
        BY <3>5 DEF Phase
      <4>3. \A q \in Contract!Wanted \ Settled : q = p \/ Contract!Precedes(p, q)
        BY <3>2, <4>1, SamePlan DEF Turn
      <4>4. p \in Contract!Wanted \ Settled
        BY <4>1, SamePlan
      <4>5. \/ Phase' = "main" /\ Settled' = Settled \cup {p}
            \/ Phase' \in {"open", "dead"} /\ Settled' = {}
        BY <3>2, <3>5, <4>1 DEF Phase, Settled, AppliedAtRest, LoopsFollowTimeline
      <4> QED BY <3>2, <3>3, <4>2, <4>3, <4>4, <4>5 DEF Contract!Settle, Contract!Next
    <3> QED BY <3>2, <3>4, <3>5 DEF Turn
  <2>7. CASE FinishApply
    <3>1. UNCHANGED <<entries, blacklist, attr>>
      BY <2>7 DEF FinishApply, timeline, effects
    <3>2. Phase = "main" /\ Phase' = "final" /\ Settled = Gathered /\ Settled' = {}
      BY <2>7 DEF FinishApply, Phase, Settled, LoopsFollowTimeline
    <3> QED BY <2>1, <3>1, <3>2, SamePlan DEF Contract!Complete, Contract!Next
  <2>8. CASE UNCHANGED vars
    <3>1. UNCHANGED <<entries, blacklist, attr, Phase, Settled>>
      BY <2>8 DEF vars, timeline, caches, effects, control, Phase, Settled
    <3> QED BY <2>1, <3>1 DEF Contract!vars
  <2> QED BY <2>2, <2>3, <2>4, <2>5, <2>6, <2>7, <2>8 DEF Next, Proceed
<1> QED BY <1>1, <1>2, LoopsFollow, PTL DEF Spec, MeetsContract, Contract!Spec
=============================================================================
