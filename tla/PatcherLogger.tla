--------------------------- MODULE PatcherLogger ---------------------------
(***************************************************************************)
(* The process-wide logger of the patcher (mx_driving/patcher/             *)
(* patcher_logger.py).  Every patcher of the process reports its patches   *)
(* here: an event is either buffered until flush_summary() or handled at   *)
(* once by the action configured for it, which may raise PatchError or end *)
(* the process.                                                            *)
(*                                                                         *)
(* Messages, log levels and the layout of the summary are left out: an     *)
(* event carries only the identity of the patch it reports (a PatchInfo).  *)
(* The four log levels act alike here and are the single action "log".     *)
(***************************************************************************)
EXTENDS Integers, Sequences

CONSTANTS
  PatchInfos,   \* what an event reports: the identities of patches
  Ranks,        \* distributed ranks of this process
  ConfigEvents,   \* events whose action the caller reconfigures
  ConfigSections, \* summary sections the caller shows or hides
  MaxBuffered   \* bound: events one buffer holds before the next flush

ASSUME LoggerAssumption ==
  /\ Ranks \subseteq Nat
  /\ 0 \in Ranks
  /\ MaxBuffered \in Nat
  /\ ConfigEvents \subseteq {"applied", "skipped", "failed"}
  /\ ConfigSections \subseteq {"applied", "skipped", "failed", "imports"}

VARIABLES
  action,      \* event -> LogAction (_on_apply, _on_skip, _on_fail)
  buffered,    \* _buffer_enabled
  envRank,     \* the rank the environment announces now
  rank,        \* _rank, or Unset while _rank_initialized is False
  summaryOn,   \* _summary.enabled
  show,        \* section -> a flag: True, False or None (show_applied, ...)
  buf,         \* section -> buffered events
  emitted,     \* the last summary written, or NoSummary
  outcome      \* how the last event call ended

loggerConfig == <<action, buffered, envRank, summaryOn, show>>
loggerVars == <<loggerConfig, rank, buf, emitted, outcome>>

Events   == {"applied", "skipped", "failed"}
Sections == Events \cup {"imports"}
Actions  == {"log", "silent", "exception", "exit"}
Outcomes == {"ok", "raise", "exit"}

Flags     == {"on", "off", "auto"}
Unset     == -1
NoSummary == <<>>

EmptyBuffers == [s \in Sections |-> <<>>]

LoggerTypeOK ==
  /\ action \in [Events -> Actions]
  /\ buffered \in BOOLEAN
  /\ envRank \in Ranks
  /\ rank \in Ranks \cup {Unset}
  /\ summaryOn \in BOOLEAN
  /\ show \in [Sections -> Flags]
  /\ buf \in [Sections -> Seq(PatchInfos)]
  /\ emitted \in [Sections -> Seq(PatchInfos)] \cup {NoSummary}
  /\ outcome \in Outcomes

\* A logger whose caller has set its event actions and its buffering, and
\* nothing else, since __init__.
LoggerStart(policy, buffering) ==
  /\ action = policy
  /\ buffered = buffering
  /\ envRank \in Ranks
  /\ rank = Unset
  /\ summaryOn = TRUE
  /\ show = [s \in Sections |-> IF s = "imports" THEN "on" ELSE "auto"]
  /\ buf = EmptyBuffers
  /\ emitted = NoSummary
  /\ outcome = "ok"

\* __init__: events are buffered, failures warn, and the sections of the three
\* events follow their action, while import events are shown.
LoggerInit == LoggerStart([e \in Events |-> "log"], TRUE)

-----------------------------------------------------------------------------
(* Events *)

\* _ensure_rank_initialized: the environment is read once, on first use.
KnownRank == IF rank = Unset THEN envRank ELSE rank

\* _handle: what the configured action does to the caller.  The rank filter
\* concerns only what is printed, so it has no part in the outcome.
Handle(act) ==
  IF act = "exception" THEN "raise" ELSE IF act = "exit" THEN "exit" ELSE "ok"

\* _handle consults the rank, and so fixes it, only on the paths that print.
RankAfter(act) == IF act \in {"log", "exit"} THEN KnownRank ELSE rank

\* Mutant: nothing is handled while events are buffered.
ImmediateUnbuffered(e) == ~buffered

\* A failure is handled at once when it must raise or exit, even while events
\* are buffered; the other two events only when nothing is buffered.
Immediate(e) ==
  \/ ~buffered
  \/ e = "failed" /\ action[e] \in {"exception", "exit"}

\* Mutant: a section holds its last event only.
LogLast(b, e, p) ==
  IF Immediate(e)
    THEN [buf |-> b, rank |-> RankAfter(action[e]), out |-> Handle(action[e])]
    ELSE [buf |-> [b EXCEPT ![e] = p], rank |-> rank, out |-> "ok"]

\* One call of applied(), skipped() or failed(), made when the buffers are b.
Log(b, e, p) ==
  IF Immediate(e)
    THEN [buf |-> b, rank |-> RankAfter(action[e]), out |-> Handle(action[e])]
    ELSE [buf |-> [b EXCEPT ![e] = Append(@, p)], rank |-> rank, out |-> "ok"]

LogEvent(e, p) ==
  LET r == Log(buf, e, p)
  IN /\ Len(buf[e]) < MaxBuffered
     /\ buf' = r.buf
     /\ rank' = r.rank
     /\ outcome' = r.out
     /\ UNCHANGED <<loggerConfig, emitted>>

\* add_skipped_module, add_injected_import, add_replaced_import: always
\* buffered, whatever set_buffer_enabled says.
RecordImport(p) ==
  /\ Len(buf["imports"]) < MaxBuffered
  /\ buf' = [buf EXCEPT !["imports"] = Append(@, p)]
  /\ outcome' = "ok"
  /\ UNCHANGED <<loggerConfig, rank, emitted>>

-----------------------------------------------------------------------------
(* Summary *)

\* Mutant: a section is shown unless it was hidden by its flag.
ShownUnlessOff(s) == show[s] # "off"

\* _should_show_section: an explicit flag wins, otherwise a silent event hides
\* its section.
SectionShown(s) ==
  IF show[s] = "auto" THEN action[s] # "silent" ELSE show[s] = "on"

Visible == {s \in Sections : SectionShown(s) /\ buf[s] # <<>>}

Summary == [s \in Sections |-> IF s \in Visible THEN buf[s] ELSE <<>>]

\* flush_summary: the buffers are cleared on every path, and a summary is
\* written by rank 0 when there is something to show.
FlushSummary ==
  /\ rank' = KnownRank
  /\ buf' = EmptyBuffers
  /\ emitted' = IF KnownRank = 0 /\ summaryOn /\ Visible # {} THEN Summary
                ELSE emitted

-----------------------------------------------------------------------------
(* The logger under any caller *)

Configure(e, act) ==
  /\ action' = [action EXCEPT ![e] = act]
  /\ UNCHANGED <<buffered, envRank, rank, summaryOn, show, buf, emitted, outcome>>

\* Mutant: switching the buffering drops what is buffered.
SetBufferEnabledDropping(on) ==
  /\ buffered' = on
  /\ buf' = EmptyBuffers
  /\ UNCHANGED <<action, envRank, rank, summaryOn, show, emitted, outcome>>

\* set_buffer_enabled: what is already buffered stays until the next flush.
SetBufferEnabled(on) ==
  /\ buffered' = on
  /\ UNCHANGED <<action, envRank, rank, summaryOn, show, buf, emitted, outcome>>

SetRank(r) ==
  /\ rank' = r
  /\ UNCHANGED <<loggerConfig, buf, emitted, outcome>>

\* set_rank_from_env reads the environment again.
SetRankFromEnv == SetRank(envRank)

\* configure_summary: any of its arguments may be given.
ConfigureSummary(on, s, flag) ==
  /\ summaryOn' = on
  /\ show' = [show EXCEPT ![s] = flag]
  /\ UNCHANGED <<action, buffered, envRank, rank, buf, emitted, outcome>>

Flush ==
  /\ FlushSummary
  /\ UNCHANGED <<loggerConfig, outcome>>

\* The launcher exports RANK, possibly after the first message was logged.
ExportRank(r) ==
  /\ envRank' = r
  /\ UNCHANGED <<action, buffered, rank, summaryOn, show, buf, emitted, outcome>>

LoggerNext ==
  \/ \E e \in Events, p \in PatchInfos : LogEvent(e, p)
  \/ \E p \in PatchInfos : RecordImport(p)
  \/ \E e \in ConfigEvents, act \in Actions : Configure(e, act)
  \/ \E on \in BOOLEAN : SetBufferEnabled(on)
  \/ \E r \in Ranks : SetRank(r) \/ ExportRank(r)
  \/ SetRankFromEnv
  \/ \E on \in BOOLEAN, s \in ConfigSections, flag \in {"on", "off"} :
        ConfigureSummary(on, s, flag)
  \/ Flush

LoggerSpec == LoggerInit /\ [][LoggerNext]_loggerVars

-----------------------------------------------------------------------------
(* Properties *)

\* A reported failure stops the caller whenever it was asked to, on every rank
\* and whether or not events are buffered.
FailureNeverSwallowed ==
  [][\A p \in PatchInfos : LogEvent("failed", p) =>
       /\ action["failed"] = "exception" => outcome' = "raise"
       /\ action["failed"] = "exit" => outcome' = "exit"]_loggerVars

\* A summary comes from rank 0, shows whole sections, and nothing of an event
\* that is configured to be silent unless its section was asked for.
SummaryHonest ==
  [][emitted' # emitted =>
       /\ rank' = 0
       /\ \A s \in Sections :
            emitted'[s] \in {<<>>, buf[s]}
       /\ \A e \in Events :
            action[e] = "silent" /\ show[e] = "auto" => emitted'[e] = <<>>]_loggerVars

\* A section that a summary written now would have to show.
AskedFor(s) ==
  /\ summaryOn /\ buf[s] # <<>>
  /\ show[s] = "on" \/ (s \in Events /\ show[s] = "auto" /\ action[s] # "silent")

\* Whatever is configured while events are buffered, none is lost and none is
\* repeated: they leave the buffers all together, so that no later summary has
\* them again, and on rank 0 only into a summary that shows each section that
\* was asked for.
NoEventLost ==
  [][\/ \A s \in Sections :
          buf'[s] = buf[s] \/ \E p \in PatchInfos : buf'[s] = Append(buf[s], p)
     \/ /\ buf' = EmptyBuffers
        /\ \A s \in Sections :
             AskedFor(s) /\ rank' = 0 => emitted' # NoSummary /\ emitted'[s] = buf[s]]_loggerVars

\* What configure() documents of the "exception" action: the event raises
\* PatchError.
ExceptionRaisesPatchError ==
  [][\A e \in Events, p \in PatchInfos :
       LogEvent(e, p) /\ action[e] = "exception" => outcome' = "raise"]_loggerVars
=============================================================================
