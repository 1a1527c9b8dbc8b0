\* The logger under any sequence of calls, reconfigured at any time.
CONSTANTS
  info = info
  PatchInfos = {info}
  Ranks = {0, 1}
  ConfigEvents = {"skipped", "failed"}
  ConfigSections = {"failed"}
  MaxBuffered = 1
SPECIFICATION LoggerSpec
INVARIANT
  LoggerTypeOK
PROPERTIES
  FailureNeverSwallowed
  SummaryHonest
  NoEventLost
CHECK_DEADLOCK FALSE
