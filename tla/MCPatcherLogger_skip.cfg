\* on_skip set to "exception" with the default buffering.
CONSTANTS
  info = info
  PatchInfos = {info}
  Ranks = {0, 1}
  ConfigEvents = {"skipped", "failed"}
  ConfigSections = {"failed"}
  MaxBuffered = 1
SPECIFICATION LoggerSpec
PROPERTY
  ExceptionRaisesPatchError
CHECK_DEADLOCK FALSE
