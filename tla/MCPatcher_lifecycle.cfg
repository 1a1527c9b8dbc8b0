\* One patcher with the default logging: events are buffered, failures warn.
CONSTANTS
  compat = compat
  msda = msda
  deform = deform
  wrapC = wrapC
  wrapM = wrapM
  replM = replM
  wrapD = wrapD
  hook = hook
  loop = loop
  s1 = s1
  s2 = s2
  Names <- MCNames
  Classes = {compat, msda, deform}
  Atoms <- MCAtoms
  Slots <- MCSlots
  NameOf <- MCNameOf
  Children <- MCChildren
  Bootstrap = {compat}
  Conflicts <- MCConflicts
  Flaky = {msda}
  MainSlot <- MCMainSlot
  Aliases <- MCAliases
  Wrappers = {wrapC, wrapM, wrapD, hook, loop}
  Legacy = {loop}
  Faults <- MCFaults
  LoopAtoms <- OneLoop
  DirectAtoms = {hook}
  Disablable = {msda, replM}
  LogPolicies <- LenientOnly
  BufferModes = {TRUE}
  LateAdds = TRUE
  MaxEntries = 3
  MaxBatches = 12
  MaxChildren = 2
  MaxSessions = 2
  PatchInfos <- MCObjects
  Ranks = {0}
  ConfigEvents = {}
  ConfigSections = {}
  MaxBuffered = 0
SPECIFICATION Spec
INVARIANTS
  TypeOK
  NoConflictWhileApplying
  EveryPatchAccounted
PROPERTIES
  DisabledStaysOut
  MeetsContract
CHECK_DEADLOCK FALSE
