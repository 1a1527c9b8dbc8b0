\* Event actions that raise or exit in the middle of apply(), and its retry.
CONSTANTS
  compat = compat
  msda = msda
  deform = deform
  wrapC = wrapC
  wrapM = wrapM
  replM = replM
  wrapD = wrapD
  hook = hook
  loop = loop
  s1 = s1
  s2 = s2
  Names <- MCNames
  Classes = {compat, msda}
  Atoms <- MCAtoms
  Slots <- MCSlots
  NameOf <- MCNameOf
  Children <- MCChildren
  Bootstrap = {compat}
  Conflicts <- MCConflicts
  Flaky = {msda}
  MainSlot <- MCMainSlot
  Aliases <- MCAliases
  Wrappers = {wrapC, wrapM, wrapD, hook, loop}
  Legacy = {loop}
  Faults <- MCFaults
  LoopAtoms <- OneLoop
  DirectAtoms = {hook}
  Disablable = {replM}
  LogPolicies <- EveryPolicy
  BufferModes = {TRUE, FALSE}
  LateAdds = FALSE
  MaxEntries = 2
  MaxBatches = 12
  MaxChildren = 2
  MaxSessions = 3
  PatchInfos <- MCObjects
  Ranks = {0}
  ConfigEvents = {}
  ConfigSections = {}
  MaxBuffered = 0
SPECIFICATION Spec
INVARIANTS
  OncePerObject
  AppliedSectionExact
PROPERTIES
  StrictFailureStops
  ApplyEnds
CHECK_DEADLOCK FALSE
