\* A retry after PatchError, with profiling or brake configured.
CONSTANTS
  compat = compat
  msda = msda
  deform = deform
  wrapC = wrapC
  wrapM = wrapM
  replM = replM
  wrapD = wrapD
  hook = hook
  loop = loop
  s1 = s1
  s2 = s2
  Names <- MCNames
  Classes = {msda}
  Atoms <- MCAtoms
  Slots <- MCSlots
  NameOf <- MCNameOf
  Children <- MCChildren
  Bootstrap = {}
  Conflicts <- MCConflicts
  Flaky = {}
  MainSlot <- MCMainSlot
  Aliases <- MCAliases
  Wrappers = {wrapC, wrapM, wrapD, hook, loop}
  Legacy = {loop}
  Faults <- NoAliasFaults
  LoopAtoms <- OneLoop
  DirectAtoms = {}
  Disablable = {replM}
  LogPolicies <- StrictOnly
  BufferModes = {TRUE}
  LateAdds = FALSE
  MaxEntries = 3
  MaxBatches = 12
  MaxChildren = 2
  MaxSessions = 2
  PatchInfos <- MCObjects
  Ranks = {0}
  ConfigEvents = {}
  ConfigSections = {}
  MaxBuffered = 0
SPECIFICATION Spec
INVARIANT
  NeverNested
CHECK_DEADLOCK FALSE
