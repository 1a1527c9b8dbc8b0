\* Threads that call a lazily resolved function for the first time.
CONSTANTS
  npu = npu
  runner = runner
  npuName = npuName
  fp16 = fp16
  op = op
  Nothing = Nothing
  Threads = {t1, t2}
  Modules = {npu, runner}
  Names = {npuName, fp16, op}
  Imports <- MCImports
  ModuleName <- MCModuleName
  Exports <- MCExports
  Ready = {npu}
  Unstable = {runner}
  Decorators <- MCDecorators
  Flaky = {2}
  Stubs = {3}
SPECIFICATION Spec
INVARIANTS
  WithImportsTypeOK
  NeverCallsNothing
  ExactWhenAlone
PROPERTIES
  ClosedOnceSettled
  CallsReturn
