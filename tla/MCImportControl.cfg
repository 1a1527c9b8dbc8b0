\* skip_import and replace_import before, between and after the imports they control.
CONSTANTS
  pkg = pkg
  sub = sub
  leaf = leaf
  util = util
  cuda = cuda
  ext = ext
  Root = Root
  Paths <- MCPaths
  ParentOf <- MCParentOf
  Above <- MCAbove
  OnDisk <- MCOnDisk
  Packages = {pkg, sub}
  Broken = {util}
  BodyImports <- MCBodyImports
  BaseImports <- OwnBases
SPECIFICATION Spec
INVARIANTS
  ImportTypeOK
  RealNotShadowed
  ReplacementReachable
PROPERTIES
  SkipHolds
  LoadedNotReplaced
  CallsEnd
