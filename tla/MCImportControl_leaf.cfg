\* A submodule skipped before its package on disk is imported.
CONSTANTS
  pkg = pkg
  sub = sub
  leaf = leaf
  util = util
  cuda = cuda
  ext = ext
  Root = Root
  Paths <- MCPaths
  ParentOf <- MCParentOf
  Above <- MCAbove
  OnDisk <- MCOnDisk
  Packages = {pkg, sub}
  Broken = {util}
  BodyImports <- MCBodyImports
  BaseImports <- OwnBases
SPECIFICATION Spec
INVARIANT
  SkippedReachable
CHECK_DEADLOCK FALSE
