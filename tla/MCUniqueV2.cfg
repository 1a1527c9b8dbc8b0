SPECIFICATION Spec
CONSTANTS
  TileLength = 2
  ByteRange = 256
  BufferLen <- MCBufferLen
  Inf = 18
  Calls <- MCCalls
  Stale = {1, 18}
INVARIANTS
  UniqueTypeOK
  RaceFree
  SortedTogether
  ResultExact
PROPERTIES
  OutputAgrees
  Terminates
