SPECIFICATION Spec
CONSTANTS
  TileLength = 2
  ByteRange = 256
  BufferLen <- MCBufferLen
  Inf = 18
  Calls <- InfiniteCalls
  Stale = {1, 18}
INVARIANT SortsAndDeduplicates
