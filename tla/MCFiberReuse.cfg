CONSTANTS
  b1 = b1
  b2 = b2
  b3 = b3
  p1 = p1
  p2 = p2
  f1 = f1
  f2 = f2
  None = None
  Threads <- Threads2
  Blocks <- Blocks3
  Fibers <- Fibers2
  Requests <- Sizes
  DefaultSize = 2
  CachePerWorker = 1
  Powers <- PowersOfTwo
  Minimum = 1
  Guard = 2
  MaxCachedBytes = 6
  MaxPooledStackSize = 3
SPECIFICATION ReuseSpec
SYMMETRY Symmetry
INVARIANTS CacheBounded GaugesExact CachedUnaliased 
