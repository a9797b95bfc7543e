\* Two goroutines, three files, a cache of two entries, a file opened twice.
\* One message: with it no Add can come too late.
CONSTANTS
  Goroutines = {g1, g2}
  Names = {f1, f2, f3}
  Loggers = {l1, l2, l3, l4}
  Msgs = {m1}
  CacheCap = 2
  ChanCap = 1
  CacheLocked = FALSE
  None = None
SYMMETRY Symmetry
SPECIFICATION Spec
INVARIANTS NoOrphans EvictionFlushes WaitCoversCache
PROPERTY ImplementsDirectory
