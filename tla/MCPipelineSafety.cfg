\* Two goroutines, two loggers, a channel of two places.
CONSTANTS
  Goroutines = {g1, g2}
  Consumer = consumer
  Loggers = {l1, l2}
  Msgs = {m1, m2, m3}
  ChanCap = 2
  Faults = {}
  None = None
SYMMETRY Symmetry
SPECIFICATION Spec
INVARIANTS TaskAccounting FlushGuarantee MuteHasOwner NoLostWakeup PipelineInv Custody FifoFile
PROPERTY ImplementsAsyncLog
\* Every goroutine may end in the panic of a Fatalf.
CHECK_DEADLOCK FALSE
