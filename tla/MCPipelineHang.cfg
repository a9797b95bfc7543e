\* Wait while another goroutine prints.
CONSTANTS
  Goroutines = {g1, g2}
  Consumer = consumer
  Loggers = {l1}
  Msgs = {m1, m2}
  ChanCap = 2
  Faults = {}
  None = None
SPECIFICATION FairSpec
PROPERTY WaitNeverBlocks
\* Every goroutine may end in the panic of a Fatalf.
CHECK_DEADLOCK FALSE
