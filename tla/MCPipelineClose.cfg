\* One goroutine prints and closes.
CONSTANTS
  Goroutines = {g1}
  Consumer = consumer
  Loggers = {l1}
  Msgs = {m1, m2}
  ChanCap = 2
  Faults = {}
  None = None
SPECIFICATION Spec
PROPERTY CloseReleases
\* Every goroutine may end in the panic of a Fatalf.
CHECK_DEADLOCK FALSE
