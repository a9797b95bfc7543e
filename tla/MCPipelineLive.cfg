\* An application that never stops printing.
CONSTANTS
  Goroutines = {g1, g2}
  Consumer = consumer
  Loggers = {l1}
  Msgs = {m1, m2}
  ChanCap = 1
  Faults = {"mkdir", "write"}
  None = None
SPECIFICATION EndlessSpec
PROPERTIES WaitReturns Delivered
\* Every goroutine may end in the panic of a Fatalf.
CHECK_DEADLOCK FALSE
