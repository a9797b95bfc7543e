\* Two goroutines that call without end, two messages: an Add may come too late.
CONSTANTS
  Goroutines = {g1, g2}
  Names = {f1, f2}
  Loggers = {l1, l2}
  Msgs = {m1, m2}
  CacheCap = 1
  ChanCap = 1
  CacheLocked = TRUE
  None = None
SPECIFICATION FairSpec
PROPERTIES CallsReturn ImplementsDirectory
\* After a misuse of a WaitGroup everyone may be waiting for ever.
CHECK_DEADLOCK FALSE
