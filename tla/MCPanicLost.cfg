\* One HandlePanic and two HandlePanicLog, nothing fails.
CONSTANTS
  Handlers <- MCHandlers
  LogHandlers <- MCLogHandlers
  Size <- MCSize
  NumDirs = 2
  MaxHour = 1
  Faults = {}
  None = None
SPECIFICATION Spec
INVARIANT NeverLost
\* The handlers may all have returned.
CHECK_DEADLOCK FALSE
