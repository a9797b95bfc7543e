\* One HandlePanic and two HandlePanicLog, within an hour and across two.
CONSTANTS
  Handlers <- MCHandlers
  LogHandlers <- MCLogHandlers
  Size <- MCSize
  NumDirs = 2
  MaxHour = 1
  Faults = {"mkdir", "create", "write"}
  None = None
SPECIFICATION FairSpec
INVARIANTS MixNeedsHandlePanic LastReportWhole SomeReportKept
PROPERTY HandlersReturn
\* The handlers may all have returned.
CHECK_DEADLOCK FALSE
