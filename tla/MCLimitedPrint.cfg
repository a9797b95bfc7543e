\* Three calls, a cache of one id, durations below and above the lifetime.
CONSTANTS
  Calls = {c1, c2, c3}
  Ids = {i1, i2}
  Durations = {1, 3}
  Cap = 1
  Expire = 2
  MaxTime = 3
  None = None
SYMMETRY Symmetry
SPECIFICATION Spec
INVARIANTS SilencedByRecent NoEarlyRepeat
\* All calls may be over.
CHECK_DEADLOCK FALSE
