\* Two goroutines that set keys and print to two loggers of one file.
CONSTANTS
  Goroutines = {g1, g2}
  Loggers = {l1, l2}
  f1 = f1
  Names = {f1}
  NameOf <- OneFile
  Keys = {k1, k2}
  Msgs = {m1, m2}
  Kinds = {"text", "base64", "empty", "long"}
  Faults = {"mkdir", "encrypt", "write"}
  MaxSets = 2
  None = None
SYMMETRY Symmetry
SPECIFICATION Spec
INVARIANTS KeyRespected GlobalRespected RoundTrip
