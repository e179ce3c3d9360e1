SPECIFICATION Spec
CONSTANTS
  s1 = s1
  s2 = s2
  j1 = j1
  j2 = j2
  Stations = {s1, s2}
  Telegrams = {1, 2}
  AttachCnt <- RollingOver
  RolloverHigh = 14
  RolloverLow = 1
  Before = 1
  Jobs = {j1, j2}
  MaxMishaps = 1
  MaxInputs = 2
  NoStation = NoStation
CONSTRAINT UpToFallBack
SYMMETRY Symmetry
INVARIANTS TypeOK ServedOnce KeyKept Converged
CHECK_DEADLOCK FALSE
