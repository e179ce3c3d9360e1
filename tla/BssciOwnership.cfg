SPECIFICATION Spec
CONSTANTS
  c1 = c1
  c2 = c2
  c3 = c3
  Conns = {c1, c2, c3}
  MaxRows = 2
  Uuids = {u1, u2}
  MaxScOps = 1
  MaxSenders = 0
  MaxFaults = 1
  MaxCrashes = 1
  NoConn = NoConn
  NoRow = 0
SYMMETRY Symmetry
INVARIANTS OneOwner
PROPERTIES TerminatedIsFinal
CHECK_DEADLOCK FALSE
