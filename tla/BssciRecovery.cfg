SPECIFICATION FairSpec
CONSTANTS
  c1 = c1
  c2 = c2
  c3 = c3
  Conns = {c1, c2}
  MaxRows = 1
  Uuids = {u1}
  MaxScOps = 2
  MaxSenders = 1
  MaxFaults = 1
  MaxCrashes = 1
  NoConn = NoConn
  NoRow = 0
INVARIANTS TypeOK JournalCoversOpen IdsUsedOnce ReissuedIsCached
PROPERTIES LostRowHandedBack
CHECK_DEADLOCK FALSE
