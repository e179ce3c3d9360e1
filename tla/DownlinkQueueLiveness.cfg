SPECIFICATION FairSpec
CONSTANTS
  d1 = d1
  d2 = d2
  Downlinks = {d1}
  Stations = {s1}
  Windows = {m1}
  Dispatchers = {w1}
  NoStation = NoStation
  NoWindow = NoWindow
  NoDownlink = NoDownlink
  RowID <- SmallRowID
  QueID <- DrawnQueID
  QueueIDThreshold = 10
  MaxAttempts = 2
  MayCrash = FALSE
  DBMayFail = FALSE
INVARIANTS ReservationAlive
PROPERTIES OverdueSettles
