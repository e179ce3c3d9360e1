SPECIFICATION QuietSpec
CONSTANTS
  d1 = d1
  d2 = d2
  Downlinks = {d1}
  Stations = {s1}
  Windows = {}
  Dispatchers = {w1}
  NoStation = NoStation
  NoWindow = NoWindow
  NoDownlink = NoDownlink
  RowID <- SmallRowID
  QueID <- DrawnQueID
  QueueIDThreshold = 10
  MaxAttempts = 2
  MayCrash = FALSE
  DBMayFail = FALSE
INVARIANTS EndedStaysEnded
