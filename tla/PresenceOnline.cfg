SPECIFICATION FairSpec
CONSTANTS
  Conns = {c1, c2, c3}
  NoConn = NoConn
  MaxSeen = 1
PROPERTIES LiveShownOnline OnlineUnlessRaced
