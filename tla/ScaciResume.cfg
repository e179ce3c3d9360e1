SPECIFICATION Spec
CONSTANTS
  MaxConns = 2
  MaxRows = 2
  u1 = u1
  r1 = r1
  Msgs <- MCMsgs
  Uplinks <- MCUplinks
  Limit = 1
  MaxSc = 2
  MaxFailures = 1
INVARIANTS TypeOK AcceptedIsOnRecord RowFollowsConnection NothingLeftBehind IdsInOrder
CHECK_DEADLOCK FALSE
