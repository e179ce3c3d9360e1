SPECIFICATION FairSpec
CONSTANTS
  MaxConns = 3
  MaxOps = 2
  MaxOpen = 1
  Journalled = {2}
  MaxFaults = 1
  MaxCrashes = 1
INVARIANTS TypeOK NeverRefused SessionSurvives
PROPERTIES StoredOnlyRises AdmittedIsStored
CHECK_DEADLOCK FALSE
