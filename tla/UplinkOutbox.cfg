SPECIFICATION FairSpec
CONSTANTS
  t1 = t1
  t2 = t2
  t3 = t3
  s1 = s1
  s2 = s2
  Telegrams = {t1}
  Stations = {s1, s2}
  RxTime <- HeardAt
  Content <- Fingerprint
  Window = 2
  ReceptionWindow = 1
  Channels = {c1, c2}
  Configured = {c1}
  BaseDelay = 1
  MaxDelay = 5
  AttemptCap = 4
  BatchSize = 2
  MaxMessages = 1
  NoRow = NoRow
  NoTelegram = NoTelegram
  MayCrash = TRUE
  DBMayFail = TRUE
  MayDoubt = TRUE
  MayForget = TRUE
INVARIANTS UplinkInv HandedOnce BackoffDoublesToCap
PROPERTY Retried
