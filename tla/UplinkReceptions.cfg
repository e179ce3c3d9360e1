SPECIFICATION Spec
CONSTANTS
  t1 = t1
  t2 = t2
  t3 = t3
  s1 = s1
  s2 = s2
  Telegrams = {t1, t2, t3}
  Stations = {s1, s2}
  RxTime <- HeardAt
  Content <- Fingerprint
  Window = 2
  ReceptionWindow = 1
  Channels = {c1}
  Configured = {c1}
  BaseDelay = 1
  MaxDelay = 1
  AttemptCap = 1
  BatchSize = 1
  MaxMessages = 2
  NoRow = NoRow
  NoTelegram = NoTelegram
  MayCrash = FALSE
  DBMayFail = FALSE
  MayDoubt = FALSE
  MayForget = TRUE
INVARIANTS ReuseIsAnotherTelegram OneTransmission WindowSeen
