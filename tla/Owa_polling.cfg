SPECIFICATION OwaFairSpec
CONSTANTS
  r1 = r1
  r2 = r2
  t1 = t1
  t2 = t2
  Reqs = {r1, r2}
  Sessions <- MCSessions
  Tasks = {t1, t2}
  Workers = {w1, w2}
  Chans = {c1, c2}
  Nil = Nil
  CanWait = TRUE
  CanIdle = TRUE
  Client <- MCClient
  Uuid <- MCUuid
  Patient = {r1}
VIEW OwaView
INVARIANT OwaTypeOK
PROPERTIES
  NoWorkerRepeats
  AnswerArrives
  RunReturns
  RegistryDrains
CHECK_DEADLOCK FALSE
