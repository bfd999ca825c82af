SPECIFICATION Spec
CONSTANTS
  Reqs = {r1, r2}
  Sessions = {s1}
  Tasks = {t1, t2}
  Workers = {w1, w2}
  Chans = {c1, c2}
  Nil = Nil
  CanWait = TRUE
  CanIdle = TRUE
VIEW View
SYMMETRY Symmetry
INVARIANTS
  TypeOK
  SignalExclusive
  ListenerNeverBlocks
  RegisteredIsAnswered
  ResultRouting
  WlistLive
  GaugeCoversRegistry
PROPERTY ServicePromise
CHECK_DEADLOCK FALSE
