SPECIFICATION Spec
CONSTANTS
  Reqs = {r1, r2}
  Sessions = {s1}
  Tasks = {t1}
  Workers = {w1, w2}
  Chans = {c1, c2}
  Nil = Nil
  CanWait = TRUE
  CanIdle = TRUE
INVARIANT BreakPageMeansBusy
CHECK_DEADLOCK FALSE
