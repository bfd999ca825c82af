SPECIFICATION FairSpec
CONSTANTS
  Reqs = {r1}
  Sessions = {s1}
  Tasks = {t1}
  Workers = {w1}
  Chans = {c1}
  Nil = Nil
  CanWait = TRUE
  CanIdle = TRUE
PROPERTY SendCompletes
CHECK_DEADLOCK FALSE
