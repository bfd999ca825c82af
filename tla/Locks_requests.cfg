SPECIFICATION FairSpec
CONSTANTS
  Handlers = {h1, h2}
  Sessions = {s1}
  Workers = {w1, w2}
  Nil = Nil
  Cap = 1
INVARIANTS TypeOK InfoExclusive KillExclusive LockOrder NeverNilFile
PROPERTIES Served Released
